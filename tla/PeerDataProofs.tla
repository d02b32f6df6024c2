---------------------------- MODULE PeerDataProofs ----------------------------
(***************************************************************************)
(* Proofs about what peers may fill: the memory pool, the orphan transactions *)
(* (TxRelay) and the table of addresses (AddrMan).                            *)
(*                                                                            *)
(* The three do not share state.  The pool and the table are proved about in  *)
(* the same way: as values, on which a call is a composition of steps, with   *)
(* one lemma for each step that says what it keeps.                           *)
(***************************************************************************)
EXTENDS TxRelay, AddrMan, BlockTreeProofs, FunctionTheorems, SequenceTheorems

\* A set of naturals that is not empty has a least element.
LEMMA LeastNat ==
    ASSUME NEW T, T \subseteq Nat, T # {}
    PROVE  \E n \in T : \A l \in Nat : l < n => l \notin T
<1>1. \E n \in T : \A l \in T : ~(<<l, n>> \in OpToRel(<, Nat))
  BY NatLessThanWellFounded, WFMin
<1>2. PICK n \in T : \A l \in T : ~(<<l, n>> \in OpToRel(<, Nat))
  BY <1>1
<1> QED BY <1>2 DEF OpToRel

-----------------------------------------------------------------------------
(* The two maps of orphans *)

OrphansIn(maps) == {x \in Txs : maps[1][x] # None}

MapsAgree(maps) ==
    /\ maps[1] \in [Txs -> Peers \cup {None}]
    /\ maps[2] \in [Txs -> SUBSET Txs]
    /\ \A p \in Txs : maps[2][p] = {x \in OrphansIn(maps) : p \in Prevs(x)}

\* An orphan enters both maps.
LEMMA AddOrphanAgrees ==
    ASSUME NEW maps, NEW x \in Txs, NEW peer \in Peers, MapsAgree(maps)
    PROVE  /\ MapsAgree(AddOrphanTx(maps, x, peer))
           /\ OrphansIn(AddOrphanTx(maps, x, peer)) = OrphansIn(maps) \cup {x}
<1> DEFINE n == AddOrphanTx(maps, x, peer)
<1>1. n[1] \in [Txs -> Peers \cup {None}] /\ n[2] \in [Txs -> SUBSET Txs]
  BY DEF MapsAgree, AddOrphanTx
<1>2. \A y \in Txs : n[1][y] = IF y = x THEN peer ELSE maps[1][y]
  BY DEF MapsAgree, AddOrphanTx
<1>3. OrphansIn(n) = OrphansIn(maps) \cup {x}
  BY <1>2, PeersAssumption DEF OrphansIn
<1>4. \A p \in Txs : n[2][p] = IF p \in Prevs(x) THEN maps[2][p] \cup {x} ELSE maps[2][p]
  BY DEF AddOrphanTx
<1>5. \A p \in Txs : n[2][p] = {y \in OrphansIn(n) : p \in Prevs(y)}
  BY <1>3, <1>4 DEF MapsAgree
<1> QED BY <1>1, <1>3, <1>5 DEF MapsAgree

\* Erased orphans leave both maps.
LEMMA EraseOrphansAgree ==
    ASSUME NEW maps, NEW S, MapsAgree(maps)
    PROVE  /\ MapsAgree(EraseOrphans(maps, S))
           /\ OrphansIn(EraseOrphans(maps, S)) = OrphansIn(maps) \ S
<1> DEFINE n == EraseOrphans(maps, S)
<1>1. n[1] \in [Txs -> Peers \cup {None}] /\ n[2] \in [Txs -> SUBSET Txs]
  BY DEF MapsAgree, EraseOrphans
<1>2. \A y \in Txs : n[1][y] = IF y \in S THEN None ELSE maps[1][y]
  BY DEF EraseOrphans
<1>3. OrphansIn(n) = OrphansIn(maps) \ S
  BY <1>2 DEF OrphansIn
<1>4. \A p \in Txs : n[2][p] = maps[2][p] \ {x \in S : maps[1][x] # None /\ p \in Prevs(x)}
  BY DEF EraseOrphans, Forgotten
<1>5. ASSUME NEW p \in Txs PROVE n[2][p] = {y \in OrphansIn(n) : p \in Prevs(y)}
  <2>1. maps[2][p] = {y \in OrphansIn(maps) : p \in Prevs(y)}
    BY DEF MapsAgree
  <2>2. OrphansIn(maps) = {y \in Txs : maps[1][y] # None}
    BY DEF OrphansIn
  <2> HIDE DEF n
  <2> QED BY <1>3, <1>4, <2>1, <2>2
<1> QED BY <1>1, <1>3, <1>5 DEF MapsAgree

\* The inductive invariant of the orphans.  When the handler is not running its
\* loop, nothing is left of an earlier call.
OrphanInv ==
    /\ OrphansConsistent
    /\ IsFiniteSet(Orphans)
    /\ vWorkQueue \in Seq(Txs)
    /\ vWorkQueue = <<>> => i = 1 /\ todo = {} /\ vEraseQueue = {}

LEMMA InvAgrees ==
    /\ OrphanInv => MapsAgree(orphanMaps)
    /\ OrphansIn(orphanMaps) = Orphans
BY DEF OrphanInv, OrphansConsistent, RelayTypeOK, OrphanMapsAgree, MapsAgree, OrphansIn, Orphans, orphanMaps

\* What the maps become agrees; the rest of the invariant is about the loop.
LEMMA BecomeAgrees ==
    ASSUME NEW maps, Become(maps), MapsAgree(maps), IsFiniteSet(OrphansIn(maps)),
           Cardinality(OrphansIn(maps)) <= MaxOrphans,
           vWorkQueue' \in Seq(Txs), i' \in 1..(Len(vWorkQueue') + 1),
           todo' \subseteq OrphansIn(maps), vEraseQueue' \subseteq OrphansIn(maps),
           setMisbehaving' \subseteq Peers,
           vWorkQueue' = <<>> => i' = 1 /\ todo' = {} /\ vEraseQueue' = {}
    PROVE  OrphanInv'
<1>1. mapOrphanTransactions' = maps[1] /\ mapOrphanTransactionsByPrev' = maps[2]
  BY DEF Become
<1>2. Orphans' = OrphansIn(maps)
  BY <1>1 DEF Orphans, OrphansIn
<1>3. ToSet(vWorkQueue') \subseteq Txs
  BY ElementOfSeq DEF ToSet
<1>4. RelayTypeOK'
  BY <1>1, <1>2, <1>3 DEF RelayTypeOK, MapsAgree
<1>5. OrphanMapsAgree'
  BY <1>1, <1>2 DEF OrphanMapsAgree, MapsAgree
<1> QED BY <1>2, <1>4, <1>5 DEF OrphanInv, OrphansConsistent

LEMMA MissingInputsOrphans ==
    ASSUME OrphanInv, NEW x \in Txs, NEW peer \in Peers, TxMissingInputs(x, peer)
    PROVE  OrphanInv'
<1> DEFINE more == AddOrphanTx(orphanMaps, x, peer)
<1>1. MapsAgree(more) /\ OrphansIn(more) = Orphans \cup {x}
  BY InvAgrees, AddOrphanAgrees
<1>2. IsFiniteSet(OrphansIn(more)) /\ Cardinality(OrphansIn(more)) <= MaxOrphans + 1
      /\ Cardinality(OrphansIn(more)) \in Nat
  <2>1. IsFiniteSet(Orphans) /\ Cardinality(Orphans) <= MaxOrphans
    BY DEF OrphanInv, OrphansConsistent, RelayTypeOK
  <2> QED BY <1>1, <2>1, FS_AddElement, FS_CardinalityType, PeersAssumption
<1>3. PICK maps \in LimitOrphanTxSize(more) : Become(maps)
  BY DEF TxMissingInputs
<1>4. MapsAgree(maps) /\ IsFiniteSet(OrphansIn(maps)) /\ Cardinality(OrphansIn(maps)) <= MaxOrphans
  <2> HIDE DEF more
  <2>1. CASE maps = more /\ Cardinality(OrphansIn(more)) <= MaxOrphans
    BY <1>1, <1>2, <2>1
  <2>2. CASE \E y \in OrphansIn(more) : maps = EraseOrphanTx(more, y)
    <3>1. PICK y \in OrphansIn(more) : maps = EraseOrphanTx(more, y)
      BY <2>2
    <3>2. MapsAgree(maps) /\ OrphansIn(maps) = OrphansIn(more) \ {y}
      BY <1>1, <3>1, EraseOrphansAgree DEF EraseOrphanTx
    <3>3. IsFiniteSet(OrphansIn(maps)) /\ Cardinality(OrphansIn(maps)) = Cardinality(OrphansIn(more)) - 1
      BY <1>2, <3>2, FS_RemoveElement
    <3> QED BY <1>2, <3>2, <3>3, PeersAssumption
  <2> QED BY <1>3, <2>1, <2>2 DEF LimitOrphanTxSize, OrphansIn
<1>5. vWorkQueue = <<>> /\ UNCHANGED loop
  BY DEF TxMissingInputs, Free
<1> QED BY <1>3, <1>4, <1>5, BecomeAgrees DEF OrphanInv, OrphansConsistent, RelayTypeOK, loop

LEMMA EraseOrphansInv ==
    ASSUME OrphanInv, NEW S, Become(EraseOrphans(orphanMaps, S)),
           vWorkQueue' = <<>>, i' = 1, todo' = {}, vEraseQueue' = {}, setMisbehaving' \subseteq Peers
    PROVE  OrphanInv'
<1> DEFINE less == EraseOrphans(orphanMaps, S)
<1>1. MapsAgree(less) /\ OrphansIn(less) = Orphans \ S
  BY InvAgrees, EraseOrphansAgree
<1>2. IsFiniteSet(Orphans) /\ Cardinality(Orphans) <= MaxOrphans /\ Cardinality(Orphans) \in Nat
  BY FS_CardinalityType DEF OrphanInv, OrphansConsistent, RelayTypeOK
<1>3. Orphans \ S \subseteq Orphans
  OBVIOUS
<1>4. IsFiniteSet(Orphans \ S) /\ Cardinality(Orphans \ S) <= MaxOrphans
  BY <1>2, <1>3, FS_Subset, FS_CardinalityType, PeersAssumption
<1>5. vWorkQueue' \in Seq(Txs) /\ i' \in 1..(Len(vWorkQueue') + 1)
  OBVIOUS
<1> HIDE DEF less
<1>6. Become(less)
  BY DEF less
<1> QED BY <1>1, <1>4, <1>5, <1>6, BecomeAgrees

\* The maps stay as they are.
LEMMA LoopInv ==
    ASSUME OrphanInv, UNCHANGED orphanMaps,
           vWorkQueue' \in Seq(Txs), i' \in 1..(Len(vWorkQueue') + 1),
           todo' \subseteq Orphans, vEraseQueue' \subseteq Orphans,
           setMisbehaving' \subseteq Peers,
           vWorkQueue' = <<>> => i' = 1 /\ todo' = {} /\ vEraseQueue' = {}
    PROVE  OrphanInv'
<1>1. Become(orphanMaps)
  BY DEF Become, orphanMaps
<1>2. MapsAgree(orphanMaps) /\ OrphansIn(orphanMaps) = Orphans
  BY InvAgrees
<1> QED BY <1>1, <1>2, BecomeAgrees DEF OrphanInv, OrphansConsistent, RelayTypeOK

LEMMA OrphanInit == RelayInit => OrphanInv
<1> SUFFICES ASSUME RelayInit PROVE OrphanInv
  OBVIOUS
<1>1. Orphans = {}
  BY DEF RelayInit, Orphans
<1>2. IsFiniteSet(Orphans) /\ Cardinality(Orphans) = 0
  BY <1>1, FS_EmptySet
<1>3. vWorkQueue \in Seq(Txs) /\ ToSet(vWorkQueue) = {} /\ Len(vWorkQueue) = 0
  BY DEF RelayInit, ToSet
<1> QED BY <1>1, <1>2, <1>3, PeersAssumption DEF RelayInit, OrphanInv, OrphansConsistent, RelayTypeOK, OrphanMapsAgree

LEMMA OrphanNext == OrphanInv /\ [RelayNext]_relayVars => OrphanInv'
<1> SUFFICES ASSUME OrphanInv, [RelayNext]_relayVars PROVE OrphanInv'
  OBVIOUS
<1>0. /\ vWorkQueue \in Seq(Txs) /\ Len(vWorkQueue) \in Nat /\ i \in 1..(Len(vWorkQueue) + 1)
      /\ todo \subseteq Orphans /\ vEraseQueue \subseteq Orphans /\ setMisbehaving \subseteq Peers
      /\ vWorkQueue = <<>> => i = 1 /\ todo = {} /\ vEraseQueue = {}
  BY LenProperties DEF OrphanInv, OrphansConsistent, RelayTypeOK
<1>1. CASE UNCHANGED <<orphanMaps, loop>>
  BY <1>0, <1>1, LoopInv DEF loop
<1>2. ASSUME NEW x \in Txs, TxAccepted(x) PROVE OrphanInv'
  <2>1. UNCHANGED <<orphanMaps, vEraseQueue, setMisbehaving>> /\ vWorkQueue = <<>>
    BY <1>2 DEF TxAccepted, Free
  <2>2. CASE vWorkQueue' = <<x>> /\ i' = 1 /\ todo' = mapOrphanTransactionsByPrev[x]
    <3>1. todo' \subseteq Orphans
      BY <2>2 DEF OrphanInv, OrphansConsistent, OrphanMapsAgree
    <3>2. vWorkQueue' \in Seq(Txs) /\ Len(vWorkQueue') = 1 /\ vWorkQueue' # <<>>
      BY <2>2
    <3> QED BY <1>0, <2>1, <2>2, <3>1, <3>2, LoopInv
  <2>3. CASE UNCHANGED <<vWorkQueue, i, todo>>
    BY <1>0, <2>1, <2>3, LoopInv
  <2> QED BY <1>2, <2>2, <2>3 DEF TxAccepted
<1>3. ASSUME NEW x \in Txs, NEW p \in Peers, TxMissingInputs(x, p) PROVE OrphanInv'
  BY <1>3, MissingInputsOrphans
<1>4. ASSUME NEW y \in Txs, OrphanAccepted(y) PROVE OrphanInv'
  <2>1. UNCHANGED <<orphanMaps, i, setMisbehaving>> /\ y \in todo
        /\ vEraseQueue' = vEraseQueue \cup {y} /\ todo' = todo \ {y}
    BY <1>4 DEF OrphanAccepted
  <2>2. vWorkQueue' \in Seq(Txs) /\ Len(vWorkQueue') >= Len(vWorkQueue) /\ Len(vWorkQueue') \in Nat
    BY <1>0, <1>4, AppendProperties, LenProperties DEF OrphanAccepted, Chained
  <2>3. vWorkQueue # <<>> /\ vWorkQueue' # <<>>
    BY <1>0, <2>1, <2>2, EmptySeq
  <2> QED BY <1>0, <2>1, <2>2, <2>3, LoopInv
<1>5. ASSUME NEW y \in Txs, OrphanRejected(y) PROVE OrphanInv'
  <2>1. UNCHANGED <<orphanMaps, i, vWorkQueue>> /\ y \in todo
        /\ vEraseQueue' = vEraseQueue \cup {y} /\ todo' = todo \ {y}
    BY <1>5 DEF OrphanRejected
  <2>2. setMisbehaving' \subseteq Peers
    <3>1. mapOrphanTransactions[y] \in Peers
      BY <1>0, <2>1 DEF OrphanInv, OrphansConsistent, RelayTypeOK, Orphans
    <3> QED BY <1>0, <1>5, <3>1 DEF OrphanRejected
  <2>3. vWorkQueue # <<>>
    BY <1>0, <2>1
  <2> QED BY <1>0, <2>1, <2>2, <2>3, LoopInv
<1>6. ASSUME NEW y \in Txs, OrphanSkipped(y) PROVE OrphanInv'
  BY <1>0, <1>6, LoopInv DEF OrphanSkipped
<1>7. CASE NextInQueue
  <2>1. UNCHANGED <<orphanMaps, vWorkQueue, vEraseQueue, setMisbehaving>> /\ vWorkQueue # <<>>
        /\ i' = i + 1 /\ i < Len(vWorkQueue) /\ todo' = mapOrphanTransactionsByPrev[vWorkQueue[i + 1]]
    BY <1>7 DEF NextInQueue
  <2>2. vWorkQueue[i + 1] \in Txs
    BY <1>0, <2>1, ElementOfSeq
  <2>3. todo' \subseteq Orphans
    BY <2>1, <2>2 DEF OrphanInv, OrphansConsistent, OrphanMapsAgree
  <2> QED BY <1>0, <2>1, <2>3, LoopInv
<1>8. CASE EraseQueue
  BY <1>8, EraseOrphansInv DEF EraseQueue, LoopEnds
<1>9. ASSUME NEW p \in Peers, EraseOrphansFor(p) PROVE OrphanInv'
  BY <1>0, <1>9, EraseOrphansInv DEF EraseOrphansFor, Free, loop
<1> QED BY <1>1, <1>2, <1>3, <1>4, <1>5, <1>6, <1>7, <1>8, <1>9 DEF RelayNext, relayVars

\* The orphan pool stays within its limit and its two maps agree, after any sequence
\* of additions, evictions, resolved orphans and departed peers.
THEOREM OrphansAgree == RelaySpec => []OrphansConsistent
<1>1. OrphanInv => OrphansConsistent
  BY DEF OrphanInv
<1> QED BY <1>1, OrphanInit, OrphanNext, PTL DEF RelaySpec

-----------------------------------------------------------------------------
(* The pool as a value.  Every operation on it is a composition of removals,  *)
(* one addition and the repair of the links, so what holds of it is stated    *)
(* for a value m and kept by each of them.                                    *)

PoolShape(m) ==
    m = [txs |-> m.txs, parents |-> m.parents, children |-> m.children,
         mapNextTx |-> m.mapNextTx, count |-> m.count, fees |-> m.fees]

\* Nothing is kept for a transaction that is not in the pool.
NothingLeft(m) == \A x \in Txs \ m.txs : m.parents[x] = {} /\ m.children[x] = {} /\ m.count[x] = 0

\* Both directions of mapLinks agree, and a link is an input.
LinksReal(m) ==
    \A x, y \in m.txs :
        /\ y \in m.children[x] <=> x \in m.parents[y]
        /\ y \in m.children[x] => x \in Prevs(y)

\* mapNextTx knows who spends an output, and nobody else does.
SpendsReal(m) == \A o \in Outpoint : \A x \in m.txs : o \in Prevouts(x) <=> m.mapNextTx[o] = x

PoolSound(m) ==
    /\ PoolShape(m)
    /\ m.txs \subseteq Txs /\ IsFiniteSet(m.txs)
    /\ \A x \in m.txs : ~IsCoinBase(x)
    /\ m.parents \in [Txs -> SUBSET m.txs] /\ m.children \in [Txs -> SUBSET m.txs]
    /\ m.mapNextTx \in [Outpoint -> m.txs \cup {None}]
    /\ DOMAIN m.count = Txs
    /\ NothingLeft(m) /\ LinksReal(m) /\ SpendsReal(m)

\* Every child is linked to its parent, but for the transactions of U, which were put
\* back and know only of each other.
LinksMade(m, U) ==
    \A x, y \in m.txs : x \in Prevs(y) /\ (x \in U => y \in U) => y \in m.children[x]

\* HaveInput, from the coins c
InputIn(c, m, o) == o[2] \in IF o[1] \in m.txs THEN Outs[o[1]] ELSE c[o[1]].outs

\* Every input is there, but for those from the transactions of Q, which will still be
\* put back; those of U were accepted and have theirs.
InputsKnown(c, m, U, Q) ==
    \A y \in m.txs : \A o \in Prevouts(y) :
        InputIn(c, m, o) \/ (y \notin U /\ o[1] \in Q /\ o[2] \in Outs[o[1]])

\* What DisconnectTip has put back, and what it has not looked at yet
PutBack == ToSet(vHashUpdate)
NotYet  == IF step = "resurrect" THEN {Vtx[tip][j] : j \in next..Len(Vtx[tip])} ELSE {}

\* The inductive invariant of the pool
PoolInv ==
    /\ PoolSound(mempool) /\ Cardinality(mempool.txs) <= MaxPool
    /\ mapDeltas \in [Txs -> {0, FeeDelta}]
    /\ tip \in Blocks /\ step \in Steps /\ cut \in BOOLEAN
    /\ next \in 1..(Len(Vtx[tip]) + 1)
    /\ step = "resurrect" => tip # Genesis
    /\ step # "resurrect" => next = 1 /\ vHashUpdate = <<>>
    /\ vHashUpdate \in Seq(Txs) /\ PutBack \subseteq {Vtx[tip][j] : j \in 1..(next - 1)}
    /\ ~cut => PutBack \subseteq mempool.txs /\ LinksMade(mempool, PutBack)
               /\ InputsKnown(Coins, mempool, PutBack, NotYet)

-----------------------------------------------------------------------------
(* Inputs, and what can be reached along links *)

LEMMA PrevoutsType ==
    ASSUME NEW x \in Txs
    PROVE  /\ Prevouts(x) \subseteq Outpoint
           /\ \A o \in Prevouts(x) : o \in Txs \X Nat /\ o[1] \in Prevs(x)
           /\ Prevs(x) \subseteq Txs
<1>1. Prevouts(x) \subseteq Outpoint
  BY DEF Outpoint
<1>2. \A o \in Prevouts(x) : o \in Txs \X Nat
  <2> SUFFICES ASSUME NEW k \in DOMAIN Vin[x] PROVE Vin[x][k] \in Txs \X Nat
    BY DEF Prevouts, Items
  <2> QED BY VinAssumption, ElementOfSeq
<1> QED BY <1>1, <1>2 DEF Prevs

LEMMA OutpointType ==
    ASSUME NEW o \in Outpoint
    PROVE  o \in Txs \X Nat /\ o[1] \in Txs /\ o = <<o[1], o[2]>>
<1>1. PICK x \in Txs : o \in Prevouts(x)
  BY DEF Outpoint
<1>2. o \in Txs \X Nat
  BY <1>1, PrevoutsType
<1> QED BY <1>2

\* S contains what its elements are linked to.
ClosedUnder(m, S, links) == S \subseteq m.txs /\ \A z \in S : links[z] \subseteq S

LEMMA ReachIs ==
    ASSUME NEW m, NEW links, NEW S \in SUBSET m.txs, \A z \in m.txs : links[z] \subseteq m.txs
    PROVE  /\ S \subseteq Reach(m, S, links)
           /\ ClosedUnder(m, Reach(m, S, links), links)
           /\ \A T \in SUBSET m.txs : S \subseteq T /\ ClosedUnder(m, T, links) => Reach(m, S, links) \subseteq T
<1>1. S \subseteq Reach(m, S, links) /\ Reach(m, S, links) \subseteq m.txs
  BY DEF Reach
<1>2. ASSUME NEW z \in Reach(m, S, links), NEW y \in links[z] PROVE y \in Reach(m, S, links)
  <2>1. z \in m.txs /\ y \in m.txs
    BY <1>1, <1>2
  <2>2. ASSUME NEW T \in SUBSET m.txs, S \subseteq T, \A v \in T : links[v] \subseteq T PROVE y \in T
    <3>1. z \in T
      BY <1>2, <2>2 DEF Reach
    <3> QED BY <1>2, <2>2, <3>1
  <2> QED BY <2>1, <2>2 DEF Reach
<1>3. ASSUME NEW T \in SUBSET m.txs, S \subseteq T, ClosedUnder(m, T, links) PROVE Reach(m, S, links) \subseteq T
  BY <1>3 DEF Reach, ClosedUnder
<1> QED BY <1>1, <1>2, <1>3 DEF ClosedUnder

\* The descendants of S are a set that RemoveStaged may be given.
ClosedDown(m, S) == ClosedUnder(m, S, m.children)

LEMMA DescendantsClosed ==
    ASSUME NEW m, PoolSound(m), NEW S \in SUBSET m.txs
    PROVE  ClosedDown(m, CalculateDescendants(m, S)) /\ S \subseteq CalculateDescendants(m, S)
<1>1. \A z \in m.txs : m.children[z] \subseteq m.txs
  BY DEF PoolSound
<1> QED BY <1>1, ReachIs DEF CalculateDescendants, ClosedDown

-----------------------------------------------------------------------------
(* What removals do.  Drops(m, r, X): r is a sound pool with some transactions *)
(* of m less, the links between the others are there, and only children of      *)
(* transactions of X may have stayed without their parents.                      *)

Drops(m, r, X) ==
    /\ PoolSound(r) /\ r.txs \subseteq m.txs
    /\ \A x, y \in r.txs : y \in m.children[x] => y \in r.children[x]
    /\ \A p \in m.txs \ r.txs : \A y \in r.txs : p \in Prevs(y) => p \in X

\* Enough links are known to remove descendants; X = Txs promises nothing.
Linkable(m, X) == X = Txs \/ LinksMade(m, X)

LEMMA DropsNothing == ASSUME NEW m, PoolSound(m), NEW X PROVE Drops(m, m, X)
BY DEF Drops

LEMMA DropsTwice ==
    ASSUME NEW m, NEW r, NEW s, NEW X, NEW Y, Drops(m, r, X), Drops(r, s, Y), X \subseteq Y
    PROVE  Drops(m, s, Y)
<1>1. PoolSound(s) /\ s.txs \subseteq r.txs /\ r.txs \subseteq m.txs
  BY DEF Drops
<1>2. \A x, y \in s.txs : y \in m.children[x] => y \in s.children[x]
  BY <1>1 DEF Drops
<1>3. ASSUME NEW p \in m.txs \ s.txs, NEW y \in s.txs, p \in Prevs(y) PROVE p \in Y
  <2>1. CASE p \in r.txs
    BY <1>3, <2>1 DEF Drops
  <2>2. CASE p \notin r.txs
    BY <1>1, <1>3, <2>2 DEF Drops
  <2> QED BY <2>1, <2>2
<1> QED BY <1>1, <1>2, <1>3 DEF Drops

LEMMA DropsLinks ==
    ASSUME NEW m, NEW r, NEW X, NEW W, Drops(m, r, X), LinksMade(m, W)
    PROVE  LinksMade(r, W)
BY DEF Drops, LinksMade

LEMMA DropsLinkable ==
    ASSUME NEW m, NEW r, NEW X, NEW W, Drops(m, r, X), Linkable(m, W)
    PROVE  Linkable(r, W)
BY DropsLinks DEF Linkable

LEMMA DropsInputs ==
    ASSUME NEW c, NEW m, NEW r, NEW X, NEW U, NEW Q, Drops(m, r, X), InputsKnown(c, m, U, Q),
           \A p \in m.txs \ r.txs : \A y \in r.txs : p \notin Prevs(y)
    PROVE  InputsKnown(c, r, U, Q)
<1> SUFFICES ASSUME NEW y \in r.txs, NEW o \in Prevouts(y)
             PROVE  InputIn(c, r, o) \/ (y \notin U /\ o[1] \in Q /\ o[2] \in Outs[o[1]])
  BY DEF InputsKnown
<1>1. y \in m.txs /\ r.txs \subseteq m.txs
  BY DEF Drops
<1>2. InputIn(c, m, o) \/ (y \notin U /\ o[1] \in Q /\ o[2] \in Outs[o[1]])
  BY <1>1 DEF InputsKnown
<1>3. o[1] \in Prevs(y)
  BY DEF Prevs
<1>4. o[1] \in m.txs <=> o[1] \in r.txs
  BY <1>1, <1>3
<1> QED BY <1>2, <1>4 DEF InputIn

LEMMA RemoveStagedIs ==
    ASSUME NEW m, PoolSound(m), NEW S \in SUBSET m.txs
    PROVE  LET r == RemoveStaged(m, S)
           IN  /\ r.txs = m.txs \ S
               /\ \A y \in Txs : r.parents[y] = IF y \in r.txs THEN m.parents[y] \ S ELSE {}
               /\ \A y \in Txs : r.children[y] = IF y \in r.txs THEN m.children[y] \ S ELSE {}
               /\ \A o \in Outpoint :
                     r.mapNextTx[o] = IF \E x \in S : o \in Prevouts(x) THEN None ELSE m.mapNextTx[o]
               /\ DOMAIN r.parents = Txs /\ DOMAIN r.children = Txs /\ DOMAIN r.mapNextTx = Outpoint
               /\ PoolShape(r) /\ DOMAIN r.count = Txs
               /\ \A y \in Txs \ r.txs : r.count[y] = 0
               /\ r.parents = [y \in Txs |-> r.parents[y]] /\ r.children = [y \in Txs |-> r.children[y]]
               /\ r.mapNextTx = [o \in Outpoint |-> r.mapNextTx[o]]
<1> DEFINE r == RemoveStaged(m, S)
           left == m.txs \ S
<1>1. r.txs = left
  BY DEF RemoveStaged
<1>2. left \subseteq m.txs /\ m.txs \subseteq Txs
  BY DEF PoolSound
<1>3. ASSUME NEW y \in Txs PROVE r.parents[y] = IF y \in left THEN m.parents[y] \ S ELSE {}
  <2>1. r.parents[y] = IF y \in left THEN {p \in m.parents[y] : p \in S => y \notin m.children[p]} ELSE {}
    BY DEF RemoveStaged
  <2>2. ASSUME y \in left, NEW p \in m.parents[y] PROVE p \in m.txs /\ y \in m.children[p]
    BY <1>2, <2>2 DEF PoolSound, LinksReal
  <2> HIDE DEF r
  <2> QED BY <2>1, <2>2
<1>4. ASSUME NEW y \in Txs PROVE r.children[y] = IF y \in left THEN m.children[y] \ S ELSE {}
  <2>1. r.children[y] = IF y \in left THEN {d \in m.children[y] : d \in S => y \notin m.parents[d]} ELSE {}
    BY DEF RemoveStaged
  <2>2. ASSUME y \in left, NEW d \in m.children[y] PROVE d \in m.txs /\ y \in m.parents[d]
    BY <1>2, <2>2 DEF PoolSound, LinksReal
  <2> HIDE DEF r
  <2> QED BY <2>1, <2>2
<1>5. \A o \in Outpoint : r.mapNextTx[o] = IF \E x \in S : o \in Prevouts(x) THEN None ELSE m.mapNextTx[o]
  BY DEF RemoveStaged
<1>6. DOMAIN r.parents = Txs /\ DOMAIN r.children = Txs /\ DOMAIN r.mapNextTx = Outpoint
      /\ DOMAIN r.count = Txs /\ \A y \in Txs \ r.txs : r.count[y] = 0
  BY DEF RemoveStaged
<1>7. PoolShape(r)
  BY DEF RemoveStaged, PoolShape
<1>8. r.parents = [y \in Txs |-> r.parents[y]] /\ r.children = [y \in Txs |-> r.children[y]]
      /\ r.mapNextTx = [o \in Outpoint |-> r.mapNextTx[o]]
  BY DEF RemoveStaged
<1> HIDE DEF r
<1> QED BY <1>1, <1>3, <1>4, <1>5, <1>6, <1>7, <1>8 DEF r

LEMMA RemoveStagedSound ==
    ASSUME NEW m, PoolSound(m), NEW S \in SUBSET m.txs
    PROVE  PoolSound(RemoveStaged(m, S))
<1> DEFINE r == RemoveStaged(m, S)
<1>0. /\ r.txs = m.txs \ S
      /\ \A y \in Txs : r.parents[y] = IF y \in r.txs THEN m.parents[y] \ S ELSE {}
      /\ \A y \in Txs : r.children[y] = IF y \in r.txs THEN m.children[y] \ S ELSE {}
      /\ \A o \in Outpoint : r.mapNextTx[o] = IF \E x \in S : o \in Prevouts(x) THEN None ELSE m.mapNextTx[o]
      /\ PoolShape(r) /\ DOMAIN r.count = Txs
      /\ \A y \in Txs \ r.txs : r.count[y] = 0
      /\ r.parents = [y \in Txs |-> r.parents[y]] /\ r.children = [y \in Txs |-> r.children[y]]
      /\ r.mapNextTx = [o \in Outpoint |-> r.mapNextTx[o]]
  BY RemoveStagedIs
<1> HIDE DEF r
<1>1. m.txs \subseteq Txs /\ r.txs \subseteq m.txs
  BY <1>0 DEF PoolSound
<1>2. \A y \in Txs : m.parents[y] \subseteq m.txs /\ m.children[y] \subseteq m.txs
  BY DEF PoolSound
<1>3. r.txs \subseteq Txs /\ IsFiniteSet(r.txs) /\ \A x \in r.txs : ~IsCoinBase(x)
  BY <1>0, <1>1, FS_Subset DEF PoolSound
<1>4. r.parents \in [Txs -> SUBSET r.txs] /\ r.children \in [Txs -> SUBSET r.txs]
  <2>1. ASSUME NEW y \in Txs PROVE r.parents[y] \in SUBSET r.txs /\ r.children[y] \in SUBSET r.txs
    <3>1. r.parents[y] = IF y \in r.txs THEN m.parents[y] \ S ELSE {}
      BY <1>0
    <3>2. r.children[y] = IF y \in r.txs THEN m.children[y] \ S ELSE {}
      BY <1>0
    <3>3. m.parents[y] \subseteq m.txs /\ m.children[y] \subseteq m.txs /\ r.txs = m.txs \ S
      BY <1>0, <1>2
    <3> QED BY <3>1, <3>2, <3>3
  <2> QED BY <1>0, <2>1
<1>5. SpendsReal(r)
  <2> SUFFICES ASSUME NEW o \in Outpoint, NEW x \in r.txs
               PROVE  o \in Prevouts(x) <=> r.mapNextTx[o] = x
    BY DEF SpendsReal
  <2>1. x \in m.txs /\ x \notin S /\ x # None
    BY <1>0, <1>1, NoneAssumption
  <2>2. o \in Prevouts(x) <=> m.mapNextTx[o] = x
    BY <2>1 DEF PoolSound, SpendsReal
  <2>3. CASE \E s \in S : o \in Prevouts(s)
    <3>1. PICK s \in S : o \in Prevouts(s)
      BY <2>3
    <3>2. m.mapNextTx[o] = s
      BY <3>1 DEF PoolSound, SpendsReal
    <3> QED BY <1>0, <2>1, <2>2, <2>3, <3>2
  <2>4. CASE ~\E s \in S : o \in Prevouts(s)
    BY <1>0, <2>2, <2>4
  <2> QED BY <2>3, <2>4
<1>6. r.mapNextTx \in [Outpoint -> r.txs \cup {None}]
  <2> SUFFICES ASSUME NEW o \in Outpoint PROVE r.mapNextTx[o] \in r.txs \cup {None}
    BY <1>0
  <2>1. m.mapNextTx[o] \in m.txs \cup {None}
    BY DEF PoolSound
  <2>2. CASE m.mapNextTx[o] \in S
    <3>1. o \in Prevouts(m.mapNextTx[o])
      BY <2>2 DEF PoolSound, SpendsReal
    <3> QED BY <1>0, <2>2, <3>1
  <2>3. CASE m.mapNextTx[o] \notin S
    BY <1>0, <2>1, <2>3
  <2> QED BY <2>2, <2>3
<1>7. NothingLeft(r)
  BY <1>0 DEF NothingLeft
<1>8. LinksReal(r)
  <2> SUFFICES ASSUME NEW x \in r.txs, NEW y \in r.txs
               PROVE  (y \in r.children[x] <=> x \in r.parents[y]) /\ (y \in r.children[x] => x \in Prevs(y))
    BY DEF LinksReal
  <2>1. x \in m.txs /\ y \in m.txs /\ x \notin S /\ y \notin S /\ x \in Txs /\ y \in Txs
    BY <1>0, <1>1
  <2>2. (y \in m.children[x] <=> x \in m.parents[y]) /\ (y \in m.children[x] => x \in Prevs(y))
    BY <2>1 DEF PoolSound, LinksReal
  <2> QED BY <1>0, <2>1, <2>2
<1> QED BY <1>0, <1>3, <1>4, <1>5, <1>6, <1>7, <1>8 DEF PoolSound, r

\* Whatever is removed, the links between the others stay; children of a transaction
\* of X may lose it.
LEMMA DropsAny ==
    ASSUME NEW m, PoolSound(m), NEW S \in SUBSET m.txs, NEW X, S \subseteq X
    PROVE  Drops(m, RemoveStaged(m, S), X)
<1> DEFINE r == RemoveStaged(m, S)
<1>1. PoolSound(r) /\ r.txs = m.txs \ S /\ \A y \in Txs : r.children[y] = IF y \in r.txs THEN m.children[y] \ S ELSE {}
  BY RemoveStagedSound, RemoveStagedIs
<1>2. r.txs \subseteq Txs
  BY <1>1 DEF PoolSound
<1> HIDE DEF r
<1> QED BY <1>1, <1>2 DEF Drops, r

\* Descendants are removed with their ancestors.
LEMMA DropsDescendants ==
    ASSUME NEW m, PoolSound(m), NEW S, ClosedDown(m, S), NEW X, Linkable(m, X)
    PROVE  Drops(m, RemoveStaged(m, S), X)
<1> DEFINE r == RemoveStaged(m, S)
<1>0. S \in SUBSET m.txs /\ m.txs \subseteq Txs
  BY DEF ClosedDown, ClosedUnder, PoolSound
<1>1. CASE X = Txs
  BY <1>0, <1>1, DropsAny
<1>2. CASE LinksMade(m, X)
  <2>1. Drops(m, r, Txs) /\ r.txs = m.txs \ S
    BY <1>0, DropsAny, RemoveStagedIs
  <2> HIDE DEF r
  <2>2. ASSUME NEW p \in m.txs \ r.txs, NEW y \in r.txs, p \in Prevs(y) PROVE p \in X
    <3>1. p \in S /\ y \in m.txs /\ y \notin S
      BY <1>0, <2>1, <2>2
    <3>2. y \notin m.children[p]
      BY <3>1 DEF ClosedDown, ClosedUnder
    <3> QED BY <1>2, <2>2, <3>1, <3>2 DEF LinksMade
  <2>3. Drops(m, r, X)
    BY <2>1, <2>2 DEF Drops
  <2> QED BY <2>3 DEF r
<1> QED BY <1>1, <1>2 DEF Linkable

LEMMA DropsFewer ==
    ASSUME NEW m, NEW r, NEW X, PoolSound(m), Drops(m, r, X)
    PROVE  Cardinality(r.txs) <= Cardinality(m.txs) /\ Cardinality(r.txs) \in Nat /\ Cardinality(m.txs) \in Nat
BY FS_Subset, FS_CardinalityType DEF Drops, PoolSound

-----------------------------------------------------------------------------
(* A transaction enters the pool *)

\* Nothing in the pool spends what x spends.
Enterable(m, x) == x \in Txs \ m.txs /\ ~IsCoinBase(x) /\ \A o \in Prevouts(x) : m.mapNextTx[o] = None

\* r is m with x added.
AddedTo(r, m, x) ==
    /\ r.txs = m.txs \cup {x} /\ PoolShape(r)
    /\ r.parents \in [Txs -> SUBSET r.txs] /\ r.children \in [Txs -> SUBSET r.txs]
    /\ r.mapNextTx \in [Outpoint -> r.txs \cup {None}] /\ DOMAIN r.count = Txs
    /\ \A y \in Txs : r.parents[y] = IF y = x THEN PoolParents(m, x) ELSE m.parents[y]
    /\ \A y \in Txs : r.children[y] = IF y \in PoolParents(m, x) THEN m.children[y] \cup {x} ELSE m.children[y]
    /\ \A o \in Outpoint : r.mapNextTx[o] = IF o \in Prevouts(x) THEN x ELSE m.mapNextTx[o]
    /\ NothingLeft(r)

LEMMA AddedIs ==
    ASSUME NEW m, PoolSound(m), NEW x, Enterable(m, x), NEW ancestors
    PROVE  AddedTo(addUnchecked(m, x, ancestors), m, x)
<1> DEFINE r == addUnchecked(m, x, ancestors)
           P == PoolParents(m, x)
<1>0. /\ m.parents \in [Txs -> SUBSET m.txs] /\ m.children \in [Txs -> SUBSET m.txs]
      /\ m.mapNextTx \in [Outpoint -> m.txs \cup {None}] /\ x \in Txs
      /\ P \subseteq m.txs /\ m.txs \subseteq Txs /\ x \notin P
  BY DEF PoolSound, Enterable, PoolParents
<1> HIDE DEF P
<1>1. r.txs = m.txs \cup {x} /\ PoolShape(r)
  BY DEF addUnchecked, PoolShape
<1>2. r.parents = [m.parents EXCEPT ![x] = P]
      /\ r.children = [y \in Txs |-> IF y \in P THEN m.children[y] \cup {x} ELSE m.children[y]]
      /\ r.mapNextTx = [o \in Outpoint |-> IF o \in Prevouts(x) THEN x ELSE m.mapNextTx[o]]
  BY DEF addUnchecked, P
<1>3. DOMAIN r.count = Txs /\ \A y \in Txs \ r.txs : m.count[y] = 0 => r.count[y] = 0
  <2> DEFINE a == {z \in ancestors : m.count[z] # 0}
  <2>1. r.count = [y \in Txs |-> IF y = x THEN 1 ELSE IF y \in a THEN m.count[y] + 1 ELSE m.count[y]]
    BY DEF addUnchecked
  <2>2. ASSUME NEW y \in Txs \ r.txs, m.count[y] = 0 PROVE r.count[y] = 0
    BY <1>1, <2>1, <2>2
  <2> QED BY <2>1, <2>2
<1> HIDE DEF r
<1>4. r.parents \in [Txs -> SUBSET r.txs] /\ \A y \in Txs : r.parents[y] = IF y = x THEN P ELSE m.parents[y]
  BY <1>0, <1>1, <1>2
<1>5. r.children \in [Txs -> SUBSET r.txs]
      /\ \A y \in Txs : r.children[y] = IF y \in P THEN m.children[y] \cup {x} ELSE m.children[y]
  BY <1>0, <1>1, <1>2
<1>6. r.mapNextTx \in [Outpoint -> r.txs \cup {None}]
      /\ \A o \in Outpoint : r.mapNextTx[o] = IF o \in Prevouts(x) THEN x ELSE m.mapNextTx[o]
  BY <1>0, <1>1, <1>2
<1>7. ASSUME NEW y \in Txs \ r.txs PROVE r.parents[y] = {} /\ r.children[y] = {} /\ r.count[y] = 0
  <2>1. y # x /\ y \notin m.txs /\ y \notin P
    BY <1>0, <1>1
  <2>2. m.parents[y] = {} /\ m.children[y] = {} /\ m.count[y] = 0
    BY <2>1 DEF PoolSound, NothingLeft
  <2> QED BY <1>3, <1>4, <1>5, <2>1, <2>2
<1>8. NothingLeft(r)
  BY <1>7 DEF NothingLeft
<1> QED BY <1>1, <1>3, <1>4, <1>5, <1>6, <1>8 DEF r, P, AddedTo

LEMMA AddedSound ==
    ASSUME NEW m, PoolSound(m), NEW x, Enterable(m, x), NEW ancestors
    PROVE  PoolSound(addUnchecked(m, x, ancestors))
<1> DEFINE r == addUnchecked(m, x, ancestors)
           P == PoolParents(m, x)
<1>0. /\ r.txs = m.txs \cup {x} /\ PoolShape(r)
      /\ r.parents \in [Txs -> SUBSET r.txs] /\ r.children \in [Txs -> SUBSET r.txs]
      /\ r.mapNextTx \in [Outpoint -> r.txs \cup {None}] /\ DOMAIN r.count = Txs
      /\ \A y \in Txs : r.parents[y] = IF y = x THEN P ELSE m.parents[y]
      /\ \A y \in Txs : r.children[y] = IF y \in P THEN m.children[y] \cup {x} ELSE m.children[y]
      /\ \A o \in Outpoint : r.mapNextTx[o] = IF o \in Prevouts(x) THEN x ELSE m.mapNextTx[o]
      /\ NothingLeft(r)
  BY AddedIs DEF AddedTo
<1> HIDE DEF r
<1>1. /\ x \in Txs /\ x \notin m.txs /\ m.txs \subseteq Txs /\ ~IsCoinBase(x)
      /\ P = Prevs(x) \cap m.txs /\ \A o \in Prevouts(x) : m.mapNextTx[o] = None
  BY DEF PoolSound, Enterable, PoolParents
<1>2. m.parents[x] = {} /\ m.children[x] = {} /\ \A y \in Txs : m.children[y] \subseteq m.txs /\ m.parents[y] \subseteq m.txs
  BY <1>1 DEF PoolSound, NothingLeft
<1> HIDE DEF P
<1>3. r.txs \subseteq Txs /\ IsFiniteSet(r.txs) /\ \A y \in r.txs : ~IsCoinBase(y)
  BY <1>0, <1>1, FS_AddElement DEF PoolSound
<1>4. LinksReal(r)
  <2> SUFFICES ASSUME NEW a \in r.txs, NEW b \in r.txs
               PROVE  (b \in r.children[a] <=> a \in r.parents[b]) /\ (b \in r.children[a] => a \in Prevs(b))
    BY DEF LinksReal
  <2>0. a \in Txs /\ b \in Txs
    BY <1>3
  <2>1. CASE a \in m.txs /\ b \in m.txs
    <3>1. (b \in m.children[a] <=> a \in m.parents[b]) /\ (b \in m.children[a] => a \in Prevs(b))
      BY <2>1 DEF PoolSound, LinksReal
    <3>2. r.parents[b] = m.parents[b] /\ (b \in r.children[a] <=> b \in m.children[a])
      BY <1>0, <1>1, <2>0, <2>1
    <3> QED BY <3>1, <3>2
  <2>2. CASE b = x
    <3>0. b \notin m.children[a]
      BY <1>1, <1>2, <2>0, <2>2
    <3>1. r.parents[b] = P
      BY <1>0, <2>0, <2>2
    <3>2. r.children[a] = IF a \in P THEN m.children[a] \cup {x} ELSE m.children[a]
      BY <1>0, <2>0
    <3>3. b \in r.children[a] <=> a \in P
      BY <2>2, <3>0, <3>2
    <3> QED BY <1>1, <2>2, <3>1, <3>3
  <2>3. CASE a = x /\ b \in m.txs
    <3>1. r.children[a] = {} /\ r.parents[b] = m.parents[b]
      BY <1>0, <1>1, <1>2, <2>0, <2>3
    <3>2. a \notin m.parents[b]
      BY <1>1, <1>2, <2>0, <2>3
    <3> QED BY <3>1, <3>2
  <2> QED BY <1>0, <2>1, <2>2, <2>3
<1>5. SpendsReal(r)
  <2> SUFFICES ASSUME NEW o \in Outpoint, NEW y \in r.txs
               PROVE  o \in Prevouts(y) <=> r.mapNextTx[o] = y
    BY DEF SpendsReal
  <2>0. r.mapNextTx[o] = IF o \in Prevouts(x) THEN x ELSE m.mapNextTx[o]
    BY <1>0
  <2>1. CASE y = x
    <3>1. m.mapNextTx[o] \in m.txs \cup {None}
      BY DEF PoolSound
    <3>2. m.mapNextTx[o] # x
      BY <1>1, <3>1, NoneAssumption
    <3> QED BY <2>0, <2>1, <3>2
  <2>2. CASE y \in m.txs
    <3>1. o \in Prevouts(y) <=> m.mapNextTx[o] = y
      BY <2>2 DEF PoolSound, SpendsReal
    <3>2. y # x /\ y # None
      BY <1>1, <2>2, NoneAssumption
    <3>3. o \in Prevouts(x) => m.mapNextTx[o] = None
      BY <1>1
    <3> QED BY <2>0, <3>1, <3>2, <3>3
  <2> QED BY <1>0, <2>1, <2>2
<1> QED BY <1>0, <1>3, <1>4, <1>5 DEF PoolSound, r

\* x is linked to its parents; transactions that spend x and were there before it are
\* not linked to it.
LEMMA AddedLinks ==
    ASSUME NEW m, PoolSound(m), NEW x, Enterable(m, x), NEW ancestors, NEW U, NEW W,
           LinksMade(m, U), W = U \/ W = U \cup {x}, x \notin Prevs(x), x \notin U,
           \A y \in m.txs : x \in Prevs(y) => x \in W /\ y \notin U
    PROVE  LinksMade(addUnchecked(m, x, ancestors), W)
<1> DEFINE r == addUnchecked(m, x, ancestors)
           P == PoolParents(m, x)
<1>a. r.txs = m.txs \cup {x}
      /\ \A y \in Txs : r.children[y] = IF y \in P THEN m.children[y] \cup {x} ELSE m.children[y]
  <2>1. AddedTo(r, m, x)
    BY AddedIs
  <2> HIDE DEF r
  <2> QED BY <2>1 DEF AddedTo
<1>b. m.txs \subseteq Txs /\ x \in Txs /\ x \notin m.txs /\ P = Prevs(x) \cap m.txs
  BY DEF PoolParents, PoolSound, Enterable
<1>0. /\ r.txs = m.txs \cup {x} /\ m.txs \subseteq Txs /\ x \in Txs /\ x \notin m.txs
      /\ \A y \in Txs : r.children[y] = IF y \in P THEN m.children[y] \cup {x} ELSE m.children[y]
      /\ P = Prevs(x) \cap m.txs
  BY <1>a, <1>b
<1> HIDE DEF r, P
<1> SUFFICES ASSUME NEW a \in r.txs, NEW b \in r.txs, a \in Prevs(b), a \in W => b \in W
             PROVE  b \in r.children[a]
  BY DEF LinksMade, r
<1>1. a \in Txs /\ b \in Txs
  BY <1>0
<1>2. CASE b = x
  BY <1>0, <1>1, <1>2
<1>3. CASE b \in m.txs /\ a = x
  BY <1>0, <1>3
<1>4. CASE b \in m.txs /\ a \in m.txs
  <2>1. a \in U => b \in U
    BY <1>0, <1>4
  <2>2. b \in m.children[a]
    BY <1>4, <2>1 DEF LinksMade
  <2> QED BY <1>0, <1>1, <2>2
<1> QED BY <1>0, <1>2, <1>3, <1>4

LEMMA PrunedHasNone == Pruned.outs = {}
BY DEF Pruned

LEMMA AdmissibleFacts ==
    ASSUME NEW m, NEW x, Admissible(m, x)
    PROVE  /\ ~IsCoinBase(x) /\ x \notin m.txs /\ Coins[x] = Pruned /\ CheckFinalTx(x)
           /\ \A o \in Prevouts(x) : InputIn(Coins, m, o) /\ ~Immature(o)
           /\ PoolAncestors(m, x) \cap Conflicts(m, x) = {}
BY DEF Admissible, MayLookUp, HaveInput, InputIn, Apart

LEMMA ConflictsType ==
    ASSUME NEW m, PoolSound(m), NEW x \in Txs
    PROVE  /\ Conflicts(m, x) \subseteq m.txs
           /\ \A y \in m.txs : y \in Conflicts(m, x) <=> Prevouts(x) \cap Prevouts(y) # {}
<1>1. Prevouts(x) \subseteq Outpoint
  BY PrevoutsType
<1>2. \A o \in Prevouts(x) : m.mapNextTx[o] \in m.txs \cup {None}
  BY <1>1 DEF PoolSound
<1>3. ASSUME NEW y \in m.txs PROVE y \in Conflicts(m, x) <=> Prevouts(x) \cap Prevouts(y) # {}
  <2>1. \A o \in Prevouts(x) : o \in Prevouts(y) <=> m.mapNextTx[o] = y
    BY <1>1 DEF PoolSound, SpendsReal
  <2>2. y # None
    BY NoneAssumption DEF PoolSound
  <2> QED BY <2>1, <2>2 DEF Conflicts
<1> QED BY <1>2, <1>3 DEF Conflicts

\* The pool without what x replaces
Cleared(m, x) == RemoveStaged(m, CalculateDescendants(m, Conflicts(m, x)))

LEMMA ClearedDrops ==
    ASSUME NEW m, PoolSound(m), NEW X, Linkable(m, X), NEW x \in Txs, Admissible(m, x)
    PROVE  /\ Drops(m, Cleared(m, x), X)
           /\ Cleared(m, x).txs = m.txs \ CalculateDescendants(m, Conflicts(m, x))
           /\ Enterable(Cleared(m, x), x)
<1> DEFINE S == CalculateDescendants(m, Conflicts(m, x))
           k == RemoveStaged(m, S)
<1>1. Conflicts(m, x) \in SUBSET m.txs
  BY ConflictsType
<1>2. ClosedDown(m, S) /\ Conflicts(m, x) \subseteq S
  BY <1>1, DescendantsClosed
<1>3. S \in SUBSET m.txs
  BY <1>2 DEF ClosedDown, ClosedUnder
<1> HIDE DEF S
<1>4. Drops(m, k, X)
  BY <1>2, DropsDescendants
<1>5. k.txs = m.txs \ S
      /\ \A o \in Outpoint : k.mapNextTx[o] = IF \E y \in S : o \in Prevouts(y) THEN None ELSE m.mapNextTx[o]
  BY <1>3, RemoveStagedIs
<1> HIDE DEF k
<1>6. ASSUME NEW o \in Prevouts(x) PROVE k.mapNextTx[o] = None
  <2>1. o \in Outpoint
    BY PrevoutsType
  <2>2. CASE m.mapNextTx[o] = None
    BY <1>5, <2>1, <2>2
  <2>3. CASE m.mapNextTx[o] # None
    <3>1. m.mapNextTx[o] \in Conflicts(m, x)
      BY <2>3 DEF Conflicts
    <3>2. o \in Prevouts(m.mapNextTx[o])
      BY <1>1, <2>1, <3>1 DEF PoolSound, SpendsReal
    <3> QED BY <1>2, <1>5, <2>1, <3>1, <3>2
  <2> QED BY <2>2, <2>3
<1>7. Enterable(k, x)
  BY <1>5, <1>6, AdmissibleFacts DEF Enterable
<1> QED BY <1>4, <1>5, <1>7 DEF k, S, Cleared

\* What x spends in the pool stays there.
LEMMA ParentsStay ==
    ASSUME NEW m, PoolSound(m), NEW x \in Txs, Admissible(m, x)
    PROVE  PoolParents(m, x) \cap CalculateDescendants(m, Conflicts(m, x)) = {}
<1> DEFINE A == PoolAncestors(m, x)
           T == m.txs \ A
<1>1. Conflicts(m, x) \in SUBSET m.txs /\ A \cap Conflicts(m, x) = {}
  BY ConflictsType, AdmissibleFacts
<1>2. PoolParents(m, x) \subseteq A /\ ClosedUnder(m, A, m.parents)
  <2>1. PoolParents(m, x) \in SUBSET m.txs
    BY DEF PoolParents
  <2>2. \A z \in m.txs : m.parents[z] \subseteq m.txs
    BY DEF PoolSound
  <2> QED BY <2>1, <2>2, ReachIs DEF PoolAncestors
<1>3. ASSUME NEW z \in T, NEW y \in m.children[z] PROVE y \in T
  <2>1. y \in m.txs /\ z \in m.txs /\ z \in m.parents[y]
    BY DEF PoolSound, LinksReal
  <2> HIDE DEF A
  <2> QED BY <1>2, <2>1 DEF ClosedUnder
<1> HIDE DEF A
<1>4. ClosedUnder(m, T, m.children) /\ T \in SUBSET m.txs /\ Conflicts(m, x) \subseteq T
  BY <1>1, <1>3 DEF ClosedUnder
<1>5. \A z \in m.txs : m.children[z] \subseteq m.txs
  BY DEF PoolSound
<1> HIDE DEF T
<1>6. CalculateDescendants(m, Conflicts(m, x)) \subseteq T
  BY <1>1, <1>4, <1>5, ReachIs DEF CalculateDescendants
<1> QED BY <1>2, <1>6 DEF T

LEMMA EnteredSound ==
    ASSUME NEW m, PoolSound(m), NEW X, Linkable(m, X), NEW x \in Txs, Admissible(m, x)
    PROVE  /\ PoolSound(Entered(m, x)) /\ x \in Entered(m, x).txs
           /\ Entered(m, x).txs = Cleared(m, x).txs \cup {x}
           /\ Cardinality(Entered(m, x).txs) <= Cardinality(m.txs) + 1
<1> DEFINE k == Cleared(m, x)
           e == addUnchecked(k, x, PoolAncestors(m, x))
<1>1. Entered(m, x) = e
  BY DEF Entered, Cleared
<1>2. Drops(m, k, X) /\ Enterable(k, x) /\ PoolSound(k)
  BY ClearedDrops DEF Drops
<1> HIDE DEF k
<1>3. PoolSound(e) /\ AddedTo(e, k, x)
  BY <1>2, AddedSound, AddedIs
<1>4. e.txs = k.txs \cup {x} /\ x \notin k.txs
  BY <1>2, <1>3 DEF AddedTo, Enterable
<1>5. Cardinality(e.txs) = Cardinality(k.txs) + 1
  BY <1>2, <1>4, FS_AddElement DEF PoolSound
<1>6. Cardinality(k.txs) <= Cardinality(m.txs) /\ Cardinality(k.txs) \in Nat /\ Cardinality(m.txs) \in Nat
  BY <1>2, DropsFewer
<1> QED BY <1>1, <1>3, <1>4, <1>5, <1>6 DEF k

\* U and Q as in PoolInv, when all of U is still there.
LEMMA EnteredInputs ==
    ASSUME NEW m, PoolSound(m), NEW x \in Txs, Admissible(m, x), NEW U, NEW Q, NEW W,
           LinksMade(m, U), InputsKnown(Coins, m, U, Q),
           U \subseteq Cleared(m, x).txs, W = U \cup {x} \/ (W = U /\ x \notin Q)
    PROVE  LinksMade(Entered(m, x), W) /\ InputsKnown(Coins, Entered(m, x), W, Q \ {x})
<1> DEFINE k == Cleared(m, x)
           c == Coins
           e == addUnchecked(k, x, PoolAncestors(m, x))
<1>1. Entered(m, x) = e
  BY DEF Entered, Cleared
<1>2. Linkable(m, U)
  BY DEF Linkable
<1>3. /\ Drops(m, k, U) /\ Enterable(k, x) /\ PoolSound(k)
      /\ k.txs = m.txs \ CalculateDescendants(m, Conflicts(m, x)) /\ U \subseteq k.txs
  BY <1>2, ClearedDrops DEF Drops
<1>4. PoolParents(m, x) \subseteq k.txs
  BY <1>3, ParentsStay DEF PoolParents
<1> HIDE DEF k
<1>5. \A p \in m.txs \ k.txs : \A y \in k.txs : p \notin Prevs(y)
  BY <1>3 DEF Drops
<1>6. LinksMade(k, U) /\ InputsKnown(Coins, k, U, Q)
  BY <1>3, <1>5, DropsLinks, DropsInputs
<1>7. AddedTo(e, k, x)
  BY <1>3, AddedIs
<1>8. e.txs = k.txs \cup {x} /\ x \notin k.txs /\ k.txs \subseteq m.txs /\ x \notin m.txs
  BY <1>3, <1>7, AdmissibleFacts DEF AddedTo, Enterable
<1>9. Coins[x].outs = {} /\ \A o \in Prevouts(x) : InputIn(Coins, m, o)
  BY AdmissibleFacts, PrunedHasNone
<1>10. x \notin U /\ x \notin Prevs(x)
  <2>1. ASSUME x \in Prevs(x) PROVE FALSE
    <3>1. PICK o \in Prevouts(x) : o[1] = x
      BY <2>1 DEF Prevs
    <3> QED BY <1>8, <1>9, <3>1 DEF InputIn
  <2> QED BY <1>3, <1>8, <2>1
<1>11. ASSUME NEW y \in k.txs, NEW o \in Prevouts(y), o[1] = x
       PROVE  y \notin U /\ x \in Q /\ x \in W /\ o[2] \in Outs[x]
  <2>1. ~InputIn(Coins, k, o)
    BY <1>8, <1>9, <1>11 DEF InputIn
  <2> QED BY <1>6, <1>11, <2>1 DEF InputsKnown
<1>12. \A y \in k.txs : x \in Prevs(y) => x \in W /\ y \notin U
  BY <1>11 DEF Prevs
<1>13. LinksMade(e, W)
  BY <1>3, <1>6, <1>10, <1>12, AddedLinks
<1> HIDE DEF e
<1>14. InputsKnown(Coins, e, W, Q \ {x})
  <2> SUFFICES ASSUME NEW y \in e.txs, NEW o \in Prevouts(y)
               PROVE  InputIn(Coins, e, o) \/ (y \notin W /\ o[1] \in Q \ {x} /\ o[2] \in Outs[o[1]])
    BY DEF InputsKnown
  <2>1. CASE y = x
    <3>1. InputIn(Coins, m, o) /\ o[1] \in Prevs(x)
      BY <1>9, <2>1 DEF Prevs
    <3>2. o[1] \in m.txs <=> o[1] \in e.txs
      BY <1>4, <1>8, <1>10, <3>1 DEF PoolParents
    <3> QED BY <3>1, <3>2 DEF InputIn
  <2>2. CASE y # x /\ o[1] = x
    BY <1>8, <1>11, <2>2 DEF InputIn
  <2>3. CASE y # x /\ o[1] # x
    <3>1. InputIn(Coins, k, o) \/ (y \notin U /\ o[1] \in Q /\ o[2] \in Outs[o[1]])
      BY <1>6, <1>8, <2>3 DEF InputsKnown
    <3>2. o[1] \in k.txs <=> o[1] \in e.txs
      BY <1>8, <2>3
    <3> QED BY <2>3, <3>1, <3>2 DEF InputIn
  <2> QED BY <2>1, <2>2, <2>3
<1> QED BY <1>1, <1>13, <1>14

-----------------------------------------------------------------------------
(* Removals of single transactions, and the limit of the pool *)

LEMMA DropsAll ==
    ASSUME NEW m, PoolSound(m), NEW X, Linkable(m, X), NEW S \in SUBSET m.txs
    PROVE  LET r == RemoveStaged(m, CalculateDescendants(m, S))
           IN  Drops(m, r, X) /\ r.txs \cap S = {}
<1> DEFINE D == CalculateDescendants(m, S)
<1>1. ClosedDown(m, D) /\ S \subseteq D
  BY DescendantsClosed
<1>2. D \in SUBSET m.txs
  BY <1>1 DEF ClosedDown, ClosedUnder
<1> HIDE DEF D
<1>3. Drops(m, RemoveStaged(m, D), X) /\ RemoveStaged(m, D).txs = m.txs \ D
  BY <1>1, <1>2, DropsDescendants, RemoveStagedIs
<1> QED BY <1>1, <1>3 DEF D

LEMMA DoomedType ==
    ASSUME NEW m, PoolSound(m), NEW x \in Txs
    PROVE  /\ Doomed(m, x) \in SUBSET m.txs
           /\ x \in m.txs => x \in Doomed(m, x)
           /\ x \notin m.txs => \A y \in m.txs : x \in Prevs(y) => y \in Doomed(m, x)
<1>1. ASSUME NEW o \in Outpoint PROVE m.mapNextTx[o] \in m.txs \cup {None}
  BY DEF PoolSound
<1>2. ASSUME x \notin m.txs, NEW y \in m.txs, x \in Prevs(y) PROVE y \in Doomed(m, x)
  <2>1. PICK o \in Prevouts(y) : o[1] = x
    BY <1>2 DEF Prevs
  <2>2. y \in Txs /\ o \in Outpoint
    BY PrevoutsType DEF PoolSound
  <2>3. m.mapNextTx[o] = y /\ y # None
    BY <2>2, NoneAssumption DEF PoolSound, SpendsReal
  <2> QED BY <1>2, <2>1, <2>2, <2>3 DEF Doomed
<1> QED BY <1>1, <1>2 DEF Doomed

\* After remove(x, removed, true) neither x nor, if it was not in the pool or its
\* children are linked to it, anything that spends it is there.
LEMMA RemoveRecursiveDrops ==
    ASSUME NEW m, PoolSound(m), NEW X, Linkable(m, X), NEW x \in Txs
    PROVE  LET r == removeRecursive(m, x)
           IN  /\ Drops(m, r, X) /\ x \notin r.txs
               /\ x \notin m.txs \/ x \notin X => \A y \in r.txs : x \notin Prevs(y)
<1> DEFINE r == RemoveStaged(m, CalculateDescendants(m, Doomed(m, x)))
<1>1. Doomed(m, x) \in SUBSET m.txs
  BY DoomedType
<1>2. Drops(m, r, X) /\ r.txs \cap Doomed(m, x) = {}
  BY <1>1, DropsAll
<1> HIDE DEF r
<1>3. r.txs \subseteq m.txs /\ x \notin r.txs
  BY <1>2, DoomedType DEF Drops
<1>4. ASSUME x \notin m.txs \/ x \notin X, NEW y \in r.txs PROVE x \notin Prevs(y)
  <2>1. CASE x \in m.txs
    BY <1>2, <1>3, <1>4, <2>1 DEF Drops
  <2>2. CASE x \notin m.txs
    BY <1>2, <1>3, <2>2, DoomedType
  <2> QED BY <2>1, <2>2
<1> QED BY <1>2, <1>3, <1>4 DEF r, removeRecursive

LEMMA TrimDrops ==
    ASSUME NEW m, PoolSound(m), NEW X, Linkable(m, X), NEW r \in TrimToSize(m),
           Cardinality(m.txs) <= MaxPool + 1
    PROVE  Drops(m, r, X) /\ Cardinality(r.txs) <= MaxPool
<1>1. CASE Cardinality(m.txs) <= MaxPool
  BY <1>1, DropsNothing DEF TrimToSize
<1>2. CASE ~(Cardinality(m.txs) <= MaxPool)
  <2>1. PICK w \in Worst(m) : r = RemoveStaged(m, CalculateDescendants(m, {w}))
    BY <1>2 DEF TrimToSize
  <2>2. w \in m.txs /\ {w} \in SUBSET m.txs
    BY DEF Worst
  <2>3. Drops(m, r, X) /\ r.txs \cap {w} = {}
    BY <2>1, <2>2, DropsAll
  <2>4. r.txs \subseteq m.txs \ {w}
    BY <2>3 DEF Drops
  <2>5. IsFiniteSet(m.txs \ {w}) /\ Cardinality(m.txs \ {w}) = Cardinality(m.txs) - 1
    BY <2>2, FS_RemoveElement DEF PoolSound
  <2>6. Cardinality(r.txs) <= Cardinality(m.txs) - 1
    BY <2>4, <2>5, FS_Subset
  <2>7. Cardinality(r.txs) \in Nat /\ Cardinality(m.txs) \in Nat /\ MaxPool \in Nat
    BY <2>3, DropsFewer, LimitsAssumption
  <2> QED BY <2>3, <2>6, <2>7
<1> QED BY <1>1, <1>2

LEMMA LimitDrops ==
    ASSUME NEW m, PoolSound(m), NEW X, Linkable(m, X), NEW young, NEW r \in LimitMempoolSize(m, young),
           Cardinality(m.txs) <= MaxPool + 1
    PROVE  Drops(m, r, X) /\ Cardinality(r.txs) <= MaxPool
<1>1. PICK old \in SUBSET (m.txs \ young) : r \in TrimToSize(RemoveStaged(m, CalculateDescendants(m, old)))
  BY DEF LimitMempoolSize
<1> DEFINE k == RemoveStaged(m, CalculateDescendants(m, old))
<1>2. Drops(m, k, X)
  BY DropsAll
<1> HIDE DEF k
<1>3. PoolSound(k) /\ Linkable(k, X)
  BY <1>2, DropsLinkable DEF Drops
<1>4. Cardinality(k.txs) <= MaxPool + 1
  <2>1. Cardinality(k.txs) <= Cardinality(m.txs) /\ Cardinality(k.txs) \in Nat /\ Cardinality(m.txs) \in Nat
    BY <1>2, DropsFewer
  <2> QED BY <2>1, LimitsAssumption
<1>5. Drops(k, r, X) /\ Cardinality(r.txs) <= MaxPool
  BY <1>1, <1>3, <1>4, TrimDrops DEF k
<1> QED BY <1>2, <1>5, DropsTwice

-----------------------------------------------------------------------------
(* The loops over the inputs of a transaction, the transactions of a block, and *)
(* those put back.  Each recursion has a solution: there is no least number of  *)
(* turns without one.                                                           *)

\* removeConflicts for one input after another
IsConflict(g, acc, x, k) ==
    g = [n \in 0..k |-> IF n = 0 THEN acc ELSE removeConflict(g[n - 1], Vin[x][n])]

LEMMA ConflictExists ==
    ASSUME NEW acc, NEW x, NEW k \in Nat
    PROVE  \E g : IsConflict(g, acc, x, k)
<1> DEFINE T == {j \in Nat : ~\E g : IsConflict(g, acc, x, j)}
<1> SUFFICES ASSUME T # {} PROVE FALSE
  OBVIOUS
<1>1. PICK j \in T : \A l \in Nat : l < j => l \notin T
  <2>1. T \subseteq Nat
    OBVIOUS
  <2> HIDE DEF T
  <2> QED BY <2>1, LeastNat
<1>2. j \in Nat /\ ~\E g : IsConflict(g, acc, x, j)
  OBVIOUS
<1>3. CASE j = 0
  <2> DEFINE g == [n \in 0..0 |-> acc]
  <2>1. IsConflict(g, acc, x, 0)
    BY DEF IsConflict
  <2> QED BY <1>2, <1>3, <2>1
<1>4. CASE j # 0
  <2>1. j - 1 \in Nat /\ j - 1 < j
    BY <1>2, <1>4
  <2>2. PICK g : IsConflict(g, acc, x, j - 1)
    BY <1>1, <2>1
  <2> DEFINE h == [n \in 0..j |-> IF n = j THEN removeConflict(g[j - 1], Vin[x][j]) ELSE g[n]]
  <2>3. g = [n \in 0..(j - 1) |-> IF n = 0 THEN acc ELSE removeConflict(g[n - 1], Vin[x][n])]
    BY <2>2 DEF IsConflict
  <2>4. \A n \in 0..j : h[n] = IF n = 0 THEN acc ELSE removeConflict(h[n - 1], Vin[x][n])
    <3> SUFFICES ASSUME NEW n \in 0..j PROVE h[n] = IF n = 0 THEN acc ELSE removeConflict(h[n - 1], Vin[x][n])
      OBVIOUS
    <3>1. CASE n = j
      <4>1. h[n] = removeConflict(g[j - 1], Vin[x][j]) /\ h[j - 1] = g[j - 1]
        BY <1>2, <1>4, <3>1
      <4> QED BY <1>4, <3>1, <4>1
    <3>2. CASE n # j
      <4>1. n \in 0..(j - 1) /\ h[n] = g[n]
        BY <1>2, <3>2
      <4>2. n # 0 => h[n - 1] = g[n - 1]
        BY <1>2, <4>1
      <4>3. g[n] = IF n = 0 THEN acc ELSE removeConflict(g[n - 1], Vin[x][n])
        BY <2>3, <4>1
      <4> HIDE DEF h
      <4> QED BY <4>1, <4>2, <4>3
    <3> QED BY <3>1, <3>2
  <2>5. h = [n \in 0..j |-> h[n]]
    OBVIOUS
  <2>6. IsConflict(h, acc, x, j)
    <3> HIDE DEF h
    <3> QED BY <2>4, <2>5 DEF IsConflict
  <2> QED BY <1>2, <2>6
<1> QED BY <1>3, <1>4


\* removeForBlock for one transaction after another
IsMining(g, m, b, k) ==
    g = [n \in 0..k |-> IF n = 0 THEN [m |-> m, clear |-> {}] ELSE Mined(g[n - 1], Vtx[b][n])]

LEMMA MiningExists ==
    ASSUME NEW m, NEW b, NEW k \in Nat
    PROVE  \E g : IsMining(g, m, b, k)
<1> DEFINE T == {j \in Nat : ~\E g : IsMining(g, m, b, j)}
<1> SUFFICES ASSUME T # {} PROVE FALSE
  OBVIOUS
<1>1. PICK j \in T : \A l \in Nat : l < j => l \notin T
  <2>1. T \subseteq Nat
    OBVIOUS
  <2> HIDE DEF T
  <2> QED BY <2>1, LeastNat
<1>2. j \in Nat /\ ~\E g : IsMining(g, m, b, j)
  OBVIOUS
<1>3. CASE j = 0
  <2> DEFINE g == [n \in 0..0 |-> [m |-> m, clear |-> {}]]
  <2>1. IsMining(g, m, b, 0)
    BY DEF IsMining
  <2> QED BY <1>2, <1>3, <2>1
<1>4. CASE j # 0
  <2>1. j - 1 \in Nat /\ j - 1 < j
    BY <1>2, <1>4
  <2>2. PICK g : IsMining(g, m, b, j - 1)
    BY <1>1, <2>1
  <2> DEFINE h == [n \in 0..j |-> IF n = j THEN Mined(g[j - 1], Vtx[b][j]) ELSE g[n]]
  <2>3. g = [n \in 0..(j - 1) |-> IF n = 0 THEN [m |-> m, clear |-> {}] ELSE Mined(g[n - 1], Vtx[b][n])]
    BY <2>2 DEF IsMining
  <2>4. \A n \in 0..j : h[n] = IF n = 0 THEN [m |-> m, clear |-> {}] ELSE Mined(h[n - 1], Vtx[b][n])
    <3> SUFFICES ASSUME NEW n \in 0..j PROVE h[n] = IF n = 0 THEN [m |-> m, clear |-> {}] ELSE Mined(h[n - 1], Vtx[b][n])
      OBVIOUS
    <3>1. CASE n = j
      <4>1. h[n] = Mined(g[j - 1], Vtx[b][j]) /\ h[j - 1] = g[j - 1]
        BY <1>2, <1>4, <3>1
      <4> QED BY <1>4, <3>1, <4>1
    <3>2. CASE n # j
      <4>1. n \in 0..(j - 1) /\ h[n] = g[n]
        BY <1>2, <3>2
      <4>2. n # 0 => h[n - 1] = g[n - 1]
        BY <1>2, <4>1
      <4>3. g[n] = IF n = 0 THEN [m |-> m, clear |-> {}] ELSE Mined(g[n - 1], Vtx[b][n])
        BY <2>3, <4>1
      <4> HIDE DEF h
      <4> QED BY <4>1, <4>2, <4>3
    <3> QED BY <3>1, <3>2
  <2>5. h = [n \in 0..j |-> h[n]]
    OBVIOUS
  <2>6. IsMining(h, m, b, j)
    <3> HIDE DEF h
    <3> QED BY <2>4, <2>5 DEF IsMining
  <2> QED BY <1>2, <2>6
<1> QED BY <1>3, <1>4


\* UpdateTransactionsFromBlock for one transaction after another
IsUpdating(g, m, s, k) ==
    g = [n \in 0..k |-> IF n = 0 THEN m ELSE Updated(g[n - 1], s[Len(s) + 1 - n], ToSet(s))]

LEMMA UpdatingExists ==
    ASSUME NEW m, NEW s, NEW k \in Nat
    PROVE  \E g : IsUpdating(g, m, s, k)
<1> DEFINE T == {j \in Nat : ~\E g : IsUpdating(g, m, s, j)}
<1> SUFFICES ASSUME T # {} PROVE FALSE
  OBVIOUS
<1>1. PICK j \in T : \A l \in Nat : l < j => l \notin T
  <2>1. T \subseteq Nat
    OBVIOUS
  <2> HIDE DEF T
  <2> QED BY <2>1, LeastNat
<1>2. j \in Nat /\ ~\E g : IsUpdating(g, m, s, j)
  OBVIOUS
<1>3. CASE j = 0
  <2> DEFINE g == [n \in 0..0 |-> m]
  <2>1. IsUpdating(g, m, s, 0)
    BY DEF IsUpdating
  <2> QED BY <1>2, <1>3, <2>1
<1>4. CASE j # 0
  <2>1. j - 1 \in Nat /\ j - 1 < j
    BY <1>2, <1>4
  <2>2. PICK g : IsUpdating(g, m, s, j - 1)
    BY <1>1, <2>1
  <2> DEFINE h == [n \in 0..j |-> IF n = j THEN Updated(g[j - 1], s[Len(s) + 1 - j], ToSet(s)) ELSE g[n]]
  <2>3. g = [n \in 0..(j - 1) |-> IF n = 0 THEN m ELSE Updated(g[n - 1], s[Len(s) + 1 - n], ToSet(s))]
    BY <2>2 DEF IsUpdating
  <2>4. \A n \in 0..j : h[n] = IF n = 0 THEN m ELSE Updated(h[n - 1], s[Len(s) + 1 - n], ToSet(s))
    <3> SUFFICES ASSUME NEW n \in 0..j PROVE h[n] = IF n = 0 THEN m ELSE Updated(h[n - 1], s[Len(s) + 1 - n], ToSet(s))
      OBVIOUS
    <3>1. CASE n = j
      <4>1. h[n] = Updated(g[j - 1], s[Len(s) + 1 - j], ToSet(s)) /\ h[j - 1] = g[j - 1]
        BY <1>2, <1>4, <3>1
      <4> QED BY <1>4, <3>1, <4>1
    <3>2. CASE n # j
      <4>1. n \in 0..(j - 1) /\ h[n] = g[n]
        BY <1>2, <3>2
      <4>2. n # 0 => h[n - 1] = g[n - 1]
        BY <1>2, <4>1
      <4>3. g[n] = IF n = 0 THEN m ELSE Updated(g[n - 1], s[Len(s) + 1 - n], ToSet(s))
        BY <2>3, <4>1
      <4> HIDE DEF h
      <4> QED BY <4>1, <4>2, <4>3
    <3> QED BY <3>1, <3>2
  <2>5. h = [n \in 0..j |-> h[n]]
    OBVIOUS
  <2>6. IsUpdating(h, m, s, j)
    <3> HIDE DEF h
    <3> QED BY <2>4, <2>5 DEF IsUpdating
  <2> QED BY <1>2, <2>6
<1> QED BY <1>3, <1>4


-----------------------------------------------------------------------------
(* What a connected block does to the pool *)

LEMMA DropsMore ==
    ASSUME NEW m, NEW r, NEW X, NEW Y, Drops(m, r, X), X \subseteq Y
    PROVE  Drops(m, r, Y)
BY DEF Drops

\* Nothing in the pool spends o.
Unspent(m, o) == \A y \in m.txs : o \notin Prevouts(y)

LEMMA DropsUnspent ==
    ASSUME NEW m, NEW r, NEW X, Drops(m, r, X), NEW o, Unspent(m, o)
    PROVE  Unspent(r, o)
BY DEF Drops, Unspent

LEMMA ConflictRemoved ==
    ASSUME NEW acc, PoolSound(acc.m), NEW X, Linkable(acc.m, X), NEW o \in Outpoint
    PROVE  LET r == removeConflict(acc, o)
           IN  Drops(acc.m, r.m, X) /\ Unspent(r.m, o)
<1> DEFINE y == acc.m.mapNextTx[o]
           k == removeRecursive(acc.m, y)
           r == removeConflict(acc, o)
<1>0. y \in acc.m.txs \cup {None} /\ acc.m.txs \subseteq Txs
      /\ \A z \in acc.m.txs : o \in Prevouts(z) <=> y = z
  BY DEF PoolSound, SpendsReal
<1>1. CASE y = None
  <2>1. r = acc
    BY <1>1 DEF removeConflict
  <2>2. Unspent(acc.m, o)
    BY <1>0, <1>1, NoneAssumption DEF Unspent
  <2> QED BY <2>1, <2>2, DropsNothing
<1>2. CASE y # None
  <2>1. r.m = k
    BY <1>2 DEF removeConflict
  <2>2. y \in Txs
    BY <1>0, <1>2
  <2> HIDE DEF y
  <2>3. Drops(acc.m, k, X) /\ y \notin k.txs
    BY <2>2, RemoveRecursiveDrops
  <2>4. Unspent(k, o)
    BY <1>0, <2>3 DEF Unspent, Drops
  <2> QED BY <2>1, <2>3, <2>4
<1> QED BY <1>1, <1>2

LEMMA ConflictsRemoved ==
    ASSUME NEW acc, PoolSound(acc.m), NEW X, Linkable(acc.m, X), NEW x \in Txs
    PROVE  LET r == removeConflicts(acc, x)
           IN  Drops(acc.m, r.m, X) /\ \A o \in Prevouts(x) : Unspent(r.m, o)
<1> DEFINE k == Len(Vin[x])
           g == CHOOSE a : a = [n \in 0..k |-> IF n = 0 THEN acc ELSE removeConflict(a[n - 1], Vin[x][n])]
           Done(n) == Drops(acc.m, g[n].m, X) /\ \A l \in 1..n : Unspent(g[n].m, Vin[x][l])
           T == {n \in 0..k : ~Done(n)}
<1>0. k \in Nat /\ DOMAIN Vin[x] = 1..k
  BY VinAssumption, LenProperties
<1>1. removeConflicts(acc, x) = g[k]
  BY DEF removeConflicts
<1>a. g = [n \in 0..k |-> IF n = 0 THEN acc ELSE removeConflict(g[n - 1], Vin[x][n])]
  <2>1. \E a : IsConflict(a, acc, x, k)
    BY <1>0, ConflictExists
  <2>2. \E a : a = [n \in 0..k |-> IF n = 0 THEN acc ELSE removeConflict(a[n - 1], Vin[x][n])]
    BY <2>1 DEF IsConflict
  <2> QED BY <2>2
<1> HIDE DEF g
<1>2. g[0] = acc /\ \A n \in 1..k : g[n] = removeConflict(g[n - 1], Vin[x][n])
  <2>1. \A n \in 0..k : g[n] = IF n = 0 THEN acc ELSE removeConflict(g[n - 1], Vin[x][n])
    BY <1>a
  <2> QED BY <1>0, <2>1
<1>3. T = {}
  <2> SUFFICES ASSUME T # {} PROVE FALSE
    OBVIOUS
  <2>1. T \subseteq Nat
    BY <1>0
  <2>2. PICK n \in T : \A l \in Nat : l < n => l \notin T
    <3> HIDE DEF T
    <3> QED BY <2>1, LeastNat
  <2>3. n \in 0..k /\ ~Done(n)
    OBVIOUS
  <2>4. n # 0
    <3>1. Done(0)
      BY <1>2, DropsNothing
    <3> QED BY <2>3, <3>1
  <2>5. n \in 1..k /\ n - 1 \in Nat /\ n - 1 < n /\ n - 1 \in 0..k
    BY <1>0, <2>3, <2>4
  <2>6. Done(n - 1)
    BY <2>2, <2>5
  <2> DEFINE p == g[n - 1]
             o == Vin[x][n]
             s == removeConflict(p, o)
  <2>7. Drops(acc.m, p.m, X) /\ \A l \in 1..(n - 1) : Unspent(p.m, Vin[x][l])
    BY <2>6
  <2>8. PoolSound(p.m) /\ Linkable(p.m, X)
    BY <2>7, DropsLinkable DEF Drops
  <2>9. o \in Outpoint
    BY <1>0, <2>5, PrevoutsType DEF Prevouts, Items
  <2>10. g[n] = s
    BY <1>2, <2>5
  <2> HIDE DEF p
  <2>11. Drops(p.m, s.m, X) /\ Unspent(s.m, o)
    BY <2>8, <2>9, ConflictRemoved
  <2> HIDE DEF s
  <2>12. Drops(acc.m, s.m, X)
    BY <2>7, <2>11, DropsTwice
  <2>13. \A l \in 1..n : Unspent(s.m, Vin[x][l])
    <3> SUFFICES ASSUME NEW l \in 1..n PROVE Unspent(s.m, Vin[x][l])
      OBVIOUS
    <3>1. l = n \/ l \in 1..(n - 1)
      BY <2>5
    <3> QED BY <2>7, <2>11, <3>1, DropsUnspent
  <2> QED BY <2>3, <2>10, <2>12, <2>13
<1>4. Drops(acc.m, g[k].m, X) /\ \A l \in 1..k : Unspent(g[k].m, Vin[x][l])
  BY <1>0, <1>3
<1>5. \A o \in Prevouts(x) : Unspent(g[k].m, o)
  BY <1>0, <1>4 DEF Prevouts, Items
<1> QED BY <1>1, <1>4, <1>5

LEMMA MinedDrops ==
    ASSUME NEW acc, PoolSound(acc.m), NEW W, Linkable(acc.m, W), NEW X, W \subseteq X, NEW x \in Txs, x \in X
    PROVE  LET r == Mined(acc, x)
           IN  Drops(acc.m, r.m, X) /\ x \notin r.m.txs /\ \A o \in Prevouts(x) : Unspent(r.m, o)
<1> DEFINE S == {x} \cap acc.m.txs
           k == RemoveStaged(acc.m, S)
           mid == [m |-> k, clear |-> acc.clear \cup {x}]
           r == removeConflicts(mid, x)
<1>1. S \in SUBSET acc.m.txs /\ S \subseteq X
  OBVIOUS
<1>2. Drops(acc.m, k, X) /\ k.txs = acc.m.txs \ S
  BY <1>1, DropsAny, RemoveStagedIs
<1>3. Mined(acc, x) = r
  BY DEF Mined
<1>4. mid.m = k
  OBVIOUS
<1> HIDE DEF k, mid, S
<1>5. PoolSound(mid.m) /\ Linkable(mid.m, W)
  BY <1>2, <1>4, DropsLinkable DEF Drops
<1>6. Drops(mid.m, r.m, W) /\ \A o \in Prevouts(x) : Unspent(r.m, o)
  BY <1>5, ConflictsRemoved
<1> HIDE DEF r
<1>7. Drops(mid.m, r.m, X)
  BY <1>6, DropsMore
<1>8. Drops(acc.m, r.m, X)
  BY <1>2, <1>4, <1>7, DropsTwice
<1>9. x \notin r.m.txs
  BY <1>2, <1>4, <1>6 DEF Drops, S
<1> QED BY <1>3, <1>6, <1>8, <1>9

LEMMA BlockRemoved ==
    ASSUME NEW m, PoolSound(m), NEW W, Linkable(m, W), NEW b \in Blocks, NEW X, W \cup TxsOf(b) \subseteq X
    PROVE  LET r == removeForBlock(m, b)
           IN  /\ Drops(m, r.m, X)
               /\ \A x \in TxsOf(b) : x \notin r.m.txs
               /\ \A o \in SpentIn(b) : Unspent(r.m, o)
<1> DEFINE k == Len(Vtx[b])
           g == CHOOSE a : a = [n \in 0..k |-> IF n = 0 THEN [m |-> m, clear |-> {}] ELSE Mined(a[n - 1], Vtx[b][n])]
           Gone(r, x) == x \notin r.txs /\ \A o \in Prevouts(x) : Unspent(r, o)
           Done(n) == Drops(m, g[n].m, X) /\ \A l \in 1..n : Gone(g[n].m, Vtx[b][l])
           T == {n \in 0..k : ~Done(n)}
<1>0. k \in Nat /\ DOMAIN Vtx[b] = 1..k /\ \A l \in 1..k : Vtx[b][l] \in Txs /\ Vtx[b][l] \in TxsOf(b)
  BY VtxAssumption, LenProperties, ElementOfSeq DEF TxsOf, Items
<1>1. removeForBlock(m, b) = g[k]
  BY DEF removeForBlock
<1>a. g = [n \in 0..k |-> IF n = 0 THEN [m |-> m, clear |-> {}] ELSE Mined(g[n - 1], Vtx[b][n])]
  <2>1. \E a : IsMining(a, m, b, k)
    BY <1>0, MiningExists
  <2>2. \E a : a = [n \in 0..k |-> IF n = 0 THEN [m |-> m, clear |-> {}] ELSE Mined(a[n - 1], Vtx[b][n])]
    BY <2>1 DEF IsMining
  <2> QED BY <2>2
<1> HIDE DEF g
<1>2. g[0] = [m |-> m, clear |-> {}] /\ \A n \in 1..k : g[n] = Mined(g[n - 1], Vtx[b][n])
  <2>1. ASSUME NEW n \in 0..k PROVE g[n] = IF n = 0 THEN [m |-> m, clear |-> {}] ELSE Mined(g[n - 1], Vtx[b][n])
    BY <1>a, Zenon
  <2>2. 0 \in 0..k /\ \A n \in 1..k : n \in 0..k /\ n # 0
    BY <1>0
  <2>3. g[0] = [m |-> m, clear |-> {}]
    BY <2>1, <2>2, Zenon
  <2>4. ASSUME NEW n \in 1..k PROVE g[n] = Mined(g[n - 1], Vtx[b][n])
    BY <2>1, <2>2, Zenon
  <2> QED BY <2>3, <2>4, Zenon
<1>3. T = {}
  <2> SUFFICES ASSUME T # {} PROVE FALSE
    OBVIOUS
  <2>1. T \subseteq Nat
    BY <1>0
  <2>2. PICK n \in T : \A l \in Nat : l < n => l \notin T
    <3> HIDE DEF T
    <3> QED BY <2>1, LeastNat
  <2>3. n \in 0..k /\ ~Done(n)
    OBVIOUS
  <2>4. n # 0
    <3>1. g[0].m = m
      BY <1>2
    <3>2. Done(0)
      BY <3>1, DropsNothing
    <3> QED BY <2>3, <3>2
  <2>5. n \in 1..k /\ n - 1 \in Nat /\ n - 1 < n /\ n - 1 \in 0..k
    BY <1>0, <2>3, <2>4
  <2>6. Done(n - 1)
    BY <2>2, <2>5
  <2> DEFINE p == g[n - 1]
             x == Vtx[b][n]
             s == Mined(p, x)
  <2>7. Drops(m, p.m, X) /\ \A l \in 1..(n - 1) : Gone(p.m, Vtx[b][l])
    BY <2>6
  <2>8. PoolSound(p.m) /\ Linkable(p.m, W)
    BY <2>7, DropsLinkable DEF Drops
  <2>9. x \in Txs /\ x \in X
    BY <1>0, <2>5
  <2>10. g[n] = s
    BY <1>2, <2>5
  <2> HIDE DEF p, x
  <2>11. Drops(p.m, s.m, X) /\ Gone(s.m, x)
    BY <2>8, <2>9, MinedDrops
  <2> HIDE DEF s
  <2>12. Drops(m, s.m, X)
    BY <2>7, <2>11, DropsTwice
  <2>13. ASSUME NEW l \in 1..n PROVE Gone(s.m, Vtx[b][l])
    <3>1. CASE l = n
      BY <2>11, <3>1 DEF x
    <3>2. CASE l # n
      <4>1. l \in 1..(n - 1)
        BY <2>5, <3>2
      <4>2. Gone(p.m, Vtx[b][l]) /\ s.m.txs \subseteq p.m.txs
        BY <2>7, <2>11, <4>1 DEF Drops
      <4> QED BY <2>11, <4>2, DropsUnspent
    <3> QED BY <3>1, <3>2
  <2> QED BY <2>3, <2>10, <2>12, <2>13
<1>4. Done(k)
  <2>1. k \in 0..k
    BY <1>0
  <2> HIDE DEF Done
  <2> QED BY <1>3, <2>1
<1>5. \A x \in TxsOf(b) : Gone(g[k].m, x)
  BY <1>0, <1>4 DEF TxsOf, Items
<1>6. \A o \in SpentIn(b) : Unspent(g[k].m, o)
  BY <1>5 DEF SpentIn, Prevouts
<1> QED BY <1>1, <1>4, <1>5, <1>6

-----------------------------------------------------------------------------
(* The links of the transactions that were put back are repaired. *)

\* r is m with more links.
MoreLinks(m, r) ==
    /\ PoolSound(r) /\ r.txs = m.txs
    /\ \A a, b \in m.txs : b \in m.children[a] => b \in r.children[a]

\* Every child of x out of the block is linked to it.
LinkedTo(r, x, block) == \A y \in r.txs : x \in r.txs /\ x \in Prevs(y) /\ y \notin block => y \in r.children[x]

LEMMA LinkedSound ==
    ASSUME NEW m, PoolSound(m), NEW x \in m.txs, NEW block
    PROVE  MoreLinks(m, Linked(m, x, block)) /\ LinkedTo(Linked(m, x, block), x, block)
<1> DEFINE kids == {m.mapNextTx[o] : o \in {p \in Outpoint : p[1] = x}} \ ({None} \cup block)
           r == Linked(m, x, block)
           ps == [y \in Txs |-> IF y \in kids THEN m.parents[y] \cup {x} ELSE m.parents[y]]
           cs == [m.children EXCEPT ![x] = m.children[x] \cup kids]
<1>0. x \in Txs /\ m.txs \subseteq Txs /\ m.parents \in [Txs -> SUBSET m.txs] /\ m.children \in [Txs -> SUBSET m.txs]
  BY DEF PoolSound
<1>1. ASSUME NEW y \in m.txs PROVE y \in kids <=> x \in Prevs(y) /\ y \notin block
  <2>0. y \in Txs /\ y # None
    BY <1>0, NoneAssumption
  <2>1. ASSUME y \in kids PROVE x \in Prevs(y) /\ y \notin block
    <3>1. PICK o \in Outpoint : o[1] = x /\ m.mapNextTx[o] = y
      BY <2>1
    <3>2. o \in Prevouts(y)
      BY <3>1 DEF PoolSound, SpendsReal
    <3> QED BY <2>1, <3>1, <3>2 DEF Prevs
  <2>2. ASSUME x \in Prevs(y), y \notin block PROVE y \in kids
    <3>1. PICK o \in Prevouts(y) : o[1] = x
      BY <2>2 DEF Prevs
    <3>2. o \in Outpoint
      BY <2>0, PrevoutsType
    <3>3. m.mapNextTx[o] = y
      BY <3>2 DEF PoolSound, SpendsReal
    <3> QED BY <2>0, <2>2, <3>1, <3>2, <3>3
  <2> QED BY <2>1, <2>2
<1>2. kids \subseteq m.txs
  BY DEF PoolSound
<1>3. r = [m EXCEPT !.children[x] = @ \cup kids, !.parents = ps]
  BY DEF Linked
<1>4. m = [txs |-> m.txs, parents |-> m.parents, children |-> m.children,
           mapNextTx |-> m.mapNextTx, count |-> m.count, fees |-> m.fees]
  BY DEF PoolSound, PoolShape
<1> HIDE DEF kids, ps
<1>5. r = [txs |-> m.txs, parents |-> ps, children |-> cs,
           mapNextTx |-> m.mapNextTx, count |-> m.count, fees |-> m.fees]
  <2> HIDE DEF r
  <2> QED BY <1>3, <1>4
<1> HIDE DEF r, cs
<1>6. r.txs = m.txs /\ r.parents = ps /\ r.children = cs /\ r.mapNextTx = m.mapNextTx /\ r.count = m.count
      /\ PoolShape(r)
  BY <1>5 DEF PoolShape
<1>7. ps \in [Txs -> SUBSET m.txs] /\ \A y \in Txs : ps[y] = IF y \in kids THEN m.parents[y] \cup {x} ELSE m.parents[y]
  BY <1>0 DEF ps
<1>8. cs \in [Txs -> SUBSET m.txs] /\ \A y \in Txs : cs[y] = IF y = x THEN m.children[x] \cup kids ELSE m.children[y]
  BY <1>0, <1>2 DEF cs
<1>9. LinksReal(r)
  <2> SUFFICES ASSUME NEW a \in m.txs, NEW b \in m.txs
               PROVE  (b \in cs[a] <=> a \in ps[b]) /\ (b \in cs[a] => a \in Prevs(b))
    BY <1>6 DEF LinksReal
  <2>1. (b \in m.children[a] <=> a \in m.parents[b]) /\ (b \in m.children[a] => a \in Prevs(b))
    BY DEF PoolSound, LinksReal
  <2>2. b \in cs[a] <=> b \in m.children[a] \/ (a = x /\ b \in kids)
    BY <1>0, <1>8
  <2>3. a \in ps[b] <=> a \in m.parents[b] \/ (a = x /\ b \in kids)
    BY <1>0, <1>7
  <2> QED BY <1>1, <2>1, <2>2, <2>3
<1>10. NothingLeft(r)
  <2> SUFFICES ASSUME NEW y \in Txs \ m.txs PROVE ps[y] = {} /\ cs[y] = {} /\ m.count[y] = 0
    BY <1>6 DEF NothingLeft
  <2>1. m.parents[y] = {} /\ m.children[y] = {} /\ m.count[y] = 0
    BY DEF PoolSound, NothingLeft
  <2> QED BY <1>2, <1>7, <1>8, <2>1
<1>11. SpendsReal(r)
  BY <1>6 DEF PoolSound, SpendsReal
<1>12. PoolSound(r)
  <2>1. /\ m.txs \subseteq Txs /\ IsFiniteSet(m.txs) /\ \A z \in m.txs : ~IsCoinBase(z)
        /\ m.mapNextTx \in [Outpoint -> m.txs \cup {None}] /\ DOMAIN m.count = Txs
    BY DEF PoolSound
  <2> QED BY <1>6, <1>7, <1>8, <1>9, <1>10, <1>11, <2>1 DEF PoolSound
<1>13. \A a, b \in m.txs : b \in m.children[a] => b \in r.children[a]
  BY <1>0, <1>6, <1>8
<1>14. LinkedTo(r, x, block)
  BY <1>0, <1>1, <1>6, <1>8 DEF LinkedTo
<1> QED BY <1>6, <1>12, <1>13, <1>14 DEF MoreLinks, r

LEMMA CountedSound ==
    ASSUME NEW m, PoolSound(m), NEW x \in m.txs, NEW block
    PROVE  LET r == UpdateForDescendants(m, x, block)
           IN  MoreLinks(m, r) /\ r.children = m.children
<1> DEFINE r == UpdateForDescendants(m, x, block)
<1>1. m = [txs |-> m.txs, parents |-> m.parents, children |-> m.children,
           mapNextTx |-> m.mapNextTx, count |-> m.count, fees |-> m.fees]
  BY DEF PoolSound, PoolShape
<1>2. PICK n, f : r = [m EXCEPT !.count[x] = n, !.fees[x] = f]
  BY Zenon DEF UpdateForDescendants
<1> HIDE DEF r
<1>3. r = [txs |-> m.txs, parents |-> m.parents, children |-> m.children, mapNextTx |-> m.mapNextTx,
           count |-> [m.count EXCEPT ![x] = n], fees |-> [m.fees EXCEPT ![x] = f]]
  BY <1>1, <1>2
<1>4. r.txs = m.txs /\ r.parents = m.parents /\ r.children = m.children /\ r.mapNextTx = m.mapNextTx
      /\ PoolShape(r) /\ r.count = [m.count EXCEPT ![x] = n]
  BY <1>3 DEF PoolShape
<1>5. DOMAIN r.count = Txs /\ \A y \in Txs \ m.txs : r.count[y] = m.count[y]
  BY <1>4 DEF PoolSound
<1>6. PoolSound(r)
  BY <1>4, <1>5 DEF PoolSound, NothingLeft, LinksReal, SpendsReal
<1> QED BY <1>4, <1>6 DEF MoreLinks, r

LEMMA UpdatedSound ==
    ASSUME NEW m, PoolSound(m), NEW x, NEW block
    PROVE  MoreLinks(m, Updated(m, x, block)) /\ LinkedTo(Updated(m, x, block), x, block)
<1>1. CASE x \notin m.txs
  <2>1. Updated(m, x, block) = m
    BY <1>1 DEF Updated
  <2> QED BY <1>1, <2>1 DEF MoreLinks, LinkedTo
<1>2. CASE x \in m.txs
  <2> DEFINE l == Linked(m, x, block)
             r == UpdateForDescendants(l, x, block)
  <2>1. Updated(m, x, block) = r
    BY <1>2 DEF Updated
  <2>2. MoreLinks(m, l) /\ LinkedTo(l, x, block)
    BY <1>2, LinkedSound
  <2> HIDE DEF l
  <2>3. PoolSound(l) /\ x \in l.txs
    BY <1>2, <2>2 DEF MoreLinks
  <2>4. MoreLinks(l, r) /\ r.children = l.children
    BY <2>3, CountedSound
  <2> HIDE DEF r
  <2> QED BY <2>1, <2>2, <2>4 DEF MoreLinks, LinkedTo
<1> QED BY <1>1, <1>2

LEMMA MoreLinksTwice ==
    ASSUME NEW m, NEW r, NEW s, MoreLinks(m, r), MoreLinks(r, s)
    PROVE  MoreLinks(m, s)
BY DEF MoreLinks

\* When all of the block is done, every child is linked to its parents.
LEMMA BlockRelinked ==
    ASSUME NEW m, PoolSound(m), NEW s \in Seq(Txs)
    PROVE  LET r == UpdateTransactionsFromBlock(m, s)
           IN  MoreLinks(m, r) /\ (LinksMade(m, ToSet(s)) => LinksMade(r, {}))
<1> DEFINE k == Len(s)
           block == ToSet(s)
           g == CHOOSE a : a = [n \in 0..k |-> IF n = 0 THEN m ELSE Updated(a[n - 1], s[Len(s) + 1 - n], ToSet(s))]
           Done(n) == MoreLinks(m, g[n]) /\ \A l \in 1..n : LinkedTo(g[n], s[Len(s) + 1 - l], block)
           T == {n \in 0..k : ~Done(n)}
<1>0. k \in Nat /\ DOMAIN s = 1..k
  BY LenProperties
<1>1. UpdateTransactionsFromBlock(m, s) = g[k]
  BY DEF UpdateTransactionsFromBlock
<1>a. g = [n \in 0..k |-> IF n = 0 THEN m ELSE Updated(g[n - 1], s[Len(s) + 1 - n], ToSet(s))]
  <2>1. \E a : IsUpdating(a, m, s, k)
    BY <1>0, UpdatingExists
  <2>2. \E a : a = [n \in 0..k |-> IF n = 0 THEN m ELSE Updated(a[n - 1], s[Len(s) + 1 - n], ToSet(s))]
    BY <2>1 DEF IsUpdating
  <2> QED BY <2>2
<1> HIDE DEF g
<1>2. g[0] = m /\ \A n \in 1..k : g[n] = Updated(g[n - 1], s[Len(s) + 1 - n], block)
  <2>1. ASSUME NEW n \in 0..k PROVE g[n] = IF n = 0 THEN m ELSE Updated(g[n - 1], s[Len(s) + 1 - n], ToSet(s))
    BY <1>a, Zenon
  <2>2. 0 \in 0..k /\ \A n \in 1..k : n \in 0..k /\ n # 0
    BY <1>0
  <2>3. g[0] = m
    BY <2>1, <2>2, Zenon
  <2>4. ASSUME NEW n \in 1..k PROVE g[n] = Updated(g[n - 1], s[Len(s) + 1 - n], block)
    BY <2>1, <2>2, Zenon
  <2> QED BY <2>3, <2>4, Zenon
<1> HIDE DEF block
<1>3. T = {}
  <2> SUFFICES ASSUME T # {} PROVE FALSE
    OBVIOUS
  <2>1. T \subseteq Nat
    BY <1>0
  <2>2. PICK n \in T : \A l \in Nat : l < n => l \notin T
    <3> HIDE DEF T
    <3> QED BY <2>1, LeastNat
  <2>3. n \in 0..k /\ ~Done(n)
    OBVIOUS
  <2>4. n # 0
    <3>1. Done(0)
      BY <1>2 DEF MoreLinks
    <3> QED BY <2>3, <3>1
  <2>5. n \in 1..k /\ n - 1 \in Nat /\ n - 1 < n /\ n - 1 \in 0..k
    BY <1>0, <2>3, <2>4
  <2>6. Done(n - 1)
    BY <2>2, <2>5
  <2> DEFINE p == g[n - 1]
             x == s[Len(s) + 1 - n]
             r == Updated(p, x, block)
  <2>7. MoreLinks(m, p) /\ \A l \in 1..(n - 1) : LinkedTo(p, s[Len(s) + 1 - l], block)
    BY <2>6
  <2>8. PoolSound(p)
    BY <2>7 DEF MoreLinks
  <2>9. g[n] = r
    BY <1>2, <2>5
  <2> HIDE DEF p, x
  <2>10. MoreLinks(p, r) /\ LinkedTo(r, x, block)
    BY <2>8, UpdatedSound
  <2> HIDE DEF r
  <2>11. MoreLinks(m, r)
    BY <2>7, <2>10, MoreLinksTwice
  <2>12. ASSUME NEW l \in 1..n PROVE LinkedTo(r, s[Len(s) + 1 - l], block)
    <3>1. CASE l = n
      BY <2>10, <3>1 DEF x
    <3>2. CASE l # n
      <4>1. l \in 1..(n - 1)
        BY <2>5, <3>2
      <4>2. LinkedTo(p, s[Len(s) + 1 - l], block)
        BY <2>7, <4>1
      <4> QED BY <2>10, <4>2 DEF MoreLinks, LinkedTo
    <3> QED BY <3>1, <3>2
  <2> QED BY <2>3, <2>9, <2>11, <2>12
<1>4. Done(k)
  <2>1. k \in 0..k
    BY <1>0
  <2> HIDE DEF Done
  <2> QED BY <1>3, <2>1
<1> DEFINE r == g[k]
<1>5. MoreLinks(m, r) /\ \A l \in 1..k : LinkedTo(r, s[Len(s) + 1 - l], block)
  BY <1>4
<1> HIDE DEF r
<1>6. ASSUME NEW x \in block PROVE LinkedTo(r, x, block)
  <2>1. PICK j \in 1..k : x = s[j]
    BY <1>0, <1>6 DEF block, ToSet
  <2>2. k + 1 - j \in 1..k /\ k + 1 - (k + 1 - j) = j
    BY <1>0
  <2>3. LinkedTo(r, s[Len(s) + 1 - (k + 1 - j)], block)
    BY <1>5, <2>2
  <2> QED BY <2>1, <2>2, <2>3
<1>7. ASSUME LinksMade(m, block) PROVE LinksMade(r, {})
  <2> SUFFICES ASSUME NEW x \in r.txs, NEW y \in r.txs, x \in Prevs(y) PROVE y \in r.children[x]
    BY DEF LinksMade
  <2>1. x \in m.txs /\ y \in m.txs
    BY <1>5 DEF MoreLinks
  <2>2. CASE x \in block => y \in block
    <3>1. y \in m.children[x]
      BY <1>7, <2>1, <2>2 DEF LinksMade
    <3> QED BY <1>5, <2>1, <3>1 DEF MoreLinks
  <2>3. CASE x \in block /\ y \notin block
    BY <1>6, <2>3 DEF LinkedTo
  <2> QED BY <2>2, <2>3
<1> QED BY <1>1, <1>5, <1>7 DEF r, block

\* More links change nothing about the inputs.
LEMMA MoreLinksInputs ==
    ASSUME NEW m, NEW r, MoreLinks(m, r), NEW c, NEW U, NEW Q, InputsKnown(c, m, U, Q)
    PROVE  InputsKnown(c, r, U, Q)
BY DEF MoreLinks, InputsKnown, InputIn

-----------------------------------------------------------------------------
(* removeForReorg *)

First(T) == CHOOSE y \in T : TRUE

SmallSubsets(S, n) == {T \in SUBSET S : Cardinality(T) <= n}

\* RemoveAll for the subsets of S of at most n transactions
IsRemoval(g, m, S, n) ==
    g = [T \in SmallSubsets(S, n) |-> IF T = {} THEN m ELSE removeRecursive(g[T \ {First(T)}], First(T))]

LEMMA RemovalExists ==
    ASSUME NEW m, NEW S, IsFiniteSet(S), NEW k \in Nat
    PROVE  \E g : IsRemoval(g, m, S, k)
<1> DEFINE Bad == {j \in Nat : ~\E g : IsRemoval(g, m, S, j)}
<1> SUFFICES ASSUME Bad # {} PROVE FALSE
  OBVIOUS
<1>1. PICK j \in Bad : \A l \in Nat : l < j => l \notin Bad
  <2>1. Bad \subseteq Nat
    OBVIOUS
  <2> HIDE DEF Bad
  <2> QED BY <2>1, LeastNat
<1>2. j \in Nat /\ ~\E g : IsRemoval(g, m, S, j)
  OBVIOUS
<1>s. ASSUME NEW T \in SUBSET S
      PROVE  /\ IsFiniteSet(T) /\ Cardinality(T) \in Nat /\ (T = {} <=> Cardinality(T) = 0)
             /\ T # {} => First(T) \in T /\ Cardinality(T \ {First(T)}) = Cardinality(T) - 1
  <2>1. IsFiniteSet(T) /\ Cardinality(T) \in Nat /\ (T = {} <=> Cardinality(T) = 0)
    BY FS_Subset, FS_CardinalityType, FS_EmptySet
  <2>2. T # {} => First(T) \in T
    BY DEF First
  <2>3. T # {} => Cardinality(T \ {First(T)}) = Cardinality(T) - 1
    BY <2>1, <2>2, FS_RemoveElement
  <2> QED BY <2>1, <2>2, <2>3
<1> DEFINE F(h, T) == IF T = {} THEN m ELSE removeRecursive(h[T \ {First(T)}], First(T))
<1>3. CASE j = 0
  <2> DEFINE g == [T \in SmallSubsets(S, 0) |-> m]
  <2>1. \A T \in SmallSubsets(S, 0) : g[T] = F(g, T)
    BY <1>s DEF SmallSubsets
  <2>2. g = [T \in SmallSubsets(S, 0) |-> F(g, T)]
    <3>1. g = [T \in SmallSubsets(S, 0) |-> g[T]]
      OBVIOUS
    <3> HIDE DEF g, F
    <3> QED BY <2>1, <3>1
  <2>3. IsRemoval(g, m, S, 0)
    BY <2>2 DEF IsRemoval
  <2> QED BY <1>2, <1>3, <2>3
<1>4. CASE j # 0
  <2>1. j - 1 \in Nat /\ j - 1 < j
    BY <1>2, <1>4
  <2>2. PICK g : IsRemoval(g, m, S, j - 1)
    BY <1>1, <2>1
  <2> DEFINE h == [T \in SmallSubsets(S, j) |-> IF Cardinality(T) = j THEN F(g, T) ELSE g[T]]
  <2>3. \A T \in SmallSubsets(S, j - 1) : g[T] = F(g, T)
    BY <2>2, Zenon DEF IsRemoval
  <2> HIDE DEF F
  <2>4. \A T \in SmallSubsets(S, j) : h[T] = IF Cardinality(T) = j THEN F(g, T) ELSE g[T]
    OBVIOUS
  <2>5. h = [T \in SmallSubsets(S, j) |-> h[T]]
    OBVIOUS
  <2> HIDE DEF h
  <2>6. ASSUME NEW T \in SmallSubsets(S, j) PROVE h[T] = F(h, T)
    <3>0. T \in SUBSET S /\ Cardinality(T) <= j /\ Cardinality(T) \in Nat
      BY <1>s DEF SmallSubsets
    <3>1. T # {} => h[T \ {First(T)}] = g[T \ {First(T)}]
      <4> SUFFICES ASSUME T # {} PROVE h[T \ {First(T)}] = g[T \ {First(T)}]
        OBVIOUS
      <4>1. T \ {First(T)} \in SUBSET S /\ Cardinality(T \ {First(T)}) = Cardinality(T) - 1
        BY <1>s, <3>0
      <4>2. Cardinality(T \ {First(T)}) <= j /\ Cardinality(T \ {First(T)}) # j
        BY <1>2, <3>0, <4>1
      <4> QED BY <2>4, <4>1, <4>2 DEF SmallSubsets
    <3>2. F(h, T) = F(g, T)
      BY <3>1 DEF F
    <3>3. CASE Cardinality(T) = j
      BY <2>4, <3>2, <3>3
    <3>4. CASE Cardinality(T) # j
      <4>1. T \in SmallSubsets(S, j - 1)
        BY <1>2, <3>0, <3>4 DEF SmallSubsets
      <4> QED BY <2>3, <2>4, <3>2, <3>4, <4>1
    <3> QED BY <3>3, <3>4
  <2>7. h = [T \in SmallSubsets(S, j) |-> F(h, T)]
    BY <2>5, <2>6
  <2>8. IsRemoval(h, m, S, j)
    BY <2>7, Zenon DEF IsRemoval, F
  <2> QED BY <1>2, <2>8
<1> QED BY <1>3, <1>4

\* All of S is removed, and the descendants of what is removed with it.
LEMMA AllRemoved ==
    ASSUME NEW m, PoolSound(m), NEW X, Linkable(m, X), NEW S \in SUBSET m.txs
    PROVE  Drops(m, RemoveAll(m, S), X) /\ RemoveAll(m, S).txs \cap S = {}
<1> DEFINE g == CHOOSE a : a = [T \in SUBSET S |->
                    IF T = {} THEN m ELSE removeRecursive(a[T \ {CHOOSE y \in T : TRUE}], CHOOSE y \in T : TRUE)]
           Done(T) == Drops(m, g[T], X) /\ g[T].txs \cap T = {}
           Bad == {n \in Nat : \E T \in SUBSET S : Cardinality(T) = n /\ ~Done(T)}
<1>0. IsFiniteSet(S) /\ S \subseteq Txs
  BY FS_Subset DEF PoolSound
<1>s. ASSUME NEW T \in SUBSET S
      PROVE  /\ IsFiniteSet(T) /\ Cardinality(T) \in Nat
             /\ T # {} => First(T) \in T /\ Cardinality(T \ {First(T)}) = Cardinality(T) - 1
  <2>1. IsFiniteSet(T) /\ Cardinality(T) \in Nat
    BY <1>0, FS_Subset, FS_CardinalityType
  <2>2. T # {} => First(T) \in T
    BY DEF First
  <2>3. T # {} => Cardinality(T \ {First(T)}) = Cardinality(T) - 1
    BY <2>1, <2>2, FS_RemoveElement
  <2> QED BY <2>1, <2>2, <2>3
<1>1. RemoveAll(m, S) = g[S]
  BY DEF RemoveAll
<1>2. SmallSubsets(S, Cardinality(S)) = SUBSET S /\ Cardinality(S) \in Nat
  <2>1. \A T \in SUBSET S : Cardinality(T) <= Cardinality(S)
    BY <1>0, FS_Subset
  <2> QED BY <1>s, <2>1 DEF SmallSubsets
<1>3. g = [T \in SUBSET S |-> IF T = {} THEN m ELSE removeRecursive(g[T \ {First(T)}], First(T))]
  <2>1. PICK a : IsRemoval(a, m, S, Cardinality(S))
    BY <1>0, <1>2, RemovalExists
  <2>2. a = [T \in SUBSET S |-> IF T = {} THEN m ELSE removeRecursive(a[T \ {First(T)}], First(T))]
    BY <1>2, <2>1 DEF IsRemoval
  <2>3. \E f : f = [T \in SUBSET S |->
                IF T = {} THEN m ELSE removeRecursive(f[T \ {CHOOSE y \in T : TRUE}], CHOOSE y \in T : TRUE)]
    BY <2>2, Zenon DEF First
  <2> QED BY <2>3, Zenon DEF First
<1> HIDE DEF g
<1>4. ASSUME NEW T \in SUBSET S
      PROVE  g[T] = IF T = {} THEN m ELSE removeRecursive(g[T \ {First(T)}], First(T))
  BY <1>3, Zenon
<1>5. Bad = {}
  <2> SUFFICES ASSUME Bad # {} PROVE FALSE
    OBVIOUS
  <2>1. Bad \subseteq Nat
    OBVIOUS
  <2>2. PICK n \in Bad : \A l \in Nat : l < n => l \notin Bad
    <3> HIDE DEF Bad
    <3> QED BY <2>1, LeastNat
  <2>3. PICK T \in SUBSET S : Cardinality(T) = n /\ ~Done(T)
    OBVIOUS
  <2>4. T # {}
    <3>1. T = {} => g[T] = m
      BY <1>4
    <3> QED BY <2>3, <3>1, DropsNothing
  <2> DEFINE x == First(T)
             p == g[T \ {x}]
             r == removeRecursive(p, x)
  <2>5. x \in T /\ x \in Txs /\ T \ {x} \in SUBSET S /\ Cardinality(T \ {x}) = n - 1
    BY <1>0, <1>s, <2>3, <2>4
  <2>6. Cardinality(T \ {x}) \in Nat /\ Cardinality(T \ {x}) < n
    <3>1. Cardinality(T \ {x}) \in Nat
      <4> HIDE DEF x
      <4> QED BY <1>s, <2>5
    <3>2. n \in Nat
      BY <1>s, <2>3
    <3> QED BY <2>5, <3>1, <3>2
  <2>7. Done(T \ {x})
    BY <2>2, <2>5, <2>6
  <2>8. g[T] = r
    BY <1>4, <2>4
  <2>9. Drops(m, p, X) /\ p.txs \cap (T \ {x}) = {}
    BY <2>7
  <2> HIDE DEF x, p
  <2>10. PoolSound(p) /\ Linkable(p, X)
    BY <2>9, DropsLinkable DEF Drops
  <2>11. Drops(p, r, X) /\ x \notin r.txs
    BY <2>5, <2>10, RemoveRecursiveDrops
  <2> HIDE DEF r
  <2>12. Drops(m, r, X)
    BY <2>9, <2>11, DropsTwice
  <2>13. r.txs \cap T = {}
    BY <2>9, <2>11 DEF Drops
  <2> QED BY <2>3, <2>8, <2>12, <2>13
<1>6. Done(S)
  <2>1. Cardinality(S) \in Nat
    BY <1>s
  <2> HIDE DEF Done
  <2> QED BY <1>5, <2>1
<1> QED BY <1>1, <1>6

-----------------------------------------------------------------------------
(* CoinsOf is defined along branches, which end in the genesis block.  That   *)
(* the equation has a solution follows from the solutions on single branches, *)
(* which exist and are unique: there is no lowest block without.               *)

NoCoins == [x \in Txs |-> Pruned]

\* g solves the equation of CoinsOf on the branch that ends in b.
Solves(g, b) ==
    \A a \in Ancestors[b] :
        g[a] = IF a = Genesis THEN NoCoins ELSE Effect(g[Parent[a]], a)

LEMMA SolutionsAgree ==
    ASSUME NEW b \in Blocks, NEW f, NEW g, Solves(f, b), Solves(g, b)
    PROVE  \A a \in Ancestors[b] : f[a] = g[a]
<1> DEFINE Bad == {a \in Ancestors[b] : f[a] # g[a]}
<1> SUFFICES ASSUME Bad # {} PROVE FALSE
  OBVIOUS
<1>1. Bad \in SUBSET Blocks
  BY AncestorsType
<1>2. PICK a \in Bad : \A y \in Bad : Height[a] <= Height[y]
  <2> HIDE DEF Bad
  <2> QED BY <1>1, LowestBlock
<1>3. a # Genesis
  BY DEF Solves
<1>4. Parent[a] \in Ancestors[b] /\ Parent[a] \in Blocks /\ a \in Blocks
  BY <1>1, <1>3, AncestorsType DEF ParentClosed
<1>5. Height[a] = Height[Parent[a]] + 1 /\ Height[Parent[a]] \in Nat
  BY <1>3, <1>4, HeightAssumption
<1>6. f[Parent[a]] = g[Parent[a]]
  BY <1>2, <1>4, <1>5
<1> QED BY <1>3, <1>6 DEF Solves

LEMMA SolutionExists ==
    ASSUME NEW b \in Blocks
    PROVE  \E g : Solves(g, b)
<1> DEFINE Bad == {a \in Blocks : ~\E g : Solves(g, a)}
<1> SUFFICES ASSUME Bad # {} PROVE FALSE
  OBVIOUS
<1>1. PICK a \in Bad : \A y \in Bad : Height[a] <= Height[y]
  <2>1. Bad \in SUBSET Blocks
    OBVIOUS
  <2> HIDE DEF Bad
  <2> QED BY <2>1, LowestBlock
<1>2. a # Genesis
  <2>1. Solves([d \in Blocks |-> NoCoins], Genesis)
    BY AncestorsGenesis, BlocksAssumption DEF Solves
  <2> QED BY <2>1
<1>3. Parent[a] \in Blocks /\ a \in Blocks /\ Ancestors[a] = Ancestors[Parent[a]] \cup {a}
  BY <1>2, AncestorsParent
<1>4. Height[a] = Height[Parent[a]] + 1 /\ Height[Parent[a]] \in Nat
  BY <1>2, <1>3, HeightAssumption
<1>5. PICK g : Solves(g, Parent[a])
  BY <1>1, <1>3, <1>4
<1>6. a \notin Ancestors[Parent[a]]
  BY <1>3, <1>4, AncestorIsLower
<1> DEFINE f == [d \in Blocks |-> IF d = a THEN Effect(g[Parent[a]], a) ELSE g[d]]
<1>7. Solves(f, a)
  <2> SUFFICES ASSUME NEW d \in Ancestors[a]
               PROVE  f[d] = IF d = Genesis THEN NoCoins ELSE Effect(f[Parent[d]], d)
    BY DEF Solves
  <2>1. Parent[a] # a /\ Parent[a] \in Ancestors[Parent[a]]
    BY <1>3, <1>4, AncestorsType
  <2>2. CASE d = a
    BY <1>2, <1>3, <2>1, <2>2
  <2>3. CASE d # a
    <3>1. d \in Ancestors[Parent[a]] /\ d \in Blocks
      BY <1>3, <2>3, AncestorsType
    <3>2. d # Genesis => Parent[d] \in Ancestors[Parent[a]] /\ Parent[d] \in Blocks /\ Parent[d] # a
      BY <1>3, <1>6, <3>1, AncestorsType DEF ParentClosed
    <3>3. g[d] = IF d = Genesis THEN NoCoins ELSE Effect(g[Parent[d]], d)
      BY <1>5, <3>1 DEF Solves
    <3> QED BY <2>3, <3>1, <3>2, <3>3
  <2> QED BY <2>2, <2>3
<1> QED BY <1>1, <1>7

\* The unspent outputs of a chain are those of the chain below, changed by its
\* last block.
LEMMA CoinsOfBlock ==
    /\ CoinsOf[Genesis] = NoCoins
    /\ \A b \in Blocks \ {Genesis} : CoinsOf[b] = Effect(CoinsOf[Parent[b]], b)
<1> DEFINE sol(b) == CHOOSE g : Solves(g, b)
           f == [b \in Blocks |-> sol(b)[b]]
           R(h) == [b \in Blocks |-> IF b = Genesis THEN NoCoins ELSE Effect(h[Parent[b]], b)]
<1>1. \A b \in Blocks : Solves(sol(b), b)
  BY SolutionExists
<1>2. ASSUME NEW b \in Blocks
      PROVE  f[b] = IF b = Genesis THEN NoCoins ELSE Effect(f[Parent[b]], b)
  <2>1. b \in Ancestors[b] /\ f[b] = sol(b)[b]
    BY AncestorsType
  <2>2. f[b] = IF b = Genesis THEN NoCoins ELSE Effect(sol(b)[Parent[b]], b)
    BY <1>1, <2>1 DEF Solves
  <2>3. CASE b = Genesis
    BY <2>2, <2>3
  <2>4. CASE b # Genesis
    <3>1. Parent[b] \in Blocks /\ Ancestors[Parent[b]] \subseteq Ancestors[b]
      BY <2>4, AncestorsParent
    <3>2. Solves(sol(b), Parent[b]) /\ Solves(sol(Parent[b]), Parent[b])
      BY <1>1, <3>1 DEF Solves
    <3>3. sol(b)[Parent[b]] = sol(Parent[b])[Parent[b]]
      <4> HIDE DEF sol
      <4> QED BY <3>1, <3>2, SolutionsAgree, AncestorsType
    <3>4. f[Parent[b]] = sol(Parent[b])[Parent[b]]
      BY <3>1
    <3> HIDE DEF f, sol
    <3> QED BY <2>2, <2>4, <3>3, <3>4
  <2> QED BY <2>3, <2>4
<1>3. f = R(f)
  <2>1. \A b \in Blocks : f[b] = R(f)[b]
    BY <1>2
  <2> QED BY <2>1
<1>4. \E h : h = R(h)
  BY <1>3
<1>5. CoinsOf = R(CoinsOf)
  BY <1>4, Zenon DEF CoinsOf, NoCoins
<1> QED BY <1>5, BlocksAssumption

\* What a block leaves of the outputs of x
LEMMA EffectOuts ==
    ASSUME NEW c, NEW b, NEW x \in Txs
    PROVE  /\ Effect(c, b)[x].outs =
                {n \in IF x \in TxsOf(b) THEN Outs[x] ELSE c[x].outs : <<x, n>> \notin SpentIn(b)}
           /\ Effect(c, b)[x].outs # {} =>
                Effect(c, b)[x].height = IF x \in TxsOf(b) THEN Height[b] ELSE c[x].height
<1> DEFINE S == {n \in IF x \in TxsOf(b) THEN Outs[x] ELSE c[x].outs : <<x, n>> \notin SpentIn(b)}
           h == IF x \in TxsOf(b) THEN Height[b] ELSE c[x].height
<1>1. Effect(c, b)[x] = Coin(h, S)
  BY DEF Effect
<1> HIDE DEF S, h
<1>2. Coin(h, S).outs = S /\ (S # {} => Coin(h, S).height = h)
  BY DEF Coin, Pruned
<1> QED BY <1>1, <1>2 DEF S, h

\* A connected block takes none of the inputs that are still needed.
LEMMA ConnectedInputs ==
    ASSUME NEW c, NEW m, NEW r, NEW b \in Blocks, PoolSound(m), InputsKnown(c, m, {}, {}), Acceptable(c, b),
           Drops(m, r, TxsOf(b)), \A x \in TxsOf(b) : x \notin r.txs, \A o \in SpentIn(b) : Unspent(r, o)
    PROVE  InputsKnown(Effect(c, b), r, {}, {})
<1> SUFFICES ASSUME NEW y \in r.txs, NEW o \in Prevouts(y) PROVE InputIn(Effect(c, b), r, o)
  BY DEF InputsKnown
<1>1. r.txs \subseteq m.txs /\ m.txs \subseteq Txs
  BY DEF Drops, PoolSound
<1>2. o \in Txs \X Nat /\ o = <<o[1], o[2]>> /\ o[1] \in Txs /\ o[1] \in Prevs(y)
  BY <1>1, PrevoutsType
<1>3. InputIn(c, m, o)
  BY <1>1 DEF InputsKnown
<1>4. <<o[1], o[2]>> \notin SpentIn(b)
  BY <1>2 DEF Unspent
<1>5. Effect(c, b)[o[1]].outs =
        {n \in IF o[1] \in TxsOf(b) THEN Outs[o[1]] ELSE c[o[1]].outs : <<o[1], n>> \notin SpentIn(b)}
  BY <1>2, EffectOuts
<1>6. CASE o[1] \in r.txs
  BY <1>1, <1>3, <1>6 DEF InputIn
<1>7. CASE o[1] \in m.txs /\ o[1] \notin r.txs
  <2>1. o[1] \in TxsOf(b)
    BY <1>2, <1>7 DEF Drops
  <2> QED BY <1>3, <1>4, <1>5, <1>7, <2>1 DEF InputIn
<1>8. CASE o[1] \notin m.txs
  <2>1. o[2] \in c[o[1]].outs
    BY <1>3, <1>8 DEF InputIn
  <2>2. o[1] \notin TxsOf(b)
    BY <2>1, PrunedHasNone DEF Acceptable
  <2>3. o[2] \in Effect(c, b)[o[1]].outs
    BY <1>4, <1>5, <2>1, <2>2
  <2> QED BY <1>1, <1>8, <2>3 DEF InputIn
<1> QED BY <1>6, <1>7, <1>8

\* Before the block that is disconnected, what its transactions offer is not there.
LEMMA DisconnectedInputs ==
    ASSUME NEW c, NEW m, NEW b \in Blocks, PoolSound(m), InputsKnown(Effect(c, b), m, {}, {})
    PROVE  InputsKnown(c, m, {}, TxsOf(b))
<1> SUFFICES ASSUME NEW y \in m.txs, NEW o \in Prevouts(y)
             PROVE  InputIn(c, m, o) \/ (o[1] \in TxsOf(b) /\ o[2] \in Outs[o[1]])
  BY DEF InputsKnown
<1>1. InputIn(Effect(c, b), m, o)
  BY DEF InputsKnown
<1>2. o[1] \in Txs
  BY PrevoutsType DEF PoolSound
<1>3. o[1] \notin m.txs => o[2] \in IF o[1] \in TxsOf(b) THEN Outs[o[1]] ELSE c[o[1]].outs
  <2>1. Effect(c, b)[o[1]].outs =
          {n \in IF o[1] \in TxsOf(b) THEN Outs[o[1]] ELSE c[o[1]].outs : <<o[1], n>> \notin SpentIn(b)}
    BY <1>2, EffectOuts
  <2>2. o[1] \notin m.txs => o[2] \in Effect(c, b)[o[1]].outs
    BY <1>1 DEF InputIn
  <2> QED BY <2>1, <2>2
<1> QED BY <1>1, <1>3 DEF InputIn

-----------------------------------------------------------------------------
(* The actions of the pool *)

LEMMA AnyLinkable == ASSUME NEW m PROVE Linkable(m, Txs)
BY DEF Linkable

LEMMA MadeLinkable == ASSUME NEW m, NEW U, LinksMade(m, U) PROVE Linkable(m, U)
BY DEF Linkable

\* Whatever AcceptToMemoryPool is given, the pool stays sound and within its limit.
LEMMA AcceptedSound ==
    ASSUME NEW m, PoolSound(m), Cardinality(m.txs) <= MaxPool, NEW x \in Txs, Admissible(m, x), NEW young,
           NEW r \in LimitMempoolSize(Entered(m, x), young)
    PROVE  PoolSound(r) /\ Cardinality(r.txs) <= MaxPool /\ r.txs \subseteq m.txs \cup {x}
<1> DEFINE e == Entered(m, x)
<1>1. /\ PoolSound(e) /\ e.txs = Cleared(m, x).txs \cup {x}
      /\ Cardinality(e.txs) <= Cardinality(m.txs) + 1 /\ Cleared(m, x).txs \subseteq m.txs
  BY AnyLinkable, EnteredSound, ClearedDrops
<1>2. Cardinality(e.txs) \in Nat /\ Cardinality(m.txs) \in Nat /\ MaxPool \in Nat
  BY <1>1, FS_CardinalityType, LimitsAssumption DEF PoolSound
<1> HIDE DEF e
<1>3. Cardinality(e.txs) <= MaxPool + 1
  BY <1>1, <1>2
<1>4. Drops(e, r, Txs) /\ Cardinality(r.txs) <= MaxPool
  BY <1>1, <1>3, AnyLinkable, LimitDrops DEF e
<1> QED BY <1>1, <1>4 DEF Drops

\* What was put back before and is still there keeps its inputs.
LEMMA AcceptedInputs ==
    ASSUME NEW m, PoolSound(m), Cardinality(m.txs) <= MaxPool, NEW x \in Txs, Admissible(m, x), NEW young,
           NEW r \in LimitMempoolSize(Entered(m, x), young), NEW U \in SUBSET m.txs, NEW Q, NEW W,
           LinksMade(m, U), InputsKnown(Coins, m, U, Q), U \subseteq r.txs, W = U \cup {x} \/ (W = U /\ x \notin Q)
    PROVE  /\ Drops(Entered(m, x), r, W) /\ LinksMade(r, W)
           /\ InputsKnown(Coins, Entered(m, x), W, Q \ {x})
<1> DEFINE e == Entered(m, x)
<1>1. /\ PoolSound(e) /\ e.txs = Cleared(m, x).txs \cup {x}
      /\ Cardinality(e.txs) <= Cardinality(m.txs) + 1
  BY AnyLinkable, EnteredSound
<1>2. Cardinality(e.txs) \in Nat /\ Cardinality(m.txs) \in Nat /\ MaxPool \in Nat
  BY <1>1, FS_CardinalityType, LimitsAssumption DEF PoolSound
<1> HIDE DEF e
<1>3. Cardinality(e.txs) <= MaxPool + 1
  BY <1>1, <1>2
<1>4. r.txs \subseteq e.txs
  BY <1>1, <1>3, AnyLinkable, LimitDrops DEF e, Drops
<1>5. U \subseteq Cleared(m, x).txs
  <2>1. x \notin U
    BY AdmissibleFacts
  <2> QED BY <1>1, <1>4, <2>1
<1>6. LinksMade(e, W) /\ InputsKnown(Coins, e, W, Q \ {x})
  BY <1>5, EnteredInputs DEF e
<1>7. Drops(e, r, W)
  BY <1>1, <1>3, <1>6, MadeLinkable, LimitDrops DEF e
<1> QED BY <1>6, <1>7, DropsLinks DEF e

\* What the invariant says of the pool, when nothing is being put back
PoolRests(c, m) == LinksMade(m, {}) /\ InputsKnown(c, m, {}, {})

LEMMA RestingInv ==
    ASSUME PoolInv, step # "resurrect"
    PROVE  PutBack = {} /\ NotYet = {} /\ Coins = CoinsOf[tip] /\ next = 1 /\ vHashUpdate = <<>>
           /\ (~cut => PoolRests(CoinsOf[tip], mempool))
<1>1. next = 1 /\ vHashUpdate = <<>> /\ NotYet = {} /\ Coins = CoinsOf[tip]
  BY DEF PoolInv, NotYet, Coins
<1>2. PutBack = {}
  BY <1>1 DEF PutBack, ToSet
<1> QED BY <1>1, <1>2 DEF PoolInv, PoolRests

LEMMA InvResting ==
    ASSUME PoolSound(mempool'), Cardinality(mempool'.txs) <= MaxPool, mapDeltas' \in [Txs -> {0, FeeDelta}],
           tip' \in Blocks, step' \in Steps, step' # "resurrect", cut' \in BOOLEAN, next' = 1, vHashUpdate' = <<>>,
           ~cut' => PoolRests(CoinsOf[tip'], mempool')
    PROVE  PoolInv'
<1>1. Len(Vtx[tip']) \in Nat /\ next' \in 1..(Len(Vtx[tip']) + 1)
  BY VtxAssumption, LenProperties
<1>2. PutBack' = {} /\ NotYet' = {} /\ Coins' = CoinsOf[tip'] /\ vHashUpdate' \in Seq(Txs)
  BY DEF PutBack, NotYet, ToSet, Coins
<1> QED BY <1>1, <1>2 DEF PoolInv, PoolRests

LEMMA DropsRests ==
    ASSUME NEW c, NEW m, PoolRests(c, m), NEW r, Drops(m, r, {})
    PROVE  PoolRests(c, r)
<1>1. \A p \in m.txs \ r.txs : \A y \in r.txs : p \notin Prevs(y)
  BY DEF Drops
<1> QED BY <1>1, DropsLinks, DropsInputs DEF PoolRests

LEMMA AcceptInv ==
    ASSUME PoolInv, NEW x \in Txs, step = "idle", Admissible(mempool, x),
           mempool' \in LimitMempoolSize(Entered(mempool, x), {x}), ForPool
    PROVE  PoolInv'
<1>1. PoolSound(mempool) /\ Cardinality(mempool.txs) <= MaxPool
  BY DEF PoolInv
<1>2. PoolSound(mempool') /\ Cardinality(mempool'.txs) <= MaxPool
  BY <1>1, AcceptedSound
<1>3. Coins = CoinsOf[tip] /\ next = 1 /\ vHashUpdate = <<>> /\ (~cut => PoolRests(CoinsOf[tip], mempool))
  BY RestingInv
<1>4. ASSUME ~cut PROVE PoolRests(CoinsOf[tip], mempool')
  <2>1. LinksMade(mempool, {}) /\ InputsKnown(Coins, mempool, {}, {})
    BY <1>3, <1>4 DEF PoolRests
  <2> DEFINE e == Entered(mempool, x)
  <2>2. Drops(e, mempool', {}) /\ LinksMade(mempool', {}) /\ InputsKnown(Coins, e, {}, {} \ {x})
    <3>1. x \notin {} /\ {} \in SUBSET mempool.txs /\ {} \subseteq mempool'.txs
      OBVIOUS
    <3> QED BY <1>1, <2>1, <3>1, AcceptedInputs
  <2> HIDE DEF e
  <2>3. \A p \in e.txs \ mempool'.txs : \A y \in mempool'.txs : p \notin Prevs(y)
    BY <2>2 DEF Drops
  <2>4. {} \ {x} = {}
    OBVIOUS
  <2>5. InputsKnown(Coins, mempool', {}, {})
    BY <2>2, <2>3, <2>4, DropsInputs
  <2> QED BY <1>3, <2>2, <2>5 DEF PoolRests
<1> QED BY <1>2, <1>3, <1>4, InvResting DEF PoolInv, ForPool

LEMMA PrioritiseInv ==
    ASSUME PoolInv, NEW x \in Txs, PrioritiseTransaction(x)
    PROVE  PoolInv'
<1>1. PoolSound(mempool) /\ Cardinality(mempool.txs) <= MaxPool /\ mapDeltas' \in [Txs -> {0, FeeDelta}]
  BY DEF PoolInv, PrioritiseTransaction
<1>2. MoreLinks(mempool, mempool')
  <2>1. CASE mempool' = mempool
    BY <1>1, <2>1 DEF MoreLinks
  <2>2. CASE mempool' # mempool
    <3>1. PICK f : mempool' = [mempool EXCEPT !.fees = f]
      BY <2>2, Zenon DEF PrioritiseTransaction
    <3>2. mempool = [txs |-> mempool.txs, parents |-> mempool.parents, children |-> mempool.children,
                     mapNextTx |-> mempool.mapNextTx, count |-> mempool.count, fees |-> mempool.fees]
      BY <1>1 DEF PoolSound, PoolShape
    <3>3. mempool' = [txs |-> mempool.txs, parents |-> mempool.parents, children |-> mempool.children,
                      mapNextTx |-> mempool.mapNextTx, count |-> mempool.count, fees |-> f]
      BY <3>1, <3>2
    <3>4. /\ mempool'.txs = mempool.txs /\ mempool'.parents = mempool.parents /\ mempool'.children = mempool.children
          /\ mempool'.mapNextTx = mempool.mapNextTx /\ mempool'.count = mempool.count /\ PoolShape(mempool')
      BY <3>3 DEF PoolShape
    <3> QED BY <1>1, <3>4 DEF MoreLinks, PoolSound, NothingLeft, LinksReal, SpendsReal
  <2> QED BY <2>1, <2>2
<1>3. step = "idle" /\ UNCHANGED <<tip, step, next, vHashUpdate, cut>>
  BY DEF PrioritiseTransaction
<1>4. Coins = CoinsOf[tip] /\ next = 1 /\ vHashUpdate = <<>> /\ (~cut => PoolRests(CoinsOf[tip], mempool))
  BY <1>3, RestingInv
<1>5. PoolSound(mempool') /\ mempool'.txs = mempool.txs
  BY <1>2 DEF MoreLinks
<1>6. ~cut => PoolRests(CoinsOf[tip], mempool')
  <2>1. LinksMade(mempool, {}) => LinksMade(mempool', {})
    BY <1>2 DEF MoreLinks, LinksMade
  <2> QED BY <1>2, <1>4, <2>1, MoreLinksInputs DEF PoolRests
<1> QED BY <1>1, <1>3, <1>4, <1>5, <1>6, InvResting DEF PoolInv

LEMMA ConnectTipInv ==
    ASSUME PoolInv, NEW b \in Blocks, ConnectTip(b)
    PROVE  PoolInv'
<1> DEFINE r == removeForBlock(mempool, b)
           m == r.m
<1>1. /\ step \in {"idle", "reorg"} /\ b # Genesis /\ Parent[b] = tip /\ Acceptable(Coins, b)
      /\ mempool' = m /\ mapDeltas' = [x \in Txs |-> IF x \in r.clear THEN 0 ELSE mapDeltas[x]]
      /\ tip' = b /\ UNCHANGED <<step, next, vHashUpdate, cut>>
  BY DEF ConnectTip
<1>2. PoolSound(mempool) /\ Cardinality(mempool.txs) <= MaxPool /\ mapDeltas \in [Txs -> {0, FeeDelta}]
  BY DEF PoolInv
<1>3. Coins = CoinsOf[tip] /\ next = 1 /\ vHashUpdate = <<>> /\ (~cut => PoolRests(CoinsOf[tip], mempool))
  BY <1>1, RestingInv
<1> HIDE DEF r
<1>4. mapDeltas' \in [Txs -> {0, FeeDelta}]
  BY <1>1, <1>2
<1>5. Drops(mempool, m, Txs)
  <2>1. Txs \cup TxsOf(b) \subseteq Txs
    BY VtxAssumption, ElementOfSeq DEF TxsOf, Items
  <2> QED BY <1>2, <2>1, AnyLinkable, BlockRemoved DEF r
<1>6. PoolSound(m) /\ Cardinality(m.txs) <= MaxPool
  <2>1. Cardinality(m.txs) <= Cardinality(mempool.txs) /\ Cardinality(m.txs) \in Nat /\ Cardinality(mempool.txs) \in Nat
    BY <1>2, <1>5, DropsFewer
  <2> QED BY <1>2, <1>5, <2>1, LimitsAssumption DEF Drops
<1>7. ASSUME ~cut PROVE PoolRests(CoinsOf[b], m)
  <2>1. LinksMade(mempool, {}) /\ InputsKnown(Coins, mempool, {}, {})
    BY <1>3, <1>7 DEF PoolRests
  <2>2. Drops(mempool, m, TxsOf(b)) /\ (\A x \in TxsOf(b) : x \notin m.txs) /\ \A o \in SpentIn(b) : Unspent(m, o)
    <3>1. {} \cup TxsOf(b) \subseteq TxsOf(b)
      OBVIOUS
    <3> QED BY <1>2, <2>1, <3>1, MadeLinkable, BlockRemoved DEF r
  <2>3. LinksMade(m, {})
    BY <2>1, <2>2, DropsLinks
  <2>4. InputsKnown(Effect(Coins, b), m, {}, {})
    <3> HIDE DEF m
    <3> QED BY <1>1, <1>2, <2>1, <2>2, ConnectedInputs
  <2>5. CoinsOf[b] = Effect(Coins, b)
    BY <1>1, <1>3, CoinsOfBlock
  <2> QED BY <2>3, <2>4, <2>5 DEF PoolRests
<1> HIDE DEF m
<1> QED BY <1>1, <1>3, <1>4, <1>6, <1>7, InvResting DEF PoolInv

LEMMA DisconnectTipInv ==
    ASSUME PoolInv, DisconnectTip
    PROVE  PoolInv'
<1>1. /\ step \in {"idle", "reorg"} /\ tip # Genesis /\ step' = "resurrect" /\ next' = 1 /\ vHashUpdate' = <<>>
      /\ UNCHANGED <<mempool, mapDeltas, tip, cut>>
  BY DEF DisconnectTip
<1>2. Coins = CoinsOf[tip] /\ (~cut => PoolRests(CoinsOf[tip], mempool))
  BY <1>1, RestingInv
<1>3. Len(Vtx[tip]) \in Nat /\ DOMAIN Vtx[tip] = 1..Len(Vtx[tip]) /\ tip \in Blocks /\ PoolSound(mempool)
  BY VtxAssumption, LenProperties DEF PoolInv
<1>4. PutBack' = {} /\ NotYet' = TxsOf(tip) /\ Coins' = CoinsOf[Parent[tip]] /\ vHashUpdate' \in Seq(Txs)
  BY <1>1, <1>3 DEF PutBack, ToSet, NotYet, TxsOf, Items, Coins
<1>5. ASSUME ~cut PROVE LinksMade(mempool, {}) /\ InputsKnown(CoinsOf[Parent[tip]], mempool, {}, TxsOf(tip))
  <2>1. LinksMade(mempool, {}) /\ InputsKnown(CoinsOf[tip], mempool, {}, {})
    BY <1>2, <1>5 DEF PoolRests
  <2>2. CoinsOf[tip] = Effect(CoinsOf[Parent[tip]], tip)
    BY <1>1, <1>3, CoinsOfBlock
  <2> QED BY <1>3, <2>1, <2>2, DisconnectedInputs
<1> QED BY <1>1, <1>3, <1>4, <1>5 DEF PoolInv, Steps

LEMMA RelinkInv ==
    ASSUME PoolInv, Relink
    PROVE  PoolInv'
<1> DEFINE r == UpdateTransactionsFromBlock(mempool, vHashUpdate)
<1>1. /\ step = "resurrect" /\ next > Len(Vtx[tip]) /\ mempool' = r /\ tip' = Parent[tip]
      /\ step' = "reorg" /\ next' = 1 /\ vHashUpdate' = <<>> /\ UNCHANGED <<mapDeltas, cut>>
  BY DEF Relink
<1>2. PoolSound(mempool) /\ vHashUpdate \in Seq(Txs) /\ tip \in Blocks /\ tip # Genesis
      /\ next \in Nat /\ Len(Vtx[tip]) \in Nat
  BY <1>1, VtxAssumption, LenProperties DEF PoolInv
<1>3. MoreLinks(mempool, r) /\ (LinksMade(mempool, PutBack) => LinksMade(r, {}))
  BY <1>2, BlockRelinked DEF PutBack
<1> HIDE DEF r
<1>4. Parent[tip] \in Blocks
  BY <1>2, ParentAssumption
<1>5. Coins = CoinsOf[Parent[tip]] /\ NotYet = {}
  BY <1>1, <1>2 DEF Coins, NotYet
<1>6. ASSUME ~cut PROVE PoolRests(CoinsOf[Parent[tip]], r)
  <2>1. LinksMade(mempool, PutBack) /\ InputsKnown(Coins, mempool, PutBack, {})
    BY <1>5, <1>6 DEF PoolInv
  <2>2. InputsKnown(Coins, mempool, {}, {})
    BY <2>1 DEF InputsKnown
  <2>3. InputsKnown(Coins, r, {}, {})
    BY <1>3, <2>2, MoreLinksInputs
  <2> QED BY <1>3, <1>5, <2>1, <2>3 DEF PoolRests
<1>7. PoolSound(r) /\ r.txs = mempool.txs
  BY <1>3 DEF MoreLinks
<1> QED BY <1>1, <1>4, <1>6, <1>7, InvResting DEF PoolInv, Steps

\* At the end of a reorganisation nothing is left that removeForReorg would remove,
\* and nothing has lost an input.
LEMMA EndReorgDrops ==
    ASSUME NEW m, PoolSound(m), Cardinality(m.txs) <= MaxPool, NEW X, Linkable(m, X),
           NEW r \in AfterReorg(m) \cup AfterInvalidate(m)
    PROVE  /\ Drops(m, r, X) /\ Cardinality(r.txs) <= MaxPool
           /\ \E k : Drops(m, k, X) /\ r.txs \subseteq k.txs /\ Drops(k, r, X) /\ \A x \in r.txs : ~Stale(k, x)
<1> DEFINE S(k) == {x \in k.txs : Stale(k, x)}
<1>0. Cardinality(m.txs) <= MaxPool + 1 /\ Cardinality(m.txs) \in Nat /\ MaxPool \in Nat
  BY FS_CardinalityType, LimitsAssumption DEF PoolSound
<1>r. ASSUME NEW k, PoolSound(k), Linkable(k, X)
      PROVE  Drops(k, removeForReorg(k), X) /\ \A x \in removeForReorg(k).txs : ~Stale(k, x)
  <2>1. S(k) \in SUBSET k.txs /\ removeForReorg(k) = RemoveAll(k, S(k))
    BY DEF removeForReorg
  <2>2. Drops(k, RemoveAll(k, S(k)), X) /\ RemoveAll(k, S(k)).txs \cap S(k) = {}
    <3> HIDE DEF S
    <3> QED BY <1>r, <2>1, AllRemoved
  <2> QED BY <2>1, <2>2 DEF Drops
<1>1. CASE r \in AfterReorg(m)
  <2> DEFINE k == removeForReorg(m)
  <2>1. Drops(m, k, X) /\ \A x \in k.txs : ~Stale(m, x)
    BY <1>r
  <2>2. r \in LimitMempoolSize(k, {})
    BY <1>1 DEF AfterReorg
  <2> HIDE DEF k
  <2>3. PoolSound(k) /\ Linkable(k, X)
    BY <2>1, DropsLinkable DEF Drops
  <2>4. Cardinality(k.txs) <= MaxPool + 1
    <3>1. Cardinality(k.txs) <= Cardinality(m.txs) /\ Cardinality(k.txs) \in Nat
      BY <2>1, DropsFewer
    <3> QED BY <1>0, <3>1
  <2>5. Drops(k, r, X) /\ Cardinality(r.txs) <= MaxPool
    BY <2>2, <2>3, <2>4, LimitDrops
  <2>6. Drops(m, r, X) /\ r.txs \subseteq m.txs /\ r.txs \subseteq k.txs
    BY <2>1, <2>5, DropsTwice DEF Drops
  <2>7. Drops(m, m, X) /\ \A x \in r.txs : ~Stale(m, x)
    BY <2>1, <2>6, DropsNothing
  <2> QED BY <2>5, <2>6, <2>7
<1>2. CASE r \in AfterInvalidate(m)
  <2>1. PICK k \in LimitMempoolSize(m, {}) : r = removeForReorg(k)
    BY <1>2 DEF AfterInvalidate
  <2>2. Drops(m, k, X) /\ Cardinality(k.txs) <= MaxPool
    BY <1>0, LimitDrops
  <2>3. PoolSound(k) /\ Linkable(k, X)
    BY <2>2, DropsLinkable DEF Drops
  <2>4. Drops(k, r, X) /\ \A x \in r.txs : ~Stale(k, x)
    BY <1>r, <2>1, <2>3
  <2>5. Drops(m, r, X) /\ r.txs \subseteq k.txs
    BY <2>2, <2>4, DropsTwice DEF Drops
  <2>6. Cardinality(r.txs) <= MaxPool
    <3>1. Cardinality(r.txs) <= Cardinality(k.txs) /\ Cardinality(r.txs) \in Nat /\ Cardinality(k.txs) \in Nat
      BY <2>3, <2>4, DropsFewer
    <3> QED BY <1>0, <2>2, <3>1
  <2> QED BY <2>2, <2>4, <2>5, <2>6
<1> QED BY <1>1, <1>2

LEMMA EndReorgInv ==
    ASSUME PoolInv, EndReorg
    PROVE  PoolInv'
<1>1. /\ step = "reorg" /\ mempool' \in AfterReorg(mempool) \cup AfterInvalidate(mempool) /\ step' = "idle"
      /\ UNCHANGED <<mapDeltas, tip, next, vHashUpdate, cut>>
  BY DEF EndReorg
<1>2. Coins = CoinsOf[tip] /\ next = 1 /\ vHashUpdate = <<>> /\ (~cut => PoolRests(CoinsOf[tip], mempool))
  BY <1>1, RestingInv
<1>3. PoolSound(mempool) /\ Cardinality(mempool.txs) <= MaxPool
  BY DEF PoolInv
<1>4. Drops(mempool, mempool', Txs) /\ Cardinality(mempool'.txs) <= MaxPool
  BY <1>1, <1>3, AnyLinkable, EndReorgDrops
<1>5. ASSUME ~cut PROVE PoolRests(CoinsOf[tip], mempool')
  <2>1. PoolRests(CoinsOf[tip], mempool) /\ Linkable(mempool, {})
    BY <1>2, <1>5, MadeLinkable DEF PoolRests
  <2>2. Drops(mempool, mempool', {})
    BY <1>1, <1>3, <2>1, EndReorgDrops
  <2> QED BY <2>1, <2>2, DropsRests
<1>6. PoolSound(mempool')
  BY <1>4 DEF Drops
<1> QED BY <1>1, <1>2, <1>4, <1>5, <1>6, InvResting DEF PoolInv, Steps

\* The three ways a turn of DisconnectTip's loop ends, for the pool m and the set U of
\* what was put back before: what is left is m', and U' has been put back.
LEMMA PutBackInputs ==
    ASSUME NEW m, PoolSound(m), Cardinality(m.txs) <= MaxPool, NEW x \in Txs, Admissible(m, x), NEW young,
           NEW r \in LimitMempoolSize(Entered(m, x), young), NEW U \in SUBSET m.txs, NEW Q,
           LinksMade(m, U), InputsKnown(Coins, m, U, Q), U \cup {x} \subseteq r.txs
    PROVE  LinksMade(r, U \cup {x}) /\ InputsKnown(Coins, r, U \cup {x}, Q \ {x})
<1> DEFINE e == Entered(m, x)
           W == U \cup {x}
<1>1. Drops(e, r, W) /\ LinksMade(r, W) /\ InputsKnown(Coins, e, W, Q \ {x})
  BY AcceptedInputs
<1> HIDE DEF e
<1>2. \A p \in e.txs \ r.txs : \A y \in r.txs : p \notin Prevs(y)
  BY <1>1 DEF Drops
<1> QED BY <1>1, <1>2, DropsInputs

LEMMA TrimmedInputs ==
    ASSUME NEW m, PoolSound(m), Cardinality(m.txs) <= MaxPool, NEW x \in Txs, Admissible(m, x), NEW young,
           NEW r \in LimitMempoolSize(Entered(m, x), young), NEW U \in SUBSET m.txs, NEW Q,
           LinksMade(m, U), InputsKnown(Coins, m, U, Q), x \notin r.txs, U \subseteq removeRecursive(r, x).txs
    PROVE  LinksMade(removeRecursive(r, x), U) /\ InputsKnown(Coins, removeRecursive(r, x), U, Q \ {x})
<1> DEFINE e == Entered(m, x)
           W == U \cup {x}
           f == removeRecursive(r, x)
<1>0. PoolSound(r)
  BY AcceptedSound
<1>1. U \subseteq r.txs
  <2>1. Drops(r, f, Txs)
    BY <1>0, AnyLinkable, RemoveRecursiveDrops
  <2> QED BY <2>1 DEF Drops
<1>2. Drops(e, r, W) /\ LinksMade(r, W) /\ InputsKnown(Coins, e, W, Q \ {x})
  BY <1>1, AcceptedInputs
<1> HIDE DEF e
<1>3. LinksMade(r, U)
  BY <1>2 DEF LinksMade
<1>4. Drops(r, f, U) /\ \A y \in f.txs : x \notin Prevs(y)
  BY <1>0, <1>3, MadeLinkable, RemoveRecursiveDrops
<1>5. LinksMade(f, U)
  BY <1>3, <1>4, DropsLinks
<1> HIDE DEF f
<1>6. Drops(e, f, W)
  BY <1>2, <1>4, DropsMore, DropsTwice
<1>7. \A p \in e.txs \ f.txs : \A y \in f.txs : p \notin Prevs(y)
  BY <1>4, <1>6 DEF Drops, f
<1>8. InputsKnown(Coins, f, W, Q \ {x})
  BY <1>2, <1>6, <1>7, DropsInputs
<1>9. InputsKnown(Coins, f, U, Q \ {x})
  BY <1>8 DEF InputsKnown
<1> QED BY <1>5, <1>9 DEF f

LEMMA TurnedDownInputs ==
    ASSUME NEW m, PoolSound(m), NEW x \in Txs, NEW U \in SUBSET m.txs, x \notin U, NEW Q,
           LinksMade(m, U), InputsKnown(Coins, m, U, Q), U \subseteq removeRecursive(m, x).txs
    PROVE  LinksMade(removeRecursive(m, x), U) /\ InputsKnown(Coins, removeRecursive(m, x), U, Q \ {x})
<1> DEFINE f == removeRecursive(m, x)
<1>1. Drops(m, f, U) /\ \A y \in f.txs : x \notin Prevs(y)
  BY MadeLinkable, RemoveRecursiveDrops
<1>2. LinksMade(f, U)
  BY <1>1, DropsLinks
<1> HIDE DEF f
<1>3. \A p \in m.txs \ f.txs : \A y \in f.txs : p \notin Prevs(y)
  BY <1>1 DEF Drops, f
<1>4. InputsKnown(Coins, f, U, Q)
  BY <1>1, <1>3, DropsInputs
<1>5. InputsKnown(Coins, f, U, Q \ {x})
  BY <1>1, <1>4 DEF InputsKnown, Prevs
<1> QED BY <1>2, <1>5 DEF f

LEMMA ResurrectInv ==
    ASSUME PoolInv, Resurrect
    PROVE  PoolInv'
<1> DEFINE x == Vtx[tip][next]
           young == {x} \cup ToSet(vHashUpdate)
<1>1. /\ step = "resurrect" /\ next <= Len(Vtx[tip]) /\ next' = next + 1
      /\ cut' = (cut \/ ~(PutBack \subseteq mempool'.txs))
      /\ UNCHANGED <<mapDeltas, tip, step>>
  BY DEF Resurrect, PutBack
<1>2. /\ PoolSound(mempool) /\ Cardinality(mempool.txs) <= MaxPool /\ tip \in Blocks /\ tip # Genesis
      /\ next \in 1..(Len(Vtx[tip]) + 1) /\ Len(Vtx[tip]) \in Nat /\ DOMAIN Vtx[tip] = 1..Len(Vtx[tip])
      /\ vHashUpdate \in Seq(Txs) /\ PutBack \subseteq {Vtx[tip][j] : j \in 1..(next - 1)}
      /\ cut \in BOOLEAN
  BY <1>1, VtxAssumption, LenProperties DEF PoolInv
<1>3. next \in 1..Len(Vtx[tip]) /\ x \in Txs
  BY <1>1, <1>2, VtxAssumption, ElementOfSeq
<1>4. \A j \in 1..Len(Vtx[tip]) : Vtx[tip][j] = x => j = next
  BY <1>2, <1>3, VtxAssumption
<1>5. x \notin PutBack
  <2>1. \A j \in 1..(next - 1) : j \in 1..Len(Vtx[tip]) /\ j # next
    BY <1>3
  <2> QED BY <1>2, <1>4, <2>1
<1>6. NotYet' = NotYet \ {x}
  <2>1. NotYet = {Vtx[tip][j] : j \in next..Len(Vtx[tip])} /\ NotYet' = {Vtx[tip][j] : j \in (next + 1)..Len(Vtx[tip])}
    BY <1>1 DEF NotYet
  <2>2. \A j \in next..Len(Vtx[tip]) : j \in 1..Len(Vtx[tip]) /\ (j = next \/ j \in (next + 1)..Len(Vtx[tip]))
    BY <1>3
  <2>3. \A j \in (next + 1)..Len(Vtx[tip]) : j \in next..Len(Vtx[tip]) /\ j # next /\ j \in 1..Len(Vtx[tip])
    BY <1>3
  <2> QED BY <1>4, <2>1, <2>2, <2>3
<1>7. Coins' = Coins
  BY <1>1 DEF Coins
<1> HIDE DEF x
<1>8. ~cut' => ~cut /\ PutBack \subseteq mempool'.txs
  BY <1>1, <1>2
<1>9. ~cut => PutBack \in SUBSET mempool.txs /\ LinksMade(mempool, PutBack)
              /\ InputsKnown(Coins, mempool, PutBack, NotYet)
  BY DEF PoolInv
\* What is left to show, once it is known what was put back
<1>10. ASSUME PoolSound(mempool'), Cardinality(mempool'.txs) <= MaxPool,
              vHashUpdate' \in Seq(Txs), PutBack' \subseteq PutBack \cup {x},
              ~cut' => PutBack' \subseteq mempool'.txs /\ LinksMade(mempool', PutBack')
                       /\ InputsKnown(Coins, mempool', PutBack', NotYet \ {x})
       PROVE  PoolInv'
  <2>1. PutBack' \subseteq {Vtx[tip][j] : j \in 1..(next' - 1)}
    <3>1. \A j \in 1..(next - 1) : j \in 1..(next' - 1)
      BY <1>1, <1>3
    <3>2. next \in 1..(next' - 1) /\ x = Vtx[tip][next]
      BY <1>1, <1>3 DEF x
    <3> QED BY <1>2, <1>10, <3>1, <3>2
  <2>2. next' \in 1..(Len(Vtx[tip']) + 1)
    BY <1>1, <1>3
  <2>3. cut' \in BOOLEAN
    BY <1>1
  <2>4. /\ mapDeltas' \in [Txs -> {0, FeeDelta}] /\ tip' \in Blocks /\ step' \in Steps
        /\ step' = "resurrect" /\ tip' # Genesis /\ tip' = tip
    BY <1>1, <1>2 DEF PoolInv
  <2> QED BY <1>6, <1>7, <1>10, <2>1, <2>2, <2>3, <2>4 DEF PoolInv
<1>11. ASSUME Admissible(mempool, x), NEW r \in LimitMempoolSize(Entered(mempool, x), young),
              x \in r.txs, mempool' = r, vHashUpdate' = Append(vHashUpdate, x)
       PROVE  PoolInv'
  <2>1. PoolSound(r) /\ Cardinality(r.txs) <= MaxPool
    BY <1>2, <1>3, <1>11, AcceptedSound
  <2>2. vHashUpdate' \in Seq(Txs) /\ PutBack' = PutBack \cup {x}
    <3>1. vHashUpdate' \in Seq(Txs) /\ Len(vHashUpdate') = Len(vHashUpdate) + 1
          /\ (\A j \in 1..Len(vHashUpdate) : vHashUpdate'[j] = vHashUpdate[j])
          /\ vHashUpdate'[Len(vHashUpdate) + 1] = x
      BY <1>2, <1>3, <1>11, AppendProperties
    <3>2. Len(vHashUpdate) \in Nat /\ DOMAIN vHashUpdate = 1..Len(vHashUpdate)
          /\ DOMAIN vHashUpdate' = 1..(Len(vHashUpdate) + 1)
      BY <1>2, <3>1, LenProperties
    <3>3. \A j \in 1..(Len(vHashUpdate) + 1) : j \in 1..Len(vHashUpdate) \/ j = Len(vHashUpdate) + 1
      BY <3>2
    <3>4. \A j \in 1..Len(vHashUpdate) : j \in 1..(Len(vHashUpdate) + 1)
      BY <3>2
    <3>5. Len(vHashUpdate) + 1 \in 1..(Len(vHashUpdate) + 1)
      BY <3>2
    <3>6. PutBack' = {vHashUpdate'[j] : j \in 1..(Len(vHashUpdate) + 1)} /\ PutBack = {vHashUpdate[j] : j \in 1..Len(vHashUpdate)}
      BY <3>2 DEF PutBack, ToSet
    <3>7. PutBack' = PutBack \cup {x}
      BY <3>1, <3>3, <3>4, <3>5, <3>6
    <3> QED BY <3>1, <3>7
  <2>3. ASSUME ~cut' PROVE PutBack' \subseteq mempool'.txs /\ LinksMade(mempool', PutBack')
                           /\ InputsKnown(Coins, mempool', PutBack', NotYet \ {x})
    <3>1. PutBack \cup {x} \subseteq r.txs
      BY <1>8, <1>11, <2>3
    <3>2. LinksMade(r, PutBack \cup {x}) /\ InputsKnown(Coins, r, PutBack \cup {x}, NotYet \ {x})
      BY <1>2, <1>3, <1>8, <1>9, <1>11, <2>3, <3>1, PutBackInputs
    <3> QED BY <1>11, <2>2, <3>1, <3>2
  <2> QED BY <1>10, <1>11, <2>1, <2>2, <2>3
<1>12. ASSUME Admissible(mempool, x), NEW r \in LimitMempoolSize(Entered(mempool, x), young),
              x \notin r.txs, mempool' = removeRecursive(r, x), vHashUpdate' = vHashUpdate
       PROVE  PoolInv'
  <2>1. PoolSound(r) /\ Cardinality(r.txs) <= MaxPool
    BY <1>2, <1>3, <1>12, AcceptedSound
  <2>2. Drops(r, mempool', Txs)
    BY <1>3, <1>12, <2>1, AnyLinkable, RemoveRecursiveDrops
  <2>3. PoolSound(mempool') /\ Cardinality(mempool'.txs) <= MaxPool
    <3>1. Cardinality(mempool'.txs) <= Cardinality(r.txs) /\ Cardinality(r.txs) \in Nat /\ Cardinality(mempool'.txs) \in Nat
      BY <2>1, <2>2, DropsFewer
    <3> QED BY <2>1, <2>2, <3>1, LimitsAssumption DEF Drops
  <2>4. PutBack' = PutBack /\ vHashUpdate' \in Seq(Txs)
    BY <1>2, <1>12 DEF PutBack
  <2>5. ~cut' => LinksMade(mempool', PutBack) /\ InputsKnown(Coins, mempool', PutBack, NotYet \ {x})
    BY <1>2, <1>3, <1>8, <1>9, <1>12, TrimmedInputs
  <2> QED BY <1>8, <1>10, <2>3, <2>4, <2>5
<1>13. ASSUME mempool' = removeRecursive(mempool, x), vHashUpdate' = vHashUpdate
       PROVE  PoolInv'
  <2>1. Drops(mempool, mempool', Txs)
    BY <1>2, <1>3, <1>13, AnyLinkable, RemoveRecursiveDrops
  <2>2. PoolSound(mempool') /\ Cardinality(mempool'.txs) <= MaxPool
    <3>1. Cardinality(mempool'.txs) <= Cardinality(mempool.txs) /\ Cardinality(mempool.txs) \in Nat
          /\ Cardinality(mempool'.txs) \in Nat
      BY <1>2, <2>1, DropsFewer
    <3> QED BY <1>2, <2>1, <3>1, LimitsAssumption DEF Drops
  <2>3. PutBack' = PutBack /\ vHashUpdate' \in Seq(Txs)
    BY <1>2, <1>13 DEF PutBack
  <2>4. ~cut' => LinksMade(mempool', PutBack) /\ InputsKnown(Coins, mempool', PutBack, NotYet \ {x})
    BY <1>2, <1>3, <1>5, <1>8, <1>9, <1>13, TurnedDownInputs
  <2> QED BY <1>8, <1>10, <2>2, <2>3, <2>4
<1>14. \/ /\ Admissible(mempool, x)
          /\ \E r \in LimitMempoolSize(Entered(mempool, x), young) :
                /\ mempool' = IF x \in r.txs THEN r ELSE removeRecursive(r, x)
                /\ vHashUpdate' = IF x \in r.txs THEN Append(vHashUpdate, x) ELSE vHashUpdate
       \/ mempool' = removeRecursive(mempool, x) /\ vHashUpdate' = vHashUpdate
  BY DEF Resurrect, x
<1> HIDE DEF young
<1> QED BY <1>11, <1>12, <1>13, <1>14

LEMMA PoolInit == Init => PoolInv
<1> SUFFICES ASSUME Init PROVE PoolInv
  OBVIOUS
<1>1. /\ mempool = EmptyPool /\ mempool.txs = {} /\ mempool.parents = [x \in Txs |-> {}]
      /\ mempool.children = [x \in Txs |-> {}] /\ mempool.mapNextTx = [o \in Outpoint |-> None]
      /\ mempool.count = [x \in Txs |-> 0] /\ mempool.fees = [x \in Txs |-> 0]
  BY DEF Init, EmptyPool
<1>2. PoolSound(mempool)
  <2>1. PoolShape(mempool)
    BY <1>1 DEF EmptyPool, PoolShape
  <2> QED BY <1>1, <2>1, FS_EmptySet DEF PoolSound, NothingLeft, LinksReal, SpendsReal
<1>3. Cardinality(mempool.txs) <= MaxPool
  BY <1>1, FS_EmptySet, LimitsAssumption
<1>4. step = "idle" /\ next = 1 /\ vHashUpdate = <<>> /\ tip = Genesis /\ cut = FALSE
      /\ mapDeltas = [x \in Txs |-> 0]
  BY DEF Init
<1>5. Len(Vtx[tip]) \in Nat /\ tip \in Blocks
  BY <1>4, BlocksAssumption, VtxAssumption, LenProperties
<1>6. PutBack = {} /\ vHashUpdate \in Seq(Txs)
  BY <1>4 DEF PutBack, ToSet
<1>7. LinksMade(mempool, PutBack) /\ InputsKnown(Coins, mempool, PutBack, NotYet)
  BY <1>1 DEF LinksMade, InputsKnown
<1>8. mapDeltas \in [Txs -> {0, FeeDelta}] /\ next \in 1..(Len(Vtx[tip]) + 1)
  BY <1>4, <1>5
<1> QED BY <1>2, <1>3, <1>4, <1>5, <1>6, <1>7, <1>8 DEF PoolInv, Steps

LEMMA PoolNext == PoolInv /\ [Next]_vars => PoolInv'
<1> SUFFICES ASSUME PoolInv, [Next]_vars PROVE PoolInv'
  OBVIOUS
<1>1. ASSUME NEW x \in Txs, AcceptToMemoryPool(x) PROVE PoolInv'
  BY <1>1, AcceptInv DEF AcceptToMemoryPool, ForPool
<1>2. ASSUME NEW x \in Txs, PrioritiseTransaction(x) PROVE PoolInv'
  BY <1>2, PrioritiseInv
<1>3. ASSUME NEW b \in Blocks, ConnectTip(b) PROVE PoolInv'
  BY <1>3, ConnectTipInv
<1>4. CASE DisconnectTip
  BY <1>4, DisconnectTipInv
<1>5. CASE Resurrect
  BY <1>5, ResurrectInv
<1>6. CASE Relink
  BY <1>6, RelinkInv
<1>7. CASE EndReorg
  BY <1>7, EndReorgInv
<1>8. CASE UNCHANGED vars
  <2>1. UNCHANGED <<mempool, mapDeltas, tip, step, next, vHashUpdate, cut>>
    BY <1>8 DEF vars
  <2>2. PutBack' = PutBack /\ NotYet' = NotYet /\ Coins' = Coins
    BY <2>1 DEF PutBack, NotYet, Coins
  <2> QED BY <2>1, <2>2 DEF PoolInv
<1> QED BY <1>1, <1>2, <1>3, <1>4, <1>5, <1>6, <1>7, <1>8 DEF Next

LEMMA PoolInvConsistent == PoolInv => PoolConsistent
<1> SUFFICES ASSUME PoolInv PROVE PoolConsistent
  OBVIOUS
<1>1. PoolSound(mempool)
  BY DEF PoolInv
<1>2. TypeOK
  BY <1>1 DEF PoolInv, PoolSound, NothingLeft, TypeOK
<1>3. ASSUME ~cut, step # "resurrect"
      PROVE  LinksMade(mempool, {}) /\ InputsKnown(Coins, mempool, {}, {})
  BY <1>3, RestingInv DEF PoolRests
<1>4. InputsAvailableUnlessCut
  BY <1>3 DEF InputsAvailableUnlessCut, InputsAvailable, InputsKnown, InputIn, HaveInput
<1>5. SpendersExact
  <2>1. SpendsReal(mempool) /\ mempool.mapNextTx \in [Outpoint -> mempool.txs \cup {None}]
        /\ mempool.txs \subseteq Txs
    BY <1>1 DEF PoolSound
  <2> QED BY <2>1, NoneAssumption DEF SpendersExact, SpendsReal
<1>6. LinksExact
  <2> SUFFICES ASSUME ~cut, step # "resurrect", NEW x \in mempool.txs
               PROVE  /\ mempool.parents[x] = PoolParents(mempool, x)
                      /\ mempool.children[x] = {y \in mempool.txs : x \in Prevs(y)}
    BY DEF LinksExact
  <2>1. \A p, y \in mempool.txs : p \in Prevs(y) <=> y \in mempool.children[p]
    BY <1>1, <1>3 DEF LinksMade, PoolSound, LinksReal
  <2>2. \A p \in mempool.txs : p \in Prevs(x) <=> p \in mempool.parents[x]
    BY <1>1, <2>1 DEF PoolSound, LinksReal
  <2>3. mempool.parents[x] \subseteq mempool.txs /\ mempool.children[x] \subseteq mempool.txs
    BY <1>1 DEF PoolSound
  <2> QED BY <2>1, <2>2, <2>3 DEF PoolParents
<1> QED BY <1>2, <1>4, <1>5, <1>6 DEF PoolConsistent

\* The pool holds no two spenders of one output, mapLinks is the relation between its
\* transactions and every input is there, whatever was accepted, replaced, trimmed,
\* mined, disconnected and put back before.
THEOREM PoolStaysConsistent == Spec => []PoolConsistent
BY PoolInit, PoolNext, PoolInvConsistent, PTL DEF Spec

-----------------------------------------------------------------------------
(* What the handler of TX messages does to the pool is what the pool allows.  *)

\* The handler runs its loop to the end before anything else happens to the chain.
QueueIdle == vWorkQueue # <<>> => step = "idle"
QueueInv  == OrphanInv /\ QueueIdle

\* A step of the handler is one call of AcceptToMemoryPool or none.
LEMMA RelayStep ==
    ASSUME QueueInv, [RelayNext]_relayVars
    PROVE  QueueInv' /\ [Next]_vars
<1>0. OrphanInv /\ OrphanInv' /\ QueueIdle
  BY OrphanNext DEF QueueInv
<1>1. todo # {} => vWorkQueue # <<>> /\ step = "idle"
  BY <1>0 DEF QueueIdle, OrphanInv
<1>2. ASSUME vWorkQueue = <<>> /\ Next /\ UNCHANGED <<orphanMaps, loop>> PROVE QueueIdle' /\ [Next]_vars
  BY <1>2 DEF QueueIdle, loop
<1>3. ASSUME NEW x \in Txs, TxAccepted(x) PROVE QueueIdle' /\ [Next]_vars
  <2>1. AcceptToMemoryPool(x) /\ step' = "idle"
    BY <1>3 DEF TxAccepted, AcceptToMemoryPool, Free, ForPool
  <2> QED BY <2>1 DEF QueueIdle, Next
<1>4. ASSUME NEW y \in Txs, OrphanAccepted(y) PROVE QueueIdle' /\ [Next]_vars
  <2>1. step = "idle"
    BY <1>1, <1>4 DEF OrphanAccepted
  <2>2. AcceptToMemoryPool(y) /\ step' = "idle"
    BY <1>4, <2>1 DEF OrphanAccepted, AcceptToMemoryPool, ForPool
  <2> QED BY <2>2 DEF QueueIdle, Next
<1>5. ASSUME UNCHANGED vars, vWorkQueue' = <<>> \/ step = "idle" \/ vWorkQueue' = vWorkQueue
      PROVE  QueueIdle' /\ [Next]_vars
  <2>1. step' = step
    BY <1>5 DEF vars
  <2> QED BY <1>0, <1>5, <2>1 DEF QueueIdle
<1>6. ASSUME NEW x \in Txs, NEW p \in Peers, TxMissingInputs(x, p) PROVE QueueIdle' /\ [Next]_vars
  <2>1. UNCHANGED vars /\ step = "idle"
    BY <1>6 DEF TxMissingInputs, Free
  <2> QED BY <1>5, <2>1
<1>7. ASSUME NEW y \in Txs, OrphanRejected(y) \/ OrphanSkipped(y) PROVE QueueIdle' /\ [Next]_vars
  <2>1. UNCHANGED vars /\ vWorkQueue' = vWorkQueue
    BY <1>7 DEF OrphanRejected, OrphanSkipped
  <2> QED BY <1>5, <2>1
<1>8. ASSUME NextInQueue PROVE QueueIdle' /\ [Next]_vars
  <2>1. UNCHANGED vars /\ vWorkQueue' = vWorkQueue
    BY <1>8 DEF NextInQueue
  <2> QED BY <1>5, <2>1
<1>9. ASSUME EraseQueue PROVE QueueIdle' /\ [Next]_vars
  <2>1. UNCHANGED vars /\ vWorkQueue' = <<>>
    BY <1>9 DEF EraseQueue
  <2> QED BY <1>5, <2>1
<1>10. ASSUME NEW p \in Peers, EraseOrphansFor(p) PROVE QueueIdle' /\ [Next]_vars
  <2>1. UNCHANGED vars /\ step = "idle"
    BY <1>10 DEF EraseOrphansFor, Free
  <2> QED BY <1>5, <2>1
<1>11. ASSUME UNCHANGED relayVars PROVE QueueIdle' /\ [Next]_vars
  <2>1. UNCHANGED vars /\ vWorkQueue' = vWorkQueue
    BY <1>11 DEF relayVars, loop
  <2> QED BY <1>5, <2>1
<1>12. QueueIdle' /\ [Next]_vars
  <2>1. RelayNext => QueueIdle' /\ [Next]_vars
    BY <1>2, <1>3, <1>4, <1>6, <1>7, <1>8, <1>9, <1>10, Zenon DEF RelayNext
  <2> QED BY <1>11, <2>1
<1> QED BY <1>0, <1>12 DEF QueueInv

\* Whatever peers send, the pool goes only through the states and steps of the pool's
\* own specification: what is proved of it holds also with the loop over orphans.
THEOREM RelayRefinesPool == RelaySpec => Spec
<1>1. RelayInit => QueueInv /\ Init
  BY OrphanInit DEF RelayInit, QueueInv, QueueIdle
<1>2. QueueInv /\ [RelayNext]_relayVars => QueueInv' /\ [Next]_vars
  BY RelayStep
<1> QED BY <1>1, <1>2, PTL DEF RelaySpec, Spec

-----------------------------------------------------------------------------
(* All of the pool could be in the next block.                                *)

\* Coins have a height, by the lowest block after which one has none.
LEMMA CoinHeights == \A b \in Blocks : \A x \in Txs : CoinsOf[b][x].height \in Nat
<1> DEFINE Bad == {b \in Blocks : \E x \in Txs : CoinsOf[b][x].height \notin Nat}
<1> SUFFICES ASSUME Bad # {} PROVE FALSE
  OBVIOUS
<1>1. PICK b \in Bad : \A y \in Bad : Height[b] <= Height[y]
  <2>1. Bad \in SUBSET Blocks
    OBVIOUS
  <2> HIDE DEF Bad
  <2> QED BY <2>1, LowestBlock
<1>2. PICK x \in Txs : CoinsOf[b][x].height \notin Nat
  BY <1>1
<1>3. b # Genesis
  BY <1>2, CoinsOfBlock DEF NoCoins, Pruned
<1>4. Parent[b] \in Blocks /\ Height[b] \in Nat /\ Height[Parent[b]] \in Nat /\ Height[b] = Height[Parent[b]] + 1
  BY <1>3, ParentAssumption, HeightAssumption
<1>5. CoinsOf[Parent[b]][x].height \in Nat
  BY <1>1, <1>4
<1> DEFINE c == CoinsOf[Parent[b]]
<1>6. CoinsOf[b] = Effect(c, b)
  BY <1>3, CoinsOfBlock
<1> HIDE DEF c
<1>7. Effect(c, b)[x] \in {Pruned, [height |-> IF x \in TxsOf(b) THEN Height[b] ELSE c[x].height,
                                    outs |-> Effect(c, b)[x].outs]}
  BY DEF Effect, Coin
<1>8. Effect(c, b)[x].height \in {0, Height[b], c[x].height}
  BY <1>7 DEF Pruned
<1> QED BY <1>2, <1>4, <1>5, <1>6, <1>8 DEF c

\* What the transactions of m need of the chain that ends in block t is old enough.
Ripe(m, t) ==
    \A x \in m.txs :
        /\ LockTime[x] <= Height[t]
        /\ \A o \in Prevouts(x) :
              IsCoinBase(o[1]) => ~((Height[t] + 1) - CoinsOf[t][o[1]].height < Maturity)

\* Immature, while no block is being disconnected
LEMMA ImmatureAtTip ==
    ASSUME step # "resurrect", NEW o
    PROVE  Immature(o) <=> IsCoinBase(o[1]) /\ (Height[tip] + 1) - CoinsOf[tip][o[1]].height < Maturity
<1>1. Coins = CoinsOf[tip] /\ SpendHeight = Height[tip] + 1
  BY DEF Coins, SpendHeight
<1>2. Immature(o) <=> IsCoinBase(o[1]) /\ SpendHeight - Coins[o[1]].height < Maturity
  BY DEF Immature
<1>3. SpendHeight - Coins[o[1]].height = (Height[tip] + 1) - CoinsOf[tip][o[1]].height
  BY <1>1
<1> QED BY <1>2, <1>3

MinableInv == PoolInv /\ (~cut /\ step = "idle" => Ripe(mempool, tip))

LEMMA ConnectedRipe ==
    ASSUME PoolInv, NEW b \in Blocks, ConnectTip(b), ~cut, Ripe(mempool, tip)
    PROVE  Ripe(mempool', b)
<1>1. /\ b # Genesis /\ Parent[b] = tip /\ Acceptable(Coins, b) /\ tip' = b /\ step \in {"idle", "reorg"}
      /\ UNCHANGED <<step, cut>>
  BY DEF ConnectTip
<1>2. PoolInv'
  BY ConnectTipInv
<1>3. Coins = CoinsOf[tip] /\ CoinsOf[b] = Effect(Coins, b) /\ InputsKnown(CoinsOf[tip], mempool, {}, {})
  BY <1>1, RestingInv, CoinsOfBlock DEF PoolRests
<1>4. InputsKnown(CoinsOf[b], mempool', {}, {})
  <2>1. Coins' = CoinsOf[b] /\ PutBack' = {} /\ NotYet' = {}
    <3>1. vHashUpdate' = <<>> /\ step' # "resurrect"
      BY <1>1, <1>2 DEF PoolInv
    <3> QED BY <1>1, <3>1 DEF Coins, PutBack, NotYet, ToSet
  <2> QED BY <1>1, <1>2, <2>1 DEF PoolInv
<1>5. mempool'.txs \subseteq mempool.txs
  <2>1. PoolSound(mempool) /\ Txs \cup TxsOf(b) \subseteq Txs
    BY VtxAssumption, ElementOfSeq DEF PoolInv, TxsOf, Items
  <2>2. Drops(mempool, removeForBlock(mempool, b).m, Txs)
    BY <2>1, AnyLinkable, BlockRemoved
  <2> QED BY <2>2 DEF Drops, ConnectTip
<1>6. Height[b] = Height[tip] + 1 /\ Height[tip] \in Nat /\ Maturity \in Nat
  BY <1>1, HeightAssumption, ParentAssumption, LimitsAssumption
<1> SUFFICES ASSUME NEW x \in mempool'.txs
             PROVE  /\ LockTime[x] <= Height[b]
                    /\ \A o \in Prevouts(x) :
                          IsCoinBase(o[1]) => ~((Height[b] + 1) - CoinsOf[b][o[1]].height < Maturity)
  BY DEF Ripe
<1>7. x \in mempool.txs /\ x \in Txs /\ LockTime[x] \in Nat
  BY <1>5, FeeAssumption DEF PoolInv, PoolSound
<1>8. LockTime[x] <= Height[b]
  BY <1>6, <1>7 DEF Ripe
<1>9. ASSUME NEW o \in Prevouts(x), IsCoinBase(o[1])
      PROVE  ~((Height[b] + 1) - CoinsOf[b][o[1]].height < Maturity)
  <2>1. o[1] \notin mempool.txs /\ o[1] \notin mempool'.txs /\ o[1] \in Txs
    BY <1>2, <1>7, <1>9, PrevoutsType DEF PoolInv, PoolSound
  <2>2. o[2] \in Coins[o[1]].outs /\ o[2] \in Effect(Coins, b)[o[1]].outs
    BY <1>3, <1>4, <1>7, <2>1 DEF InputsKnown, InputIn
  <2>3. o[1] \notin TxsOf(b)
    BY <1>1, <2>2, PrunedHasNone DEF Acceptable
  <2>4. CoinsOf[b][o[1]].height = CoinsOf[tip][o[1]].height
    BY <1>3, <2>1, <2>2, <2>3, EffectOuts
  <2>5. CoinsOf[tip][o[1]].height \in Nat
    BY <2>1, CoinHeights DEF PoolInv
  <2>6. ~((Height[tip] + 1) - CoinsOf[tip][o[1]].height < Maturity)
    BY <1>7, <1>9 DEF Ripe
  <2> QED BY <1>6, <2>4, <2>5, <2>6
<1> QED BY <1>8, <1>9

\* removeForReorg leaves nothing that is not ripe.
LEMMA ReorgRipe ==
    ASSUME PoolInv, EndReorg
    PROVE  Ripe(mempool', tip)
<1>1. step = "reorg" /\ mempool' \in AfterReorg(mempool) \cup AfterInvalidate(mempool)
      /\ PoolSound(mempool) /\ Cardinality(mempool.txs) <= MaxPool
  BY DEF EndReorg, PoolInv
<1>2. PICK k : /\ Drops(mempool, k, Txs) /\ mempool'.txs \subseteq k.txs
               /\ \A x \in mempool'.txs : ~Stale(k, x)
  BY <1>1, AnyLinkable, EndReorgDrops
<1>3. \A o : IsCoinBase(o[1]) /\ ~Immature(o) => ~((Height[tip] + 1) - CoinsOf[tip][o[1]].height < Maturity)
  BY <1>1, ImmatureAtTip
<1>4. ASSUME NEW x \in mempool'.txs
      PROVE  /\ LockTime[x] <= Height[tip]
             /\ \A o \in Prevouts(x) :
                   IsCoinBase(o[1]) => ~((Height[tip] + 1) - CoinsOf[tip][o[1]].height < Maturity)
  <2>1. CheckFinalTx(x)
        /\ ((\E p \in Prevs(x) : IsCoinBase(p)) => \A o \in Prevouts(x) : o[1] \in k.txs \/ ~Immature(o))
    BY <1>2 DEF Stale
  <2>2. ASSUME NEW o \in Prevouts(x), IsCoinBase(o[1]) PROVE ~Immature(o)
    <3>1. o[1] \in Prevs(x)
      BY DEF Prevs
    <3>2. o[1] \notin k.txs
      BY <1>2, <2>2 DEF Drops, PoolSound
    <3> QED BY <2>1, <2>2, <3>1, <3>2
  <2>3. LockTime[x] <= Height[tip]
    BY <2>1 DEF CheckFinalTx
  <2> QED BY <1>3, <2>2, <2>3
<1> QED BY <1>4 DEF Ripe

LEMMA AcceptedRipe ==
    ASSUME PoolInv, NEW x \in Txs, AcceptToMemoryPool(x), Ripe(mempool, tip)
    PROVE  Ripe(mempool', tip)
<1>1. /\ step = "idle" /\ Admissible(mempool, x) /\ mempool' \in LimitMempoolSize(Entered(mempool, x), {x})
      /\ PoolSound(mempool) /\ Cardinality(mempool.txs) <= MaxPool
  BY DEF AcceptToMemoryPool, PoolInv
<1>2. mempool'.txs \subseteq mempool.txs \cup {x}
  BY <1>1, AcceptedSound
<1>3. \A o : IsCoinBase(o[1]) /\ ~Immature(o) => ~((Height[tip] + 1) - CoinsOf[tip][o[1]].height < Maturity)
  BY <1>1, ImmatureAtTip
<1>4. LockTime[x] <= Height[tip] /\ \A o \in Prevouts(x) : ~Immature(o)
  BY <1>1, AdmissibleFacts DEF CheckFinalTx
<1> QED BY <1>2, <1>3, <1>4 DEF Ripe

LEMMA MinableNext == MinableInv /\ [Next]_vars => MinableInv'
<1> SUFFICES ASSUME MinableInv, [Next]_vars PROVE MinableInv'
  OBVIOUS
<1>0. PoolInv /\ PoolInv' /\ (~cut /\ step = "idle" => Ripe(mempool, tip))
  BY PoolNext DEF MinableInv
<1> SUFFICES ASSUME ~cut', step' = "idle" PROVE Ripe(mempool', tip')
  BY <1>0 DEF MinableInv
<1>1. ASSUME NEW x \in Txs, AcceptToMemoryPool(x) PROVE Ripe(mempool', tip')
  <2>1. step = "idle" /\ ~cut /\ tip' = tip
    BY <1>1 DEF AcceptToMemoryPool
  <2> QED BY <1>0, <1>1, <2>1, AcceptedRipe
<1>2. ASSUME NEW x \in Txs, PrioritiseTransaction(x) PROVE Ripe(mempool', tip')
  <2>1. step = "idle" /\ ~cut /\ tip' = tip
    BY <1>2 DEF PrioritiseTransaction
  <2>2. mempool'.txs = mempool.txs
    <3>1. CASE mempool' = mempool
      BY <3>1
    <3>2. CASE mempool' # mempool
      <4>1. PICK f : mempool' = [mempool EXCEPT !.fees = f]
        BY <1>2, <3>2, Zenon DEF PrioritiseTransaction
      <4>2. mempool = [txs |-> mempool.txs, parents |-> mempool.parents, children |-> mempool.children,
                       mapNextTx |-> mempool.mapNextTx, count |-> mempool.count, fees |-> mempool.fees]
        BY <1>0 DEF PoolInv, PoolSound, PoolShape
      <4> QED BY <4>1, <4>2
    <3> QED BY <3>1, <3>2
  <2> QED BY <1>0, <2>1, <2>2 DEF Ripe
<1>3. ASSUME NEW b \in Blocks, ConnectTip(b) PROVE Ripe(mempool', tip')
  <2>1. step = "idle" /\ ~cut /\ tip' = b
    BY <1>3 DEF ConnectTip
  <2> QED BY <1>0, <1>3, <2>1, ConnectedRipe
<1>4. CASE DisconnectTip \/ Resurrect \/ Relink
  BY <1>4 DEF DisconnectTip, Resurrect, Relink
<1>5. CASE EndReorg
  <2>1. tip' = tip
    BY <1>5 DEF EndReorg
  <2> QED BY <1>0, <1>5, <2>1, ReorgRipe
<1>6. CASE UNCHANGED vars
  <2>1. UNCHANGED <<mempool, tip, step, cut>>
    BY <1>6 DEF vars
  <2> QED BY <1>0, <2>1
<1> QED BY <1>1, <1>2, <1>3, <1>4, <1>5, <1>6 DEF Next

\* Whenever cs_main is free, the whole pool could be in the next block: what lost its
\* height or its coinbase's maturity in a reorganisation has left.
THEOREM PoolStaysMinable == Spec => []PoolMinable
<1>1. Init => MinableInv
  <2>1. Init => mempool.txs = {}
    BY DEF Init, EmptyPool
  <2> QED BY <2>1, PoolInit DEF MinableInv, Ripe
<1>2. MinableInv => PoolMinable
  <2> SUFFICES ASSUME MinableInv, ~cut, step = "idle", NEW x \in mempool.txs
               PROVE  CheckFinalTx(x) /\ \A o \in Prevouts(x) : o[1] \notin mempool.txs => ~Immature(o)
    BY DEF PoolMinable
  <2>1. Ripe(mempool, tip)
    BY DEF MinableInv
  <2>2. ASSUME NEW o \in Prevouts(x) PROVE ~Immature(o)
    <3>1. IsCoinBase(o[1]) => ~((Height[tip] + 1) - CoinsOf[tip][o[1]].height < Maturity)
      BY <2>1 DEF Ripe
    <3> QED BY <3>1, ImmatureAtTip
  <2> QED BY <2>1, <2>2 DEF Ripe, CheckFinalTx
<1> QED BY <1>1, <1>2, MinableNext, PTL DEF Spec

-----------------------------------------------------------------------------
(* The loop over orphans forgets none.                                        *)

Queued == ToSet(vWorkQueue)

\* The loop will still look at y.
Pending(y) == y \in todo \/ \E l \in (i + 1)..Len(vWorkQueue) : vWorkQueue[l] \in Prevs(y)

Misses(y) == \E p \in Prevs(y) : ~HaveCoins(mempool, p)

\* Whatever in the pool spends an output of a queued transaction came in after it, in
\* this loop, and is queued too.  An orphan that waits for a queued transaction is going
\* to be looked at, or had a reason to be passed over that still stands.
LoopSound ==
    /\ i \in 1..Len(vWorkQueue)
    /\ todo \subseteq mapOrphanTransactionsByPrev[vWorkQueue[i]]
    /\ \A p \in mempool.txs : Prevs(p) \cap Queued # {} => p \in Queued
    /\ vEraseQueue \cap mempool.txs \subseteq Queued
    /\ \A y \in Orphans \ vEraseQueue :
          Prevs(y) \cap Queued # {} =>
              Pending(y) \/ mapOrphanTransactions[y] \in setMisbehaving \/ Misses(y)

LoopInvariant == QueueInv /\ PoolInv /\ (~cut /\ vWorkQueue # <<>> => LoopSound)

LEMMA QueueAppend ==
    ASSUME NEW s \in Seq(Txs), NEW y \in Txs
    PROVE  /\ ToSet(Append(s, y)) = ToSet(s) \cup {y} /\ Len(Append(s, y)) = Len(s) + 1
           /\ Len(s) \in Nat /\ Append(s, y)[Len(s) + 1] = y /\ \A l \in 1..Len(s) : Append(s, y)[l] = s[l]
<1>1. /\ Len(s) \in Nat /\ DOMAIN s = 1..Len(s) /\ Append(s, y) \in Seq(Txs)
      /\ Len(Append(s, y)) = Len(s) + 1 /\ DOMAIN Append(s, y) = 1..(Len(s) + 1)
      /\ Append(s, y)[Len(s) + 1] = y /\ \A l \in 1..Len(s) : Append(s, y)[l] = s[l]
  BY AppendProperties, LenProperties
<1>2. \A l \in 1..(Len(s) + 1) : l = Len(s) + 1 \/ l \in 1..Len(s)
  BY <1>1
<1>3. Len(s) + 1 \in 1..(Len(s) + 1) /\ 1..Len(s) \subseteq 1..(Len(s) + 1)
  BY <1>1
<1> QED BY <1>1, <1>2, <1>3 DEF ToSet

\* Nothing in the pool spends an output of what is just accepted, and the pool
\* becomes no other than itself and that.
LEMMA AcceptedIsNew ==
    ASSUME PoolInv, ~cut, step = "idle", NEW x \in Txs, Admissible(mempool, x),
           mempool' \in LimitMempoolSize(Entered(mempool, x), {x}), ForPool
    PROVE  /\ mempool'.txs \subseteq mempool.txs \cup {x} /\ x \notin mempool.txs
           /\ \A p \in mempool.txs : x \notin Prevs(p)
           /\ \A q \in Txs : q # x /\ ~HaveCoins(mempool, q) => ~HaveCoins(mempool, q)'
<1>1. PoolSound(mempool) /\ Cardinality(mempool.txs) <= MaxPool
  BY DEF PoolInv
<1>2. mempool'.txs \subseteq mempool.txs \cup {x}
  BY <1>1, AcceptedSound
<1>3. Coins[x] = Pruned /\ x \notin mempool.txs
  BY AdmissibleFacts
<1>4. InputsKnown(Coins, mempool, {}, {})
  BY RestingInv DEF PoolRests
<1>5. ASSUME NEW p \in mempool.txs, x \in Prevs(p) PROVE FALSE
  <2>1. PICK o \in Prevouts(p) : o[1] = x
    BY <1>5 DEF Prevs
  <2>2. InputIn(Coins, mempool, o)
    BY <1>4 DEF InputsKnown
  <2> QED BY <1>3, <2>1, <2>2, PrunedHasNone DEF InputIn
<1>6. Coins' = Coins
  BY DEF ForPool, Coins
<1> QED BY <1>2, <1>3, <1>5, <1>6 DEF HaveCoins

\* The first transaction of the queue
LEMMA QueueBegins ==
    ASSUME OrphanInv, PoolInv, ~cut, NEW x \in Txs, TxAccepted(x), vWorkQueue' # <<>>
    PROVE  LoopSound'
<1>0. vWorkQueue = <<>> /\ UNCHANGED <<orphanMaps, vEraseQueue, setMisbehaving>> /\ vEraseQueue = {}
  BY DEF TxAccepted, Free, OrphanInv
<1>1. vWorkQueue' = <<x>> /\ i' = 1 /\ todo' = mapOrphanTransactionsByPrev[x] /\ x \in mempool'.txs
  BY <1>0 DEF TxAccepted
<1>2. Len(vWorkQueue') = 1 /\ Queued' = {x} /\ vWorkQueue'[i'] = x
  BY <1>1 DEF Queued, ToSet
<1>3. mempool'.txs \subseteq mempool.txs \cup {x} /\ \A p \in mempool.txs : x \notin Prevs(p)
  BY AcceptedIsNew DEF TxAccepted, Free
<1>4. ASSUME NEW y \in Orphans', Prevs(y) \cap Queued' # {} PROVE Pending(y)'
  <2>1. y \in Orphans /\ x \in Prevs(y)
    BY <1>0, <1>2, <1>4 DEF Orphans, orphanMaps
  <2>2. y \in mapOrphanTransactionsByPrev[x]
    BY <2>1 DEF OrphanInv, OrphansConsistent, OrphanMapsAgree
  <2> QED BY <1>1, <2>2 DEF Pending
<1>5. mapOrphanTransactionsByPrev' = mapOrphanTransactionsByPrev
  BY <1>0 DEF orphanMaps
<1> QED BY <1>0, <1>1, <1>2, <1>3, <1>4, <1>5 DEF LoopSound

\* An accepted orphan joins the end of the queue, behind what waits for it.
LEMMA QueueGrows ==
    ASSUME OrphanInv, PoolInv, ~cut, step = "idle", LoopSound, NEW x \in Txs, OrphanAccepted(x)
    PROVE  LoopSound'
<1>0. /\ UNCHANGED <<orphanMaps, i, setMisbehaving>> /\ vWorkQueue \in Seq(Txs)
      /\ vEraseQueue' = vEraseQueue \cup {x} /\ todo' = todo \ {x} /\ x \in todo
  BY DEF OrphanAccepted, OrphanInv
<1>1. Orphans' = Orphans /\ mapOrphanTransactions' = mapOrphanTransactions
      /\ mapOrphanTransactionsByPrev' = mapOrphanTransactionsByPrev
  BY <1>0 DEF Orphans, orphanMaps
<1>2. /\ mempool'.txs \subseteq mempool.txs \cup {x} /\ \A p \in mempool.txs : x \notin Prevs(p)
      /\ \A q \in Txs : q # x /\ ~HaveCoins(mempool, q) => ~HaveCoins(mempool, q)'
  BY AcceptedIsNew DEF OrphanAccepted
<1>3. i \in 1..Len(vWorkQueue) /\ Len(vWorkQueue) \in Nat
  BY <1>0, LenProperties DEF LoopSound
<1>4. /\ Queued' = IF x \in mempool'.txs THEN Queued \cup {x} ELSE Queued
      /\ i' \in 1..Len(vWorkQueue') /\ vWorkQueue'[i'] = vWorkQueue[i]
      /\ \A l \in (i + 1)..Len(vWorkQueue) : l \in (i' + 1)..Len(vWorkQueue') /\ vWorkQueue'[l] = vWorkQueue[l]
      /\ x \in mempool'.txs => \E l \in (i' + 1)..Len(vWorkQueue') : vWorkQueue'[l] = x
  <2>1. CASE x \in mempool'.txs
    <3>1. vWorkQueue' = Append(vWorkQueue, x)
      BY <2>1 DEF OrphanAccepted, Chained
    <3>2. Len(vWorkQueue') = Len(vWorkQueue) + 1 /\ vWorkQueue'[Len(vWorkQueue) + 1] = x
          /\ (\A l \in 1..Len(vWorkQueue) : vWorkQueue'[l] = vWorkQueue[l]) /\ Queued' = Queued \cup {x}
      BY <1>0, <3>1, QueueAppend DEF Queued
    <3> QED BY <1>0, <1>3, <2>1, <3>2
  <2>2. CASE x \notin mempool'.txs
    <3>1. vWorkQueue' = vWorkQueue
      BY <2>2 DEF OrphanAccepted
    <3> QED BY <1>0, <1>3, <2>2, <3>1 DEF Queued
  <2> QED BY <2>1, <2>2
<1>5. \A y \in Txs : Pending(y) /\ y # x => Pending(y)'
  BY <1>0, <1>4 DEF Pending
<1>6. ASSUME NEW y \in Txs, x \in Prevs(y), x \in mempool'.txs PROVE Pending(y)'
  BY <1>4, <1>6 DEF Pending
<1>7. ASSUME NEW y \in Orphans \ vEraseQueue', Prevs(y) \cap Queued' # {}
      PROVE  Pending(y)' \/ mapOrphanTransactions[y] \in setMisbehaving \/ Misses(y)'
  <2>1. y \in Txs /\ y \notin vEraseQueue /\ y # x
    BY <1>0, <1>7 DEF Orphans
  <2>2. CASE x \in Prevs(y) /\ x \in mempool'.txs
    BY <1>6, <2>1, <2>2
  <2>3. CASE ~(x \in Prevs(y) /\ x \in mempool'.txs)
    <3>1. Prevs(y) \cap Queued # {}
      BY <1>4, <1>7, <2>3
    <3>2. Pending(y) \/ mapOrphanTransactions[y] \in setMisbehaving \/ Misses(y)
      BY <1>7, <2>1, <3>1 DEF LoopSound
    <3>3. ASSUME Misses(y) PROVE Misses(y)'
      <4>1. PICK q \in Prevs(y) : ~HaveCoins(mempool, q)
        BY <3>3 DEF Misses
      <4>2. q \in Txs
        BY <2>1, PrevoutsType DEF Prevs
      <4>3. ~HaveCoins(mempool, q)'
        <5>1. CASE q # x
          BY <1>2, <4>1, <4>2, <5>1
        <5>2. CASE q = x
          <6>1. x \notin mempool'.txs
            BY <2>3, <4>1, <5>2
          <6>2. Coins' = Coins
            BY DEF OrphanAccepted, ForPool, Coins
          <6> QED BY <4>1, <5>2, <6>1, <6>2 DEF HaveCoins
        <5> QED BY <5>1, <5>2
      <4> QED BY <4>1, <4>3 DEF Misses
    <3> QED BY <1>5, <2>1, <3>2, <3>3
  <2> QED BY <2>2, <2>3
<1>8. \A p \in mempool'.txs : Prevs(p) \cap Queued' # {} => p \in Queued'
  BY <1>2, <1>4 DEF LoopSound
<1>9. vEraseQueue' \cap mempool'.txs \subseteq Queued'
  BY <1>0, <1>2, <1>4 DEF LoopSound
<1>10. todo' \subseteq mapOrphanTransactionsByPrev'[vWorkQueue'[i']]
  BY <1>0, <1>1, <1>4 DEF LoopSound
<1> QED BY <1>0, <1>1, <1>4, <1>7, <1>8, <1>9, <1>10 DEF LoopSound

\* The pool stays as it is while the loop turns orphans down or passes them over.
LEMMA QueueMoves ==
    ASSUME OrphanInv, LoopSound, NEW y \in Txs, OrphanRejected(y) \/ OrphanSkipped(y)
    PROVE  LoopSound'
<1>0. /\ UNCHANGED <<vars, orphanMaps, vWorkQueue, i>> /\ y \in todo /\ todo' = todo \ {y}
      /\ vEraseQueue \subseteq vEraseQueue' /\ vEraseQueue' \subseteq vEraseQueue \cup {y}
      /\ setMisbehaving \subseteq setMisbehaving'
  BY DEF OrphanRejected, OrphanSkipped
<1>1. /\ Orphans' = Orphans /\ mapOrphanTransactions' = mapOrphanTransactions /\ Queued' = Queued
      /\ mapOrphanTransactionsByPrev' = mapOrphanTransactionsByPrev /\ mempool' = mempool
      /\ \A z : Misses(z)' = Misses(z)
  BY <1>0 DEF Orphans, orphanMaps, vars, Queued, Misses, HaveCoins, Coins
<1>2. \A z : Pending(z) /\ z # y => Pending(z)'
  BY <1>0 DEF Pending
<1>3. y \notin vEraseQueue' => mapOrphanTransactions[y] \in setMisbehaving \/ Misses(y)
  BY DEF OrphanRejected, OrphanSkipped, MissingInputs, Misses
<1>4. y \in mempool.txs => y \in Queued
  <2>1. vWorkQueue[i] \in Queued /\ vWorkQueue[i] \in Txs
    <3>1. i \in DOMAIN vWorkQueue
      BY LenProperties DEF OrphanInv, LoopSound
    <3> QED BY <3>1, ElementOfSeq DEF Queued, ToSet, OrphanInv, LoopSound
  <2>2. vWorkQueue[i] \in Prevs(y)
    BY <1>0, <2>1 DEF LoopSound, OrphanInv, OrphansConsistent, OrphanMapsAgree
  <2> QED BY <2>1, <2>2 DEF LoopSound
<1>5. vEraseQueue' \cap mempool'.txs \subseteq Queued'
  BY <1>0, <1>1, <1>4 DEF LoopSound
<1>6. ASSUME NEW z \in Orphans \ vEraseQueue', Prevs(z) \cap Queued # {}
      PROVE  Pending(z)' \/ mapOrphanTransactions[z] \in setMisbehaving' \/ Misses(z)
  BY <1>0, <1>2, <1>3, <1>6 DEF LoopSound
<1> QED BY <1>0, <1>1, <1>5, <1>6 DEF LoopSound

LEMMA QueueAdvances ==
    ASSUME OrphanInv, LoopSound, NextInQueue
    PROVE  LoopSound'
<1>0. /\ UNCHANGED <<vars, orphanMaps, vWorkQueue, vEraseQueue, setMisbehaving>> /\ todo = {}
      /\ i' = i + 1 /\ i < Len(vWorkQueue) /\ todo' = mapOrphanTransactionsByPrev[vWorkQueue[i + 1]]
      /\ Len(vWorkQueue) \in Nat /\ i \in 1..Len(vWorkQueue)
  BY LenProperties DEF NextInQueue, OrphanInv, LoopSound
<1>1. /\ Orphans' = Orphans /\ mapOrphanTransactions' = mapOrphanTransactions /\ Queued' = Queued
      /\ mapOrphanTransactionsByPrev' = mapOrphanTransactionsByPrev /\ mempool' = mempool
      /\ \A z : Misses(z)' = Misses(z)
  BY <1>0 DEF Orphans, orphanMaps, vars, Queued, Misses, HaveCoins, Coins
<1>2. ASSUME NEW z \in Orphans, Pending(z) PROVE Pending(z)'
  <2>1. PICK l \in (i + 1)..Len(vWorkQueue) : vWorkQueue[l] \in Prevs(z)
    BY <1>0, <1>2 DEF Pending
  <2>2. CASE l = i + 1
    <3>1. vWorkQueue[l] \in Txs
      BY <1>0, <2>1, ElementOfSeq DEF OrphanInv
    <3>2. z \in mapOrphanTransactionsByPrev[vWorkQueue[l]]
      BY <2>1, <3>1 DEF OrphanInv, OrphansConsistent, OrphanMapsAgree
    <3> QED BY <1>0, <2>2, <3>2 DEF Pending
  <2>3. CASE l # i + 1
    <3>1. l \in (i' + 1)..Len(vWorkQueue')
      BY <1>0, <2>1, <2>3
    <3> QED BY <1>0, <2>1, <3>1 DEF Pending
  <2> QED BY <2>2, <2>3
<1>3. i' \in 1..Len(vWorkQueue') /\ todo' \subseteq mapOrphanTransactionsByPrev'[vWorkQueue'[i']]
  BY <1>0, <1>1
<1> QED BY <1>0, <1>1, <1>2, <1>3 DEF LoopSound

LEMMA LoopNext == LoopInvariant /\ [RelayNext]_relayVars => LoopInvariant'
<1> SUFFICES ASSUME LoopInvariant, [RelayNext]_relayVars PROVE LoopInvariant'
  OBVIOUS
<1>0. /\ QueueInv /\ QueueInv' /\ PoolInv /\ PoolInv' /\ OrphanInv
      /\ ~cut /\ vWorkQueue # <<>> => LoopSound
  BY RelayStep, PoolNext DEF LoopInvariant, QueueInv
<1> SUFFICES ASSUME ~cut', vWorkQueue' # <<>> PROVE LoopSound'
  BY <1>0 DEF LoopInvariant
<1>1. todo # {} => vWorkQueue # <<>> /\ step = "idle"
  BY <1>0 DEF QueueInv, QueueIdle, OrphanInv
<1>2. CASE vWorkQueue = <<>> /\ UNCHANGED loop
  BY <1>2 DEF loop
<1>3. ASSUME NEW x \in Txs, TxAccepted(x) PROVE LoopSound'
  <2>1. ~cut
    BY <1>3 DEF TxAccepted, ForPool
  <2> QED BY <1>0, <1>3, <2>1, QueueBegins
<1>4. ASSUME NEW y \in Txs, OrphanAccepted(y) PROVE LoopSound'
  <2>1. ~cut /\ y \in todo
    BY <1>4 DEF OrphanAccepted, ForPool
  <2> QED BY <1>0, <1>1, <1>4, <2>1, QueueGrows
<1>5. ASSUME NEW y \in Txs, OrphanRejected(y) \/ OrphanSkipped(y) PROVE LoopSound'
  <2>1. ~cut /\ y \in todo
    BY <1>5 DEF OrphanRejected, OrphanSkipped, vars
  <2> QED BY <1>0, <1>1, <1>5, <2>1, QueueMoves
<1>6. CASE NextInQueue
  <2>1. ~cut /\ vWorkQueue # <<>>
    BY <1>6 DEF NextInQueue, vars
  <2> QED BY <1>0, <1>6, <2>1, QueueAdvances
<1>7. CASE EraseQueue
  BY <1>7 DEF EraseQueue
<1>8. ASSUME NEW x \in Txs, NEW p \in Peers, TxMissingInputs(x, p) PROVE LoopSound'
  BY <1>2, <1>8 DEF TxMissingInputs, Free
<1>9. ASSUME NEW p \in Peers, EraseOrphansFor(p) PROVE LoopSound'
  BY <1>2, <1>9 DEF EraseOrphansFor, Free
<1>10. CASE UNCHANGED relayVars
  <2>1. UNCHANGED <<mempool, tip, step, cut, mapOrphanTransactions, mapOrphanTransactionsByPrev, vWorkQueue, i, todo,
                    vEraseQueue, setMisbehaving>>
    BY <1>10 DEF relayVars, vars, orphanMaps, loop
  <2>2. LoopSound
    BY <1>0, <2>1
  <2>3. Queued' = Queued /\ Orphans' = Orphans /\ Coins' = Coins
    BY <2>1 DEF Queued, Orphans, Coins
  <2> QED BY <2>1, <2>2, <2>3 DEF LoopSound, Pending, Misses, HaveCoins
<1> QED BY <1>2, <1>3, <1>4, <1>5, <1>6, <1>7, <1>8, <1>9, <1>10 DEF RelayNext

\* When the loop of the TX handler ends, no orphan that waited for a transaction
\* accepted in it is left although its inputs are known, unless its peer was punished.
THEOREM OrphansAreResolved == RelaySpec => []NoOrphanLeftBehind
<1>1. RelayInit => LoopInvariant
  BY OrphanInit, PoolInit DEF RelayInit, LoopInvariant, QueueInv, QueueIdle
<1>2. LoopInvariant => NoOrphanLeftBehind
  <2> SUFFICES ASSUME LoopInvariant, ~cut, LoopEnds, NEW y \in Orphans \ vEraseQueue,
                      Prevs(y) \cap mempool.txs \cap ({vWorkQueue[1]} \cup vEraseQueue) # {}
               PROVE  mapOrphanTransactions[y] \in setMisbehaving \/ Misses(y)
    BY DEF NoOrphanLeftBehind, Misses
  <2>1. LoopSound /\ vWorkQueue \in Seq(Txs) /\ Len(vWorkQueue) \in Nat /\ i \in 1..Len(vWorkQueue)
    BY LenProperties DEF LoopInvariant, LoopEnds, LoopSound, QueueInv, OrphanInv
  <2>2. vWorkQueue[1] \in Queued
    <3>1. 1 \in DOMAIN vWorkQueue
      BY <2>1, LenProperties
    <3> QED BY <3>1 DEF Queued, ToSet
  <2>3. Prevs(y) \cap Queued # {}
    BY <2>1, <2>2 DEF LoopSound
  <2>4. ~Pending(y)
    BY <2>1 DEF LoopEnds, Pending
  <2> QED BY <2>1, <2>3, <2>4 DEF LoopSound
<1> QED BY <1>1, <1>2, LoopNext, PTL DEF RelaySpec

-----------------------------------------------------------------------------
(* Replacement                                                                *)

\* ModFees for the subsets of S of at most n transactions
IsSum(g, S, n) ==
    g = [T \in SmallSubsets(S, n) |-> IF T = {} THEN 0 ELSE ModFee(First(T)) + g[T \ {First(T)}]]

LEMMA SumExists ==
    ASSUME NEW S, IsFiniteSet(S), NEW k \in Nat
    PROVE  \E g : IsSum(g, S, k)
<1> DEFINE Bad == {j \in Nat : ~\E g : IsSum(g, S, j)}
<1> SUFFICES ASSUME Bad # {} PROVE FALSE
  OBVIOUS
<1>1. PICK j \in Bad : \A l \in Nat : l < j => l \notin Bad
  <2>1. Bad \subseteq Nat
    OBVIOUS
  <2> HIDE DEF Bad
  <2> QED BY <2>1, LeastNat
<1>2. j \in Nat /\ ~\E g : IsSum(g, S, j)
  OBVIOUS
<1>s. ASSUME NEW T \in SUBSET S
      PROVE  /\ IsFiniteSet(T) /\ Cardinality(T) \in Nat /\ (T = {} <=> Cardinality(T) = 0)
             /\ T # {} => First(T) \in T /\ Cardinality(T \ {First(T)}) = Cardinality(T) - 1
  <2>1. IsFiniteSet(T) /\ Cardinality(T) \in Nat /\ (T = {} <=> Cardinality(T) = 0)
    BY FS_Subset, FS_CardinalityType, FS_EmptySet
  <2>2. T # {} => First(T) \in T
    BY DEF First
  <2>3. T # {} => Cardinality(T \ {First(T)}) = Cardinality(T) - 1
    BY <2>1, <2>2, FS_RemoveElement
  <2> QED BY <2>1, <2>2, <2>3
<1> DEFINE F(h, T) == IF T = {} THEN 0 ELSE ModFee(First(T)) + h[T \ {First(T)}]
<1>3. CASE j = 0
  <2> DEFINE g == [T \in SmallSubsets(S, 0) |-> 0]
  <2>1. \A T \in SmallSubsets(S, 0) : g[T] = F(g, T)
    BY <1>s DEF SmallSubsets
  <2>2. g = [T \in SmallSubsets(S, 0) |-> F(g, T)]
    <3>1. g = [T \in SmallSubsets(S, 0) |-> g[T]]
      OBVIOUS
    <3> HIDE DEF g, F
    <3> QED BY <2>1, <3>1
  <2>3. IsSum(g, S, 0)
    BY <2>2 DEF IsSum
  <2> QED BY <1>2, <1>3, <2>3
<1>4. CASE j # 0
  <2>1. j - 1 \in Nat /\ j - 1 < j
    BY <1>2, <1>4
  <2>2. PICK g : IsSum(g, S, j - 1)
    BY <1>1, <2>1
  <2> DEFINE h == [T \in SmallSubsets(S, j) |-> IF Cardinality(T) = j THEN F(g, T) ELSE g[T]]
  <2>3. \A T \in SmallSubsets(S, j - 1) : g[T] = F(g, T)
    BY <2>2, Zenon DEF IsSum
  <2> HIDE DEF F
  <2>4. \A T \in SmallSubsets(S, j) : h[T] = IF Cardinality(T) = j THEN F(g, T) ELSE g[T]
    OBVIOUS
  <2>5. h = [T \in SmallSubsets(S, j) |-> h[T]]
    OBVIOUS
  <2> HIDE DEF h
  <2>6. ASSUME NEW T \in SmallSubsets(S, j) PROVE h[T] = F(h, T)
    <3>0. T \in SUBSET S /\ Cardinality(T) <= j /\ Cardinality(T) \in Nat
      BY <1>s DEF SmallSubsets
    <3>1. T # {} => h[T \ {First(T)}] = g[T \ {First(T)}]
      <4> SUFFICES ASSUME T # {} PROVE h[T \ {First(T)}] = g[T \ {First(T)}]
        OBVIOUS
      <4>1. T \ {First(T)} \in SUBSET S /\ Cardinality(T \ {First(T)}) = Cardinality(T) - 1
        BY <1>s, <3>0
      <4>2. Cardinality(T \ {First(T)}) <= j /\ Cardinality(T \ {First(T)}) # j
        BY <1>2, <3>0, <4>1
      <4> QED BY <2>4, <4>1, <4>2 DEF SmallSubsets
    <3>2. F(h, T) = F(g, T)
      BY <3>1 DEF F
    <3>3. CASE Cardinality(T) = j
      BY <2>4, <3>2, <3>3
    <3>4. CASE Cardinality(T) # j
      <4>1. T \in SmallSubsets(S, j - 1)
        BY <1>2, <3>0, <3>4 DEF SmallSubsets
      <4> QED BY <2>3, <2>4, <3>2, <3>4, <4>1
    <3> QED BY <3>3, <3>4
  <2>7. h = [T \in SmallSubsets(S, j) |-> F(h, T)]
    BY <2>5, <2>6
  <2>8. IsSum(h, S, j)
    BY <2>7, Zenon DEF IsSum, F
  <2> QED BY <1>2, <2>8
<1> QED BY <1>3, <1>4

\* The fees of a set of transactions are a number.
LEMMA ModFeesType ==
    ASSUME NEW S \in SUBSET Txs, IsFiniteSet(S), mapDeltas \in [Txs -> {0, FeeDelta}]
    PROVE  ModFees(S) \in Int
<1> DEFINE g == CHOOSE h : h = [s \in SUBSET S |->
                    IF s = {} THEN 0 ELSE ModFee(CHOOSE x \in s : TRUE) + h[s \ {CHOOSE x \in s : TRUE}]]
           Bad == {n \in Nat : \E T \in SUBSET S : Cardinality(T) = n /\ g[T] \notin Int}
<1>s. ASSUME NEW T \in SUBSET S
      PROVE  /\ IsFiniteSet(T) /\ Cardinality(T) \in Nat
             /\ T # {} => First(T) \in T /\ Cardinality(T \ {First(T)}) = Cardinality(T) - 1
  <2>1. IsFiniteSet(T) /\ Cardinality(T) \in Nat
    BY FS_Subset, FS_CardinalityType
  <2>2. T # {} => First(T) \in T
    BY DEF First
  <2>3. T # {} => Cardinality(T \ {First(T)}) = Cardinality(T) - 1
    BY <2>1, <2>2, FS_RemoveElement
  <2> QED BY <2>1, <2>2, <2>3
<1>1. ModFees(S) = g[S]
  <2>1. ModFees(S) = MapThenFoldSet(LAMBDA x1, x2 : x1 + x2, 0, ModFee, LAMBDA s : CHOOSE x \in s : TRUE, S)
    BY Zenon DEF ModFees, MapThenSumSet
  <2>2. MapThenFoldSet(LAMBDA x1, x2 : x1 + x2, 0, ModFee, LAMBDA s : CHOOSE x \in s : TRUE, S)
             = (CHOOSE h : h = [s \in SUBSET S |->
                  IF s = {} THEN 0 ELSE ModFee(CHOOSE x \in s : TRUE) + h[s \ {CHOOSE x \in s : TRUE}]])[S]
    BY Zenon DEF MapThenFoldSet
  <2> QED BY <2>1, <2>2, Zenon
<1>2. SmallSubsets(S, Cardinality(S)) = SUBSET S /\ Cardinality(S) \in Nat
  <2>1. \A T \in SUBSET S : Cardinality(T) <= Cardinality(S)
    BY FS_Subset
  <2> QED BY <1>s, <2>1 DEF SmallSubsets
<1>3. g = [T \in SUBSET S |-> IF T = {} THEN 0 ELSE ModFee(First(T)) + g[T \ {First(T)}]]
  <2>1. PICK a : IsSum(a, S, Cardinality(S))
    BY <1>2, SumExists
  <2>2. a = [T \in SUBSET S |-> IF T = {} THEN 0 ELSE ModFee(First(T)) + a[T \ {First(T)}]]
    BY <1>2, <2>1 DEF IsSum
  <2>3. \E h : h = [s \in SUBSET S |->
                IF s = {} THEN 0 ELSE ModFee(CHOOSE x \in s : TRUE) + h[s \ {CHOOSE x \in s : TRUE}]]
    BY <2>2, Zenon DEF First
  <2> QED BY <2>3, Zenon DEF First
<1> HIDE DEF g
<1>4. ASSUME NEW T \in SUBSET S
      PROVE  g[T] = IF T = {} THEN 0 ELSE ModFee(First(T)) + g[T \ {First(T)}]
  BY <1>3, Zenon
<1>5. \A x \in Txs : ModFee(x) \in Int
  BY FeeAssumption, LimitsAssumption DEF ModFee
<1>6. Bad = {}
  <2> SUFFICES ASSUME Bad # {} PROVE FALSE
    OBVIOUS
  <2>1. Bad \subseteq Nat
    OBVIOUS
  <2>2. PICK n \in Bad : \A l \in Nat : l < n => l \notin Bad
    <3> HIDE DEF Bad
    <3> QED BY <2>1, LeastNat
  <2>3. PICK T \in SUBSET S : Cardinality(T) = n /\ g[T] \notin Int
    OBVIOUS
  <2>4. T # {}
    BY <1>4, <2>3
  <2> DEFINE p == T \ {First(T)}
  <2>5. First(T) \in Txs /\ p \in SUBSET S /\ Cardinality(p) \in Nat /\ Cardinality(p) < n
    <3>1. First(T) \in T /\ Cardinality(p) = n - 1 /\ n \in Nat
      BY <1>s, <2>3, <2>4
    <3>2. p \in SUBSET S
      OBVIOUS
    <3>3. Cardinality(p) \in Nat
      <4> HIDE DEF p
      <4> QED BY <1>s, <3>2
    <3> HIDE DEF p
    <3> QED BY <3>1, <3>2, <3>3
  <2>6. g[p] \in Int
    BY <2>2, <2>5
  <2>7. g[T] = ModFee(First(T)) + g[p]
    BY <1>4, <2>4
  <2> HIDE DEF p
  <2> QED BY <1>5, <2>3, <2>5, <2>6, <2>7
<1> QED BY <1>1, <1>6, <1>s

\* Along exact links CalculateDescendants finds all descendants.
LEMMA DescendantsAreTrue ==
    ASSUME PoolInv, ~cut, step = "idle", NEW S
    PROVE  CalculateDescendants(mempool, S) = TrueDescendants(S)
<1> DEFINE kids == [y \in Txs |-> {z \in mempool.txs : y \in Prevs(z)}]
<1>1. \A z \in mempool.txs : mempool.children[z] = kids[z]
  <2>1. LinksExact /\ mempool.txs \subseteq Txs
    BY PoolInvConsistent DEF PoolConsistent, PoolInv, PoolSound
  <2> QED BY <2>1 DEF LinksExact
<1> HIDE DEF kids
<1>2. Reach(mempool, S, mempool.children) = Reach(mempool, S, kids)
  BY <1>1 DEF Reach
<1> QED BY <1>2 DEF CalculateDescendants, TrueDescendants, kids

LEMMA ReplacementStep ==
    ASSUME PoolInv, [Next]_vars, step = "idle", ~cut, NEW x \in mempool'.txs \ mempool.txs
    PROVE  LET rivals == {y \in mempool.txs : Prevouts(x) \cap Prevouts(y) # {}}
           IN  rivals # {} => ModFee(x) >= ModFees(TrueDescendants(rivals)) + RelayFee
<1>0. PoolSound(mempool) /\ mapDeltas \in [Txs -> {0, FeeDelta}]
  BY DEF PoolInv
<1>1. AcceptToMemoryPool(x) /\ x \in Txs
  <2>1. ASSUME NEW z \in Txs, AcceptToMemoryPool(z) PROVE z = x
    <3>1. mempool'.txs \subseteq mempool.txs \cup {z}
      BY <2>1, AcceptedIsNew DEF AcceptToMemoryPool, ForPool
    <3> QED BY <3>1
  <2>2. ASSUME NEW z \in Txs, PrioritiseTransaction(z) PROVE FALSE
    <3>1. mempool' # mempool
      OBVIOUS
    <3>2. PICK f : mempool' = [mempool EXCEPT !.fees = f]
      BY <2>2, <3>1, Zenon DEF PrioritiseTransaction
    <3>3. mempool = [txs |-> mempool.txs, parents |-> mempool.parents, children |-> mempool.children,
                     mapNextTx |-> mempool.mapNextTx, count |-> mempool.count, fees |-> mempool.fees]
      BY <1>0 DEF PoolSound, PoolShape
    <3> QED BY <3>2, <3>3
  <2>3. ASSUME NEW b \in Blocks, ConnectTip(b) PROVE FALSE
    <3>1. Txs \cup TxsOf(b) \subseteq Txs
      BY VtxAssumption, ElementOfSeq DEF TxsOf, Items
    <3>2. Drops(mempool, mempool', Txs)
      BY <1>0, <2>3, <3>1, AnyLinkable, BlockRemoved DEF ConnectTip
    <3> QED BY <3>2 DEF Drops
  <2>4. ~DisconnectTip /\ ~Resurrect /\ ~Relink /\ ~EndReorg /\ ~UNCHANGED vars
    BY DEF DisconnectTip, Resurrect, Relink, EndReorg, vars
  <2> QED BY <2>1, <2>2, <2>3, <2>4 DEF Next
<1> DEFINE rivals == {y \in mempool.txs : Prevouts(x) \cap Prevouts(y) # {}}
<1> SUFFICES ASSUME rivals # {} PROVE ModFee(x) >= ModFees(TrueDescendants(rivals)) + RelayFee
  OBVIOUS
<1>2. rivals = Conflicts(mempool, x)
  BY <1>0, <1>1, ConflictsType
<1>3. ModFee(x) - ModFees(CalculateDescendants(mempool, rivals)) >= RelayFee
  BY <1>1, <1>2 DEF AcceptToMemoryPool, Admissible, PaysMore
<1> HIDE DEF rivals
<1> DEFINE all == TrueDescendants(rivals)
<1>4. all \in SUBSET Txs /\ IsFiniteSet(all)
  <2>1. all \subseteq mempool.txs
    BY DEF TrueDescendants, Reach
  <2> HIDE DEF all
  <2> QED BY <1>0, <2>1, FS_Subset DEF PoolSound
<1>5. ModFee(x) - ModFees(all) >= RelayFee
  BY <1>3, DescendantsAreTrue
<1> HIDE DEF all
<1>6. ModFees(all) \in Int /\ ModFee(x) \in Int /\ RelayFee \in Nat
  <2>1. ModFees(all) \in Int
    BY <1>0, <1>4, ModFeesType
  <2> QED BY <1>0, <1>1, <2>1, FeeAssumption, LimitsAssumption DEF ModFee
<1>7. ModFee(x) >= ModFees(all) + RelayFee
  BY <1>5, <1>6
<1> QED BY <1>7 DEF all

\* Whatever comes into the pool in the place of others pays for all that leaves with
\* them, also where the links were repaired after a reorganisation.
THEOREM ReplacementsPay == Spec => ReplacementPays
<1> DEFINE Pays == step = "idle" /\ ~cut =>
        \A x \in mempool'.txs \ mempool.txs :
            LET rivals == {y \in mempool.txs : Prevouts(x) \cap Prevouts(y) # {}}
            IN  rivals # {} => ModFee(x) >= ModFees(TrueDescendants(rivals)) + RelayFee
<1>1. PoolInv /\ [Next]_vars => [Pays]_vars
  BY ReplacementStep
<1>2. ReplacementPays <=> [][Pays]_vars
  BY DEF ReplacementPays
<1> HIDE DEF Pays
<1> QED BY <1>1, <1>2, PoolInit, PoolNext, PTL DEF Spec

-----------------------------------------------------------------------------
(* The table of addresses.  Between two steps of a call the table is not      *)
(* consistent: an entry has just been created and is in no slot yet, or has   *)
(* been taken out of one table and not yet put into the other.                *)
(* Sound(m, X, Y) is what holds of the table m at such a point: everything    *)
(* TableConsistent says, except that the entries of X may be in no slot, and  *)
(* those of Y are in neither total.  Each step gets a lemma that says which X *)
(* and Y it starts from and which it leaves; a call starts and ends with      *)
(* none.                                                                      *)

Tables ==
    [info : [Addrs -> Info \cup {Unknown}], new : [Slots -> Addrs \cup {NoAddr}],
     tried : [TriedSlots -> Addrs \cup {NoAddr}], random : Seq(Addrs), nNew : Int, nTried : Int]

KnownIn(m)    == {a \in Addrs : m.info[a].known}
SlotsOf(m, a) == {k \in Slots : m.new[k] = a}

\* The random order and the positions the entries remember are inverses.
OrderSound(m) ==
    /\ \A n \in 1..Len(m.random) : m.random[n] \in KnownIn(m) /\ m.info[m.random[n]].nRandomPos = n
    /\ \A a \in KnownIn(m) : m.info[a].nRandomPos \in 1..Len(m.random) /\ m.random[m.info[a].nRandomPos] = a

\* Occupied slots hold known entries, in the place that belongs to them.
SlotsSound(m) ==
    /\ \A t \in TriedSlots : m.tried[t] # NoAddr => m.tried[t] \in KnownIn(m) /\ TriedSlot[m.tried[t]] = t
    /\ \A k \in Slots : m.new[k] # NoAddr => m.new[k] \in KnownIn(m) /\ NewPosition[<<m.new[k], k[1]>>] = k[2]

\* What an entry says of its slots is right; out of X it is in exactly one table.
EntriesSound(m, X) ==
    \A a \in KnownIn(m) :
        /\ m.info[a].fInTried <=> m.tried[TriedSlot[a]] = a
        /\ m.info[a].nRefCount = Cardinality(SlotsOf(m, a))
        /\ m.info[a].nRefCount <= MaxRefs
        /\ a \notin X => (m.info[a].fInTried <=> m.info[a].nRefCount = 0)

TotalsSound(m, Y) ==
    /\ m.nNew = Cardinality({a \in KnownIn(m) \ Y : ~m.info[a].fInTried})
    /\ m.nTried = Cardinality({a \in KnownIn(m) \ Y : m.info[a].fInTried})

Sound(m, X, Y) ==
    m \in Tables /\ OrderSound(m) /\ SlotsSound(m) /\ EntriesSound(m, X) /\ TotalsSound(m, Y)

\* Two entries that differ at most in nRandomPos
SameEntry(ent, j) ==
    /\ ent.known = j.known
    /\ ent.known => ent.source = j.source /\ ent.fInTried = j.fInTried /\ ent.nRefCount = j.nRefCount

-----------------------------------------------------------------------------
(* Sets of slots and of addresses *)

LEMMA FiniteSlots == IsFiniteSet(Slots)
BY FiniteAssumption, FS_Product DEF Slots

\* An address is in finitely many slots, and in none if it is in no slot.
LEMMA SlotsOfFinite ==
    ASSUME NEW m, NEW a
    PROVE  /\ IsFiniteSet(SlotsOf(m, a)) /\ Cardinality(SlotsOf(m, a)) \in Nat
           /\ Cardinality(SlotsOf(m, a)) = 0 <=> \A k \in Slots : m.new[k] # a
<1>1. IsFiniteSet(SlotsOf(m, a))
  BY FiniteSlots, FS_Subset DEF SlotsOf
<1>2. Cardinality(SlotsOf(m, a)) \in Nat /\ (Cardinality(SlotsOf(m, a)) = 0 <=> SlotsOf(m, a) = {})
  BY <1>1, FS_CardinalityType, FS_EmptySet
<1> QED BY <1>1, <1>2 DEF SlotsOf

LEMMA KnownFinite ==
    ASSUME NEW m, NEW T, T \subseteq KnownIn(m)
    PROVE  IsFiniteSet(T) /\ Cardinality(T) \in Nat
BY FiniteAssumption, FS_Subset, FS_CardinalityType DEF KnownIn

\* Positions of known entries are typed.
LEMMA EntryType ==
    ASSUME NEW m \in Tables, NEW a \in KnownIn(m)
    PROVE  /\ a \in Addrs /\ m.info[a] \in Info /\ m.info[a].source \in Sources
           /\ m.info[a].fInTried \in BOOLEAN /\ m.info[a].nRefCount \in Nat /\ m.info[a].nRandomPos \in Nat
<1>1. a \in Addrs /\ m.info[a] \in Info \cup {Unknown} /\ m.info[a].known
  BY DEF Tables, KnownIn
<1>2. Unknown.known = FALSE
  BY DEF Unknown
<1>3. m.info[a] # Unknown
  BY <1>1, <1>2, Zenon
<1>4. m.info[a] \in Info
  BY <1>1, <1>3
<1> HIDE <1>1
<1> QED BY <1>1, <1>4 DEF Info

\* Setting one field of an entry changes no other.
LEMMA SetRandomPos ==
    ASSUME NEW ent \in Info, NEW n \in Nat
    PROVE  /\ [ent EXCEPT !.nRandomPos = n] \in Info
           /\ [ent EXCEPT !.nRandomPos = n].nRandomPos = n
           /\ SameEntry([ent EXCEPT !.nRandomPos = n], ent)
<1>1. [ent EXCEPT !.nRandomPos = n] \in Info /\ [ent EXCEPT !.nRandomPos = n].nRandomPos = n
  BY DEF Info
<1>2. SameEntry([ent EXCEPT !.nRandomPos = n], ent)
  BY DEF Info, SameEntry
<1> QED BY <1>1, <1>2

LEMMA SetRefCount ==
    ASSUME NEW ent \in Info, NEW n \in Nat
    PROVE  LET j == [ent EXCEPT !.nRefCount = n] IN
           /\ j \in Info /\ j.nRefCount = n
           /\ j.fInTried = ent.fInTried /\ j.source = ent.source /\ j.nRandomPos = ent.nRandomPos
<1>1. [ent EXCEPT !.nRefCount = n] \in Info
  BY DEF Info
<1>2. /\ [ent EXCEPT !.nRefCount = n].nRefCount = n
      /\ [ent EXCEPT !.nRefCount = n].fInTried = ent.fInTried
      /\ [ent EXCEPT !.nRefCount = n].source = ent.source
      /\ [ent EXCEPT !.nRefCount = n].nRandomPos = ent.nRandomPos
  BY DEF Info
<1> QED BY <1>1, <1>2

LEMMA SetInTried ==
    ASSUME NEW ent \in Info, NEW f \in BOOLEAN
    PROVE  LET j == [ent EXCEPT !.fInTried = f] IN
           /\ j \in Info /\ j.fInTried = f
           /\ j.nRefCount = ent.nRefCount /\ j.source = ent.source /\ j.nRandomPos = ent.nRandomPos
<1>1. [ent EXCEPT !.fInTried = f] \in Info
  BY DEF Info
<1>2. /\ [ent EXCEPT !.fInTried = f].fInTried = f
      /\ [ent EXCEPT !.fInTried = f].nRefCount = ent.nRefCount
      /\ [ent EXCEPT !.fInTried = f].source = ent.source
      /\ [ent EXCEPT !.fInTried = f].nRandomPos = ent.nRandomPos
  BY DEF Info
<1> QED BY <1>1, <1>2

\* The slot of a heard of from s is a slot, and belongs to a.
LEMMA NewSlotType ==
    ASSUME NEW a \in Addrs, NEW s \in Sources
    PROVE  NewSlot(a, s) \in Slots /\ NewPosition[<<a, NewSlot(a, s)[1]>>] = NewSlot(a, s)[2]
BY HashAssumption DEF NewSlot, Slots

-----------------------------------------------------------------------------
(* SwapRandom: only the order changes. *)

LEMMA SwapRandomSound ==
    ASSUME NEW m \in Tables, OrderSound(m), NEW p \in 1..Len(m.random), NEW q \in 1..Len(m.random)
    PROVE  LET s == SwapRandom(m, p, q) IN
           /\ s \in Tables /\ OrderSound(s)
           /\ s.new = m.new /\ s.tried = m.tried /\ s.nNew = m.nNew /\ s.nTried = m.nTried
           /\ Len(s.random) = Len(m.random)
           /\ s.random[q] = m.random[p]
           /\ \A b \in Addrs : SameEntry(s.info[b], m.info[b])
<1> DEFINE s == SwapRandom(m, p, q)
           x == m.random[p]
           y == m.random[q]
<1>1. CASE p = q
  BY <1>1 DEF SwapRandom, SameEntry
<1>2. CASE p # q
  <2>1. /\ x \in KnownIn(m) /\ y \in KnownIn(m) /\ x # y /\ x \in Addrs /\ y \in Addrs
        /\ m.info[x].nRandomPos = p /\ m.info[y].nRandomPos = q
    BY <1>2 DEF OrderSound, KnownIn
  <2>2. m.info[x] \in Info /\ m.info[y] \in Info
    BY <2>1, EntryType
  <2>3. /\ m.info \in [Addrs -> Info \cup {Unknown}] /\ m.random \in Seq(Addrs)
        /\ Len(m.random) \in Nat /\ DOMAIN m.random = 1..Len(m.random) /\ p \in Nat /\ q \in Nat
    BY LenProperties DEF Tables
  <2>4. /\ s.info = [[m.info EXCEPT ![x].nRandomPos = q] EXCEPT ![y].nRandomPos = p]
        /\ s.random = [[m.random EXCEPT ![p] = y] EXCEPT ![q] = x]
        /\ s.new = m.new /\ s.tried = m.tried /\ s.nNew = m.nNew /\ s.nTried = m.nTried
        /\ s = [info |-> s.info, new |-> s.new, tried |-> s.tried, random |-> s.random,
                nNew |-> s.nNew, nTried |-> s.nTried]
    BY <1>2, <2>1, <2>3 DEF SwapRandom, Tables
  <2> HIDE DEF s
  <2>5. /\ s.info[x] = [m.info[x] EXCEPT !.nRandomPos = q]
        /\ s.info[y] = [m.info[y] EXCEPT !.nRandomPos = p]
        /\ \A b \in Addrs \ {x, y} : s.info[b] = m.info[b]
    BY <2>1, <2>3, <2>4
  <2>6. /\ s.info[x] \in Info /\ s.info[x].nRandomPos = q /\ SameEntry(s.info[x], m.info[x])
        /\ s.info[y] \in Info /\ s.info[y].nRandomPos = p /\ SameEntry(s.info[y], m.info[y])
    <3>1. [m.info[x] EXCEPT !.nRandomPos = q] \in Info /\ [m.info[x] EXCEPT !.nRandomPos = q].nRandomPos = q
          /\ SameEntry([m.info[x] EXCEPT !.nRandomPos = q], m.info[x])
      BY <2>2, <2>3, SetRandomPos
    <3>2. [m.info[y] EXCEPT !.nRandomPos = p] \in Info /\ [m.info[y] EXCEPT !.nRandomPos = p].nRandomPos = p
          /\ SameEntry([m.info[y] EXCEPT !.nRandomPos = p], m.info[y])
      BY <2>2, <2>3, SetRandomPos
    <3> QED BY <2>5, <3>1, <3>2
  <2>7. s.info \in [Addrs -> Info \cup {Unknown}]
    <3>1. s.info = [b \in Addrs |-> s.info[b]]
      BY <2>3, <2>4
    <3>2. \A b \in Addrs : s.info[b] \in Info \cup {Unknown}
      BY <2>3, <2>5, <2>6
    <3> QED BY <3>1, <3>2
  <2>8. /\ s.random \in Seq(Addrs) /\ Len(s.random) = Len(m.random)
        /\ s.random[p] = y /\ s.random[q] = x
        /\ \A n \in 1..Len(m.random) \ {p, q} : s.random[n] = m.random[n]
    BY <1>2, <2>1, <2>3, <2>4
  <2>9. s \in Tables
    BY <2>4, <2>7, <2>8 DEF Tables
  <2>10. \A b \in Addrs : SameEntry(s.info[b], m.info[b])
    BY <2>5, <2>6 DEF SameEntry
  <2>11. KnownIn(s) = KnownIn(m)
    BY <2>10 DEF KnownIn, SameEntry
  <2>12. OrderSound(s)
    <3>1. \A n \in 1..Len(m.random) : s.random[n] \in KnownIn(m) /\ s.info[s.random[n]].nRandomPos = n
      <4> SUFFICES ASSUME NEW n \in 1..Len(m.random)
                   PROVE  s.random[n] \in KnownIn(m) /\ s.info[s.random[n]].nRandomPos = n
        OBVIOUS
      <4>1. CASE n \in {p, q}
        BY <4>1, <2>1, <2>6, <2>8
      <4>2. CASE n \notin {p, q}
        <5>1. s.random[n] = m.random[n] /\ m.random[n] \in KnownIn(m) /\ m.info[m.random[n]].nRandomPos = n
          BY <4>2, <2>8 DEF OrderSound
        <5>2. m.random[n] \in Addrs \ {x, y}
          BY <4>2, <5>1, <2>1 DEF KnownIn
        <5> QED BY <5>1, <5>2, <2>5
      <4> QED BY <4>1, <4>2
    <3>2. \A a \in KnownIn(m) : s.info[a].nRandomPos \in 1..Len(m.random) /\ s.random[s.info[a].nRandomPos] = a
      <4> SUFFICES ASSUME NEW a \in KnownIn(m)
                   PROVE  s.info[a].nRandomPos \in 1..Len(m.random) /\ s.random[s.info[a].nRandomPos] = a
        OBVIOUS
      <4>1. CASE a \in {x, y}
        BY <4>1, <2>6, <2>8
      <4>2. CASE a \notin {x, y}
        <5>1. s.info[a] = m.info[a] /\ m.info[a].nRandomPos \in 1..Len(m.random) /\ m.random[m.info[a].nRandomPos] = a
          BY <4>2, <2>5 DEF OrderSound, KnownIn
        <5>2. m.info[a].nRandomPos \notin {p, q}
          BY <4>2, <5>1
        <5> QED BY <5>1, <5>2, <2>8
      <4> QED BY <4>1, <4>2
    <3> QED BY <3>1, <3>2, <2>8, <2>11 DEF OrderSound
  <2> QED BY <2>4, <2>8, <2>9, <2>10, <2>12 DEF s
<1> QED BY <1>1, <1>2

\* Slots, entries and totals do not depend on the random order.
LEMMA SameSound ==
    ASSUME NEW m, NEW s, NEW X, NEW Y, SlotsSound(m), EntriesSound(m, X), TotalsSound(m, Y),
           s.new = m.new, s.tried = m.tried, s.nNew = m.nNew, s.nTried = m.nTried,
           \A b \in Addrs : SameEntry(s.info[b], m.info[b])
    PROVE  SlotsSound(s) /\ EntriesSound(s, X) /\ TotalsSound(s, Y)
<1>1. KnownIn(s) = KnownIn(m)
  BY DEF KnownIn, SameEntry
<1>2. \A b \in KnownIn(m) : s.info[b].fInTried = m.info[b].fInTried /\ s.info[b].nRefCount = m.info[b].nRefCount
  BY DEF KnownIn, SameEntry
<1>3. SlotsSound(s)
  BY <1>1 DEF SlotsSound
<1>4. EntriesSound(s, X)
  BY <1>1, <1>2 DEF EntriesSound, SlotsOf
<1>5. TotalsSound(s, Y)
  <2>1. /\ {a \in KnownIn(s) \ Y : ~s.info[a].fInTried} = {a \in KnownIn(m) \ Y : ~m.info[a].fInTried}
        /\ {a \in KnownIn(s) \ Y : s.info[a].fInTried} = {a \in KnownIn(m) \ Y : m.info[a].fInTried}
    BY <1>1, <1>2
  <2> QED BY <2>1 DEF TotalsSound
<1> QED BY <1>3, <1>4, <1>5

-----------------------------------------------------------------------------
(* Delete: an entry that is in no slot goes. *)

LEMMA DeleteSound ==
    ASSUME NEW m, NEW a, NEW Y, NEW Z, Sound(m, Z \cup {a}, Y),
           a \in KnownIn(m), a \notin Y, ~m.info[a].fInTried, m.info[a].nRefCount = 0
    PROVE  /\ Sound(Delete(m, a), Z, Y)
           /\ Delete(m, a).new = m.new /\ Delete(m, a).tried = m.tried
           /\ ~Delete(m, a).info[a].known
           /\ \A b \in Addrs \ {a} : SameEntry(Delete(m, a).info[b], m.info[b])
<1> DEFINE X == Z \cup {a}
           p == m.info[a].nRandomPos
           l == Len(m.random)
           s == SwapRandom(m, p, l)
           d == Delete(m, a)
<1>1. /\ m \in Tables /\ OrderSound(m) /\ SlotsSound(m) /\ EntriesSound(m, X) /\ TotalsSound(m, Y)
      /\ a \in Addrs
  BY DEF Sound, KnownIn
<1>2. p \in 1..l /\ l \in 1..l /\ l \in Nat /\ m.random[p] = a
  <2>1. p \in 1..l /\ m.random[p] = a
    BY <1>1 DEF OrderSound
  <2>2. l \in Nat
    BY <1>1, LenProperties DEF Tables
  <2> QED BY <2>1, <2>2
<1>3. /\ s \in Tables /\ OrderSound(s)
      /\ s.new = m.new /\ s.tried = m.tried /\ s.nNew = m.nNew /\ s.nTried = m.nTried
      /\ Len(s.random) = l /\ s.random[l] = a
      /\ \A b \in Addrs : SameEntry(s.info[b], m.info[b])
  BY <1>1, <1>2, SwapRandomSound
<1>4. d = [s EXCEPT !.random = SubSeq(s.random, 1, Len(s.random) - 1), !.info[a] = Unknown, !.nNew = s.nNew - 1]
  BY DEF Delete
<1> HIDE DEF s, d, p
<1>5. /\ d.random = SubSeq(s.random, 1, l - 1) /\ d.info = [s.info EXCEPT ![a] = Unknown] /\ d.nNew = m.nNew - 1
      /\ d.new = m.new /\ d.tried = m.tried /\ d.nTried = m.nTried
      /\ d = [info |-> d.info, new |-> d.new, tried |-> d.tried, random |-> d.random,
              nNew |-> d.nNew, nTried |-> d.nTried]
  BY <1>3, <1>4 DEF Tables
<1>6. SlotsSound(s) /\ EntriesSound(s, X) /\ TotalsSound(s, Y)
  BY <1>1, <1>3, SameSound
<1>7. /\ s.info \in [Addrs -> Info \cup {Unknown}] /\ s.random \in Seq(Addrs) /\ s.nNew \in Int /\ s.nTried \in Int
      /\ s.new \in [Slots -> Addrs \cup {NoAddr}] /\ s.tried \in [TriedSlots -> Addrs \cup {NoAddr}]
  BY <1>3 DEF Tables
<1>8. d.info[a] = Unknown /\ (\A b \in Addrs \ {a} : d.info[b] = s.info[b]) /\ ~d.info[a].known
  BY <1>1, <1>5, <1>7 DEF Unknown
<1>9. /\ d.random \in Seq(Addrs) /\ Len(d.random) = l - 1
      /\ \A n \in 1..(l - 1) : d.random[n] = s.random[n]
  <2>1. \A ent \in 1..(l - 1) : s.random[ent] \in Addrs
    BY <1>2, <1>3, <1>7, ElementOfSeq
  <2>2. /\ SubSeq(s.random, 1, l - 1) \in Seq(Addrs)
        /\ Len(SubSeq(s.random, 1, l - 1)) = IF 1 <= l - 1 THEN (l - 1) - 1 + 1 ELSE 0
        /\ \A ent \in 1..((l - 1) - 1 + 1) : SubSeq(s.random, 1, l - 1)[ent] = s.random[1 + ent - 1]
    BY <1>2, <2>1, SubSeqProperties
  <2> QED BY <1>2, <1>5, <2>2
<1>10. d \in Tables
  <2>1. d.info \in [Addrs -> Info \cup {Unknown}]
    BY <1>5, <1>7
  <2>2. d.nNew \in Int /\ d.nTried \in Int
    BY <1>1, <1>5 DEF Tables
  <2>3. d.new \in [Slots -> Addrs \cup {NoAddr}] /\ d.tried \in [TriedSlots -> Addrs \cup {NoAddr}]
    BY <1>3, <1>5, <1>7
  <2>4. [info |-> d.info, new |-> d.new, tried |-> d.tried, random |-> d.random,
         nNew |-> d.nNew, nTried |-> d.nTried] \in Tables
    BY <1>9, <2>1, <2>2, <2>3 DEF Tables
  <2> QED BY <1>5, <2>4, Zenon
<1>11. KnownIn(d) = KnownIn(s) \ {a} /\ a \in KnownIn(s)
  BY <1>1, <1>3, <1>8 DEF KnownIn, SameEntry
<1>12. OrderSound(d)
  <2>1. s.info[a].nRandomPos = l
    BY <1>2, <1>3 DEF OrderSound
  <2>2. \A n \in 1..(l - 1) : d.random[n] \in KnownIn(d) /\ d.info[d.random[n]].nRandomPos = n
    <3> SUFFICES ASSUME NEW n \in 1..(l - 1) PROVE d.random[n] \in KnownIn(d) /\ d.info[d.random[n]].nRandomPos = n
      OBVIOUS
    <3>1. n \in 1..l /\ n # l /\ d.random[n] = s.random[n]
      BY <1>2, <1>9
    <3>2. s.random[n] \in KnownIn(s) /\ s.info[s.random[n]].nRandomPos = n
      BY <1>3, <3>1 DEF OrderSound
    <3>3. s.random[n] # a /\ s.random[n] \in Addrs
      BY <2>1, <3>1, <3>2 DEF KnownIn
    <3> QED BY <1>8, <1>11, <3>1, <3>2, <3>3
  <2>3. \A b \in KnownIn(d) : d.info[b].nRandomPos \in 1..(l - 1) /\ d.random[d.info[b].nRandomPos] = b
    <3> SUFFICES ASSUME NEW b \in KnownIn(d)
                 PROVE  d.info[b].nRandomPos \in 1..(l - 1) /\ d.random[d.info[b].nRandomPos] = b
      OBVIOUS
    <3>1. b \in KnownIn(s) /\ b # a /\ d.info[b] = s.info[b]
      BY <1>8, <1>11 DEF KnownIn
    <3>2. s.info[b].nRandomPos \in 1..l /\ s.random[s.info[b].nRandomPos] = b
      BY <1>3, <3>1 DEF OrderSound
    <3>3. s.info[b].nRandomPos # l
      BY <1>3, <3>1, <3>2
    <3>4. s.info[b].nRandomPos \in 1..(l - 1)
      BY <1>2, <3>2, <3>3
    <3> QED BY <1>9, <3>1, <3>2, <3>4
  <2> QED BY <1>9, <2>2, <2>3 DEF OrderSound
<1>13. s.info[a].fInTried = FALSE /\ s.info[a].nRefCount = 0
  <2>1. s.info[a] \in Info
    BY <1>3, <1>11, EntryType
  <2>2. ~s.info[a].fInTried /\ s.info[a].nRefCount = 0
    BY <1>1, <1>3 DEF SameEntry, KnownIn
  <2> QED BY <2>1, <2>2 DEF Info
<1>14. (\A t \in TriedSlots : d.tried[t] # a) /\ (\A k \in Slots : d.new[k] # a)
  <2>1. d.tried[TriedSlot[a]] # a
    BY <1>3, <1>5, <1>6, <1>11, <1>13 DEF EntriesSound
  <2>2. \A t \in TriedSlots : d.tried[t] # a
    BY <1>1, <1>3, <1>5, <1>6, <2>1, NoAddrAssumption DEF SlotsSound
  <2>3. Cardinality(SlotsOf(s, a)) = 0
    BY <1>6, <1>11, <1>13 DEF EntriesSound
  <2>4. \A k \in Slots : s.new[k] # a
    BY <2>3, SlotsOfFinite
  <2> QED BY <1>3, <1>5, <2>2, <2>4
<1>15. SlotsSound(d)
  BY <1>3, <1>5, <1>6, <1>11, <1>14 DEF SlotsSound
<1>16. EntriesSound(d, Z)
  <2> SUFFICES ASSUME NEW b \in KnownIn(d)
               PROVE  /\ d.info[b].fInTried <=> d.tried[TriedSlot[b]] = b
                      /\ d.info[b].nRefCount = Cardinality(SlotsOf(d, b))
                      /\ d.info[b].nRefCount <= MaxRefs
                      /\ b \notin Z => (d.info[b].fInTried <=> d.info[b].nRefCount = 0)
    BY DEF EntriesSound
  <2>1. b \in KnownIn(s) /\ b # a /\ d.info[b] = s.info[b] /\ SlotsOf(d, b) = SlotsOf(s, b)
    BY <1>3, <1>5, <1>8, <1>11 DEF KnownIn, SlotsOf
  <2>2. b \notin Z => b \notin X
    BY <2>1
  <2> QED BY <1>3, <1>5, <1>6, <2>1, <2>2 DEF EntriesSound
<1>17. TotalsSound(d, Y)
  <2> DEFINE N == {b \in KnownIn(s) \ Y : ~s.info[b].fInTried}
  <2>1. {b \in KnownIn(d) \ Y : ~d.info[b].fInTried} = N \ {a}
    BY <1>8, <1>11 DEF KnownIn
  <2>2. a \in N
    BY <1>11, <1>13
  <2>3. IsFiniteSet(N)
    BY KnownFinite
  <2>4. Cardinality(N \ {a}) = Cardinality(N) - 1
    BY <2>2, <2>3, FS_RemoveElement
  <2>5. {b \in KnownIn(d) \ Y : d.info[b].fInTried} = {b \in KnownIn(s) \ Y : s.info[b].fInTried}
    BY <1>8, <1>11, <1>13 DEF KnownIn
  <2>6. m.nNew = Cardinality(N) /\ m.nTried = Cardinality({b \in KnownIn(s) \ Y : s.info[b].fInTried})
    BY <1>3, <1>6 DEF TotalsSound
  <2> HIDE DEF N
  <2> QED BY <1>5, <2>1, <2>4, <2>5, <2>6 DEF TotalsSound
<1>18. \A b \in Addrs \ {a} : SameEntry(d.info[b], m.info[b])
  BY <1>3, <1>8
<1> QED BY <1>5, <1>8, <1>10, <1>12, <1>15, <1>16, <1>17, <1>18 DEF Sound, d

\* The random order is sound as long as no position changes.
LEMMA SameOrder ==
    ASSUME NEW m, NEW s, OrderSound(m), s.random = m.random,
           \A b \in Addrs : s.info[b].known = m.info[b].known,
           \A b \in KnownIn(m) : s.info[b].nRandomPos = m.info[b].nRandomPos
    PROVE  OrderSound(s) /\ KnownIn(s) = KnownIn(m)
<1>1. KnownIn(s) = KnownIn(m)
  BY DEF KnownIn
<1> QED BY <1>1 DEF OrderSound

LEMMA TableParts ==
    ASSUME NEW m \in Tables
    PROVE  /\ m.info \in [Addrs -> Info \cup {Unknown}] /\ m.new \in [Slots -> Addrs \cup {NoAddr}]
           /\ m.tried \in [TriedSlots -> Addrs \cup {NoAddr}] /\ m.random \in Seq(Addrs)
           /\ m.nNew \in Int /\ m.nTried \in Int
BY DEF Tables

-----------------------------------------------------------------------------
(* ClearNew: the entry in a slot loses it, and goes if that was its last. *)

LEMMA ClearNewSound ==
    ASSUME NEW m, NEW X, NEW Y, Sound(m, X, Y), NEW k \in Slots, m.new[k] \notin X, m.new[k] \notin Y
    PROVE  LET c == ClearNew(m, k) IN
           /\ Sound(c, X, Y)
           /\ c.new = [m.new EXCEPT ![k] = NoAddr] /\ c.tried = m.tried
           /\ \A b \in Addrs \ {m.new[k]} : SameEntry(c.info[b], m.info[b])
<1> DEFINE a == m.new[k]
           c == [m EXCEPT !.new[k] = NoAddr, !.info[a].nRefCount = m.info[a].nRefCount - 1]
<1>1. /\ m \in Tables /\ OrderSound(m) /\ SlotsSound(m) /\ EntriesSound(m, X) /\ TotalsSound(m, Y)
  BY DEF Sound
<1>2. CASE a = NoAddr
  <2>1. [m.new EXCEPT ![k] = NoAddr] = m.new
    BY <1>1, <1>2, TableParts
  <2>2. \A b \in Addrs : SameEntry(m.info[b], m.info[b])
    BY DEF SameEntry
  <2> QED BY <1>2, <2>1, <2>2 DEF ClearNew
<1>3. CASE a # NoAddr
  <2>1. a \in KnownIn(m) /\ a \in Addrs
    BY <1>1, <1>3 DEF SlotsSound, KnownIn
  <2>2. m.info[a] \in Info /\ m.info[a].nRefCount \in Nat /\ m.info[a].fInTried \in BOOLEAN
    BY <1>1, <2>1, EntryType
  <2>3. /\ m.info[a].nRefCount = Cardinality(SlotsOf(m, a)) /\ m.info[a].nRefCount <= MaxRefs
        /\ m.info[a].fInTried <=> m.info[a].nRefCount = 0
        /\ m.info[a].fInTried <=> m.tried[TriedSlot[a]] = a
    BY <1>1, <2>1 DEF EntriesSound
  <2>4. k \in SlotsOf(m, a) /\ m.info[a].nRefCount # 0 /\ ~m.info[a].fInTried
    BY <2>3, SlotsOfFinite DEF SlotsOf
  <2>5. /\ c.new = [m.new EXCEPT ![k] = NoAddr]
        /\ c.info = [m.info EXCEPT ![a] = [m.info[a] EXCEPT !.nRefCount = m.info[a].nRefCount - 1]]
        /\ c.tried = m.tried /\ c.random = m.random /\ c.nNew = m.nNew /\ c.nTried = m.nTried
    BY <1>1 DEF Tables
  <2>6. ClearNew(m, k) = IF c.info[a].nRefCount = 0 THEN Delete(c, a) ELSE c
    BY <1>3 DEF ClearNew
  <2> HIDE DEF c
  <2>7. /\ m.info \in [Addrs -> Info \cup {Unknown}] /\ m.new \in [Slots -> Addrs \cup {NoAddr}]
        /\ m.tried \in [TriedSlots -> Addrs \cup {NoAddr}] /\ m.random \in Seq(Addrs)
        /\ m.nNew \in Int /\ m.nTried \in Int
    BY <1>1, TableParts
  <2>8. /\ c.info[a] = [m.info[a] EXCEPT !.nRefCount = m.info[a].nRefCount - 1]
        /\ \A b \in Addrs \ {a} : c.info[b] = m.info[b]
    BY <2>1, <2>5, <2>7
  <2>9. m.info[a].nRefCount - 1 \in Nat
    BY <2>2, <2>4
  <2>10. /\ c.info[a] \in Info /\ c.info[a].nRefCount = m.info[a].nRefCount - 1
         /\ c.info[a].fInTried = m.info[a].fInTried /\ c.info[a].source = m.info[a].source
         /\ c.info[a].nRandomPos = m.info[a].nRandomPos
    BY <2>2, <2>8, <2>9, SetRefCount
  <2>11. c \in Tables
    <3>1. [m.info EXCEPT ![a] = [m.info[a] EXCEPT !.nRefCount = m.info[a].nRefCount - 1]]
             \in [Addrs -> Info \cup {Unknown}]
      BY <2>7, <2>8, <2>10
    <3>2. [m.new EXCEPT ![k] = NoAddr] \in [Slots -> Addrs \cup {NoAddr}]
      BY <2>7
    <3> QED BY <1>1, <3>1, <3>2 DEF Tables, c
  <2>12. c.info[a].known /\ m.info[a].known
    BY <2>2, <2>10 DEF Info
  <2>13. OrderSound(c) /\ KnownIn(c) = KnownIn(m)
    <3>1. \A b \in Addrs : c.info[b].known = m.info[b].known
      BY <2>2, <2>8, <2>10 DEF Info
    <3>2. \A b \in KnownIn(m) : c.info[b].nRandomPos = m.info[b].nRandomPos
      BY <2>8, <2>10 DEF KnownIn
    <3> QED BY <1>1, <2>5, <3>1, <3>2, SameOrder
  <2>14. \A q \in Slots : c.new[q] = IF q = k THEN NoAddr ELSE m.new[q]
    BY <2>5, <2>7
  <2>15. SlotsSound(c)
    BY <1>1, <2>5, <2>13, <2>14 DEF SlotsSound
  <2>16. SlotsOf(c, a) = SlotsOf(m, a) \ {k} /\ \A b \in Addrs \ {a} : SlotsOf(c, b) = SlotsOf(m, b)
    BY <2>1, <2>14, NoAddrAssumption DEF SlotsOf
  <2>17. Cardinality(SlotsOf(c, a)) = m.info[a].nRefCount - 1
    <3>1. IsFiniteSet(SlotsOf(m, a))
      BY SlotsOfFinite
    <3>2. Cardinality(SlotsOf(m, a) \ {k}) = Cardinality(SlotsOf(m, a)) - 1
      BY <2>4, <3>1, FS_RemoveElement
    <3> QED BY <2>3, <2>16, <3>2
  <2>18. ASSUME NEW W, X \subseteq W, c.info[a].nRefCount = 0 => a \in W
         PROVE  EntriesSound(c, W)
    <3> SUFFICES ASSUME NEW b \in KnownIn(c)
                 PROVE  /\ c.info[b].fInTried <=> c.tried[TriedSlot[b]] = b
                        /\ c.info[b].nRefCount = Cardinality(SlotsOf(c, b))
                        /\ c.info[b].nRefCount <= MaxRefs
                        /\ b \notin W => (c.info[b].fInTried <=> c.info[b].nRefCount = 0)
      BY DEF EntriesSound
    <3>1. CASE b = a
      <4>1. c.info[a].nRefCount <= MaxRefs
        BY <2>2, <2>3, <2>10, BoundAssumption
      <4> QED BY <2>3, <2>4, <2>5, <2>10, <2>17, <2>18, <3>1, <4>1
    <3>2. CASE b # a
      <4>1. b \in KnownIn(m) /\ c.info[b] = m.info[b] /\ SlotsOf(c, b) = SlotsOf(m, b)
        BY <2>8, <2>13, <2>16, <3>2 DEF KnownIn
      <4>2. /\ m.info[b].fInTried <=> m.tried[TriedSlot[b]] = b
            /\ m.info[b].nRefCount = Cardinality(SlotsOf(m, b))
            /\ m.info[b].nRefCount <= MaxRefs
            /\ b \notin X => (m.info[b].fInTried <=> m.info[b].nRefCount = 0)
        BY <1>1, <4>1 DEF EntriesSound
      <4>3. b \notin W => b \notin X
        BY <2>18
      <4> QED BY <2>5, <4>1, <4>2, <4>3
    <3> QED BY <3>1, <3>2
  <2>19. TotalsSound(c, Y)
    <3>1. \A b \in KnownIn(m) : c.info[b].fInTried = m.info[b].fInTried
      BY <2>8, <2>10 DEF KnownIn
    <3>2. /\ {b \in KnownIn(c) \ Y : ~c.info[b].fInTried} = {b \in KnownIn(m) \ Y : ~m.info[b].fInTried}
          /\ {b \in KnownIn(c) \ Y : c.info[b].fInTried} = {b \in KnownIn(m) \ Y : m.info[b].fInTried}
      BY <2>13, <3>1
    <3> QED BY <1>1, <2>5, <3>2 DEF TotalsSound
  <2>20. \A b \in Addrs \ {a} : SameEntry(c.info[b], m.info[b])
    BY <2>8 DEF SameEntry
  <2>21. CASE c.info[a].nRefCount = 0
    <3> DEFINE d == Delete(c, a)
    <3>1. Sound(c, X \cup {a}, Y)
      <4>1. EntriesSound(c, X \cup {a})
        BY <2>18
      <4> QED BY <2>11, <2>13, <2>15, <2>19, <4>1 DEF Sound
    <3>2. a \in KnownIn(c) /\ a \notin Y /\ ~c.info[a].fInTried
      BY <2>1, <2>4, <2>10, <2>13
    <3>3. /\ Sound(d, X, Y) /\ d.new = c.new /\ d.tried = c.tried
          /\ \A b \in Addrs \ {a} : SameEntry(d.info[b], c.info[b])
      BY <2>21, <3>1, <3>2, DeleteSound
    <3>4. \A b \in Addrs \ {a} : SameEntry(d.info[b], m.info[b])
      BY <2>8, <3>3
    <3> HIDE DEF d
    <3> QED BY <2>5, <2>6, <2>21, <3>3, <3>4 DEF d
  <2>22. CASE c.info[a].nRefCount # 0
    <3>1. EntriesSound(c, X)
      BY <2>18, <2>22
    <3>2. Sound(c, X, Y)
      BY <2>11, <2>13, <2>15, <2>19, <3>1 DEF Sound
    <3> QED BY <2>5, <2>6, <2>20, <2>22, <3>2
  <2> QED BY <2>21, <2>22
<1> QED BY <1>2, <1>3

-----------------------------------------------------------------------------
(* Create and EnterNew *)

\* An entry that is taken into X, or that is in a slot after all.
LEMMA SoundMore ==
    ASSUME NEW m, NEW X, NEW Y, NEW W, Sound(m, X, Y), X \subseteq W
    PROVE  Sound(m, W, Y)
BY DEF Sound, EntriesSound

LEMMA SoundLess ==
    ASSUME NEW m, NEW X, NEW Y, NEW a, Sound(m, X \cup {a}, Y),
           a \in KnownIn(m), m.info[a].fInTried <=> m.info[a].nRefCount = 0
    PROVE  Sound(m, X, Y)
BY DEF Sound, EntriesSound

\* A new entry is counted, and in no slot yet.
LEMMA CreateSound ==
    ASSUME NEW m, Sound(m, {}, {}), NEW a \in Addrs, a \notin KnownIn(m), NEW s \in Sources
    PROVE  LET c == Create(m, a, s) IN
           /\ Sound(c, {a}, {})
           /\ a \in KnownIn(c) /\ ~c.info[a].fInTried /\ c.info[a].nRefCount = 0
<1> DEFINE l == Len(m.random)
           e == [known |-> TRUE, source |-> s, fInTried |-> FALSE, nRefCount |-> 0, nRandomPos |-> l + 1]
           c == Create(m, a, s)
<1>1. m \in Tables /\ OrderSound(m) /\ SlotsSound(m) /\ EntriesSound(m, {}) /\ TotalsSound(m, {})
  BY DEF Sound
<1>2. /\ m.info \in [Addrs -> Info \cup {Unknown}] /\ m.new \in [Slots -> Addrs \cup {NoAddr}]
      /\ m.tried \in [TriedSlots -> Addrs \cup {NoAddr}] /\ m.random \in Seq(Addrs)
      /\ m.nNew \in Int /\ m.nTried \in Int /\ l \in Nat
  BY <1>1, TableParts, LenProperties
<1>3. e \in Info /\ e.known = TRUE /\ e.nRefCount = 0 /\ e.fInTried = FALSE /\ e.nRandomPos = l + 1
  BY <1>2 DEF Info
<1>4. /\ Append(m.random, a) \in Seq(Addrs) /\ Len(Append(m.random, a)) = l + 1
      /\ \A n \in 1..l : Append(m.random, a)[n] = m.random[n]
      /\ Append(m.random, a)[l + 1] = a
  BY <1>2, AppendProperties
<1>5. c = [m EXCEPT !.info[a] = e, !.random = Append(m.random, a), !.nNew = m.nNew + 1]
  BY DEF Create
<1> HIDE DEF e, c
<1>6. /\ c.info = [m.info EXCEPT ![a] = e] /\ c.random = Append(m.random, a) /\ c.nNew = m.nNew + 1
      /\ c.new = m.new /\ c.tried = m.tried /\ c.nTried = m.nTried
  BY <1>1, <1>5 DEF Tables
<1>7. c \in Tables
  <2>1. [m.info EXCEPT ![a] = e] \in [Addrs -> Info \cup {Unknown}]
    BY <1>2, <1>3
  <2>2. ASSUME NEW ent \in [Addrs -> Info \cup {Unknown}], NEW r \in Seq(Addrs), NEW n \in Int
        PROVE  [m EXCEPT !.info = ent, !.random = r, !.nNew = n] \in Tables
    BY <1>1 DEF Tables
  <2>3. m.nNew + 1 \in Int
    BY <1>2
  <2> QED BY <1>4, <1>5, <2>1, <2>2, <2>3
<1>8. c.info[a] = e /\ \A b \in Addrs \ {a} : c.info[b] = m.info[b]
  BY <1>2, <1>6
<1>9. KnownIn(c) = KnownIn(m) \cup {a}
  BY <1>3, <1>8 DEF KnownIn
<1>10. OrderSound(c)
  <2>1. \A n \in 1..(l + 1) : c.random[n] \in KnownIn(c) /\ c.info[c.random[n]].nRandomPos = n
    <3> SUFFICES ASSUME NEW n \in 1..(l + 1) PROVE c.random[n] \in KnownIn(c) /\ c.info[c.random[n]].nRandomPos = n
      OBVIOUS
    <3>1. CASE n = l + 1
      BY <1>3, <1>4, <1>6, <1>8, <1>9, <3>1
    <3>2. CASE n # l + 1
      <4>1. n \in 1..l /\ c.random[n] = m.random[n]
        BY <1>2, <1>4, <1>6, <3>2
      <4>2. m.random[n] \in KnownIn(m) /\ m.info[m.random[n]].nRandomPos = n
        BY <1>1, <4>1 DEF OrderSound
      <4>3. m.random[n] \in Addrs \ {a}
        BY <4>2 DEF KnownIn
      <4> QED BY <1>8, <1>9, <4>1, <4>2, <4>3
    <3> QED BY <3>1, <3>2
  <2>2. \A b \in KnownIn(c) : c.info[b].nRandomPos \in 1..(l + 1) /\ c.random[c.info[b].nRandomPos] = b
    <3> SUFFICES ASSUME NEW b \in KnownIn(c)
                 PROVE  c.info[b].nRandomPos \in 1..(l + 1) /\ c.random[c.info[b].nRandomPos] = b
      OBVIOUS
    <3>1. CASE b = a
      BY <1>2, <1>3, <1>4, <1>6, <1>8, <3>1
    <3>2. CASE b # a
      <4>1. b \in KnownIn(m) /\ c.info[b] = m.info[b]
        BY <1>8, <1>9, <3>2 DEF KnownIn
      <4>2. m.info[b].nRandomPos \in 1..l /\ m.random[m.info[b].nRandomPos] = b
        BY <1>1, <4>1 DEF OrderSound
      <4> QED BY <1>2, <1>4, <1>6, <4>1, <4>2
    <3> QED BY <3>1, <3>2
  <2> QED BY <1>4, <1>6, <2>1, <2>2 DEF OrderSound
<1>11. (\A t \in TriedSlots : m.tried[t] # a) /\ (\A k \in Slots : m.new[k] # a)
  BY <1>1, NoAddrAssumption DEF SlotsSound
<1>12. SlotsSound(c)
  BY <1>1, <1>6, <1>9 DEF SlotsSound
<1>13. EntriesSound(c, {a})
  <2> SUFFICES ASSUME NEW b \in KnownIn(c)
               PROVE  /\ c.info[b].fInTried <=> c.tried[TriedSlot[b]] = b
                      /\ c.info[b].nRefCount = Cardinality(SlotsOf(c, b))
                      /\ c.info[b].nRefCount <= MaxRefs
                      /\ b \notin {a} => (c.info[b].fInTried <=> c.info[b].nRefCount = 0)
    BY DEF EntriesSound
  <2>1. CASE b = a
    <3>1. Cardinality(SlotsOf(c, a)) = 0
      BY <1>6, <1>11, SlotsOfFinite
    <3>2. c.tried[TriedSlot[a]] # a
      BY <1>6, <1>11, HashAssumption
    <3> QED BY <1>3, <1>8, <2>1, <3>1, <3>2, BoundAssumption
  <2>2. CASE b # a
    <3>1. b \in KnownIn(m) /\ c.info[b] = m.info[b] /\ SlotsOf(c, b) = SlotsOf(m, b)
      BY <1>6, <1>8, <1>9, <2>2 DEF KnownIn, SlotsOf
    <3> QED BY <1>1, <1>6, <3>1 DEF EntriesSound
  <2> QED BY <2>1, <2>2
<1>14. TotalsSound(c, {})
  <2> DEFINE N == {b \in KnownIn(m) \ {} : ~m.info[b].fInTried}
  <2>1. {b \in KnownIn(c) \ {} : ~c.info[b].fInTried} = N \cup {a}
    BY <1>3, <1>8, <1>9 DEF KnownIn
  <2>2. a \notin N /\ IsFiniteSet(N)
    BY KnownFinite
  <2>3. Cardinality(N \cup {a}) = Cardinality(N) + 1
    BY <2>2, FS_AddElement
  <2>4. {b \in KnownIn(c) \ {} : c.info[b].fInTried} = {b \in KnownIn(m) \ {} : m.info[b].fInTried}
    BY <1>3, <1>8, <1>9 DEF KnownIn
  <2>5. m.nNew = Cardinality(N) /\ m.nTried = Cardinality({b \in KnownIn(m) \ {} : m.info[b].fInTried})
    BY <1>1 DEF TotalsSound
  <2> HIDE DEF N
  <2> QED BY <1>6, <2>1, <2>3, <2>4, <2>5 DEF TotalsSound
<1> QED BY <1>3, <1>7, <1>8, <1>9, <1>10, <1>12, <1>13, <1>14 DEF Sound, c

\* From table m to s, entry a gets the empty slot k.
Put(m, s, a, k) ==
    /\ a \in KnownIn(m) /\ ~m.info[a].fInTried /\ m.info[a].nRefCount < MaxRefs
    /\ m.new[k] = NoAddr /\ NewPosition[<<a, k[1]>>] = k[2]
    /\ s.tried = m.tried /\ s.random = m.random
    /\ \A q \in Slots : s.new[q] = IF q = k THEN a ELSE m.new[q]
    /\ s.info[a] \in Info /\ s.info[a].nRefCount = m.info[a].nRefCount + 1
    /\ s.info[a].fInTried = m.info[a].fInTried /\ s.info[a].nRandomPos = m.info[a].nRandomPos
    /\ \A b \in Addrs \ {a} : s.info[b] = m.info[b]

\* One more slot for entry a
LEMMA PutSound ==
    ASSUME NEW m, NEW s, NEW X, NEW Y, NEW a, NEW k \in Slots,
           Sound(m, X \cup {a}, Y), Put(m, s, a, k)
    PROVE  /\ OrderSound(s) /\ SlotsSound(s) /\ EntriesSound(s, X)
           /\ KnownIn(s) = KnownIn(m)
           /\ \A b \in KnownIn(m) : s.info[b].fInTried = m.info[b].fInTried
<1>1. m \in Tables /\ OrderSound(m) /\ SlotsSound(m) /\ EntriesSound(m, X \cup {a}) /\ TotalsSound(m, Y)
  BY DEF Sound
<1>2. /\ a \in Addrs /\ m.info[a] \in Info /\ m.info[a].nRefCount \in Nat /\ m.info[a].fInTried \in BOOLEAN
  BY <1>1, EntryType DEF Put
<1>4. /\ a \in KnownIn(m) /\ ~m.info[a].fInTried /\ m.info[a].nRefCount < MaxRefs
      /\ m.new[k] = NoAddr /\ NewPosition[<<a, k[1]>>] = k[2]
      /\ s.tried = m.tried /\ s.random = m.random
      /\ \A q \in Slots : s.new[q] = IF q = k THEN a ELSE m.new[q]
      /\ \A b \in Addrs \ {a} : s.info[b] = m.info[b]
  BY DEF Put
<1>5. /\ s.info[a] \in Info /\ s.info[a].nRefCount = m.info[a].nRefCount + 1
      /\ s.info[a].fInTried = m.info[a].fInTried /\ s.info[a].nRandomPos = m.info[a].nRandomPos
  BY DEF Put
<1>6. OrderSound(s) /\ KnownIn(s) = KnownIn(m)
  <2>1. \A b \in Addrs : s.info[b].known = m.info[b].known
    BY <1>2, <1>4, <1>5 DEF Info
  <2>2. \A b \in KnownIn(m) : s.info[b].nRandomPos = m.info[b].nRandomPos
    BY <1>4, <1>5 DEF KnownIn
  <2> QED BY <1>1, <1>4, <2>1, <2>2, SameOrder
<1>7. SlotsSound(s)
  BY <1>1, <1>4, <1>6 DEF SlotsSound
<1>8. SlotsOf(s, a) = SlotsOf(m, a) \cup {k} /\ \A b \in Addrs \ {a} : SlotsOf(s, b) = SlotsOf(m, b)
  BY <1>2, <1>4, NoAddrAssumption DEF SlotsOf
<1>9. Cardinality(SlotsOf(s, a)) = m.info[a].nRefCount + 1
  <2>1. IsFiniteSet(SlotsOf(m, a)) /\ k \notin SlotsOf(m, a)
    <3>1. a # NoAddr
      BY <1>2, NoAddrAssumption
    <3>2. k \notin SlotsOf(m, a)
      BY <1>4, <3>1 DEF SlotsOf
    <3> QED BY <3>2, SlotsOfFinite
  <2>2. Cardinality(SlotsOf(m, a) \cup {k}) = Cardinality(SlotsOf(m, a)) + 1
    BY <2>1, FS_AddElement
  <2> QED BY <1>1, <1>4, <1>8, <2>2 DEF EntriesSound
<1>10. EntriesSound(s, X)
  <2> SUFFICES ASSUME NEW b \in KnownIn(s)
               PROVE  /\ s.info[b].fInTried <=> s.tried[TriedSlot[b]] = b
                      /\ s.info[b].nRefCount = Cardinality(SlotsOf(s, b))
                      /\ s.info[b].nRefCount <= MaxRefs
                      /\ b \notin X => (s.info[b].fInTried <=> s.info[b].nRefCount = 0)
    BY DEF EntriesSound
  <2>1. CASE b = a
    <3>1. m.tried[TriedSlot[a]] # a
      BY <1>1, <1>4 DEF EntriesSound
    <3>2. s.info[a].nRefCount # 0 /\ s.info[a].nRefCount <= MaxRefs
      BY <1>2, <1>4, <1>5, BoundAssumption
    <3> QED BY <1>4, <1>5, <1>9, <2>1, <3>1, <3>2
  <2>2. CASE b # a
    <3>1. b \in KnownIn(m) /\ s.info[b] = m.info[b] /\ SlotsOf(s, b) = SlotsOf(m, b)
      BY <1>4, <1>6, <1>8, <2>2 DEF KnownIn
    <3> QED BY <1>1, <1>4, <2>2, <3>1 DEF EntriesSound
  <2> QED BY <2>1, <2>2
<1>11. \A b \in KnownIn(m) : s.info[b].fInTried = m.info[b].fInTried
  BY <1>4, <1>5 DEF KnownIn
<1> QED BY <1>6, <1>7, <1>10, <1>11

\* Totals do not change with reference counts.
LEMMA SameTotals ==
    ASSUME NEW m, NEW s, NEW Y, TotalsSound(m, Y), s.nNew = m.nNew, s.nTried = m.nTried,
           KnownIn(s) = KnownIn(m), \A b \in KnownIn(m) : s.info[b].fInTried = m.info[b].fInTried
    PROVE  TotalsSound(s, Y)
<1>1. /\ {b \in KnownIn(s) \ Y : ~s.info[b].fInTried} = {b \in KnownIn(m) \ Y : ~m.info[b].fInTried}
      /\ {b \in KnownIn(s) \ Y : s.info[b].fInTried} = {b \in KnownIn(m) \ Y : m.info[b].fInTried}
  OBVIOUS
<1> QED BY <1>1 DEF TotalsSound

\* Whether or not the entry gets the slot, and whatever was in it, the table is
\* consistent again: an entry that is in no slot is gone.
LEMMA EnterNewSound ==
    ASSUME NEW m, NEW a, NEW k \in Slots, NEW terrible, Sound(m, {a}, {}),
           a \in KnownIn(m), ~m.info[a].fInTried, m.info[a].nRefCount < MaxRefs,
           NewPosition[<<a, k[1]>>] = k[2]
    PROVE  Sound(EnterNew(m, a, k, terrible), {}, {})
<1> DEFINE c == ClearNew(m, k)
           s == [c EXCEPT !.info[a].nRefCount = c.info[a].nRefCount + 1, !.new[k] = a]
<1>1. m \in Tables /\ EntriesSound(m, {a}) /\ a \in Addrs /\ {} \cup {a} = {a}
  BY DEF Sound, KnownIn
<1>2. m.info[a].nRefCount \in Nat /\ m.info[a].nRefCount = Cardinality(SlotsOf(m, a))
  BY <1>1, EntryType DEF EntriesSound
<1>3. ASSUME m.info[a].nRefCount # 0
      PROVE  Sound(m, {}, {})
  BY <1>1, <1>3, SoundLess
<1>4. CASE m.new[k] = a
  <2>1. m.info[a].nRefCount # 0
    BY <1>2, <1>4, SlotsOfFinite
  <2> QED BY <1>3, <1>4, <2>1 DEF EnterNew
<1>5. ASSUME m.new[k] # a
      PROVE  Sound(s, {}, {})
  <2>1. /\ Sound(c, {a}, {}) /\ c.new = [m.new EXCEPT ![k] = NoAddr]
        /\ \A b \in Addrs \ {m.new[k]} : SameEntry(c.info[b], m.info[b])
    <3>1. m.new[k] \notin {a} /\ m.new[k] \notin {}
      BY <1>5
    <3> QED BY <3>1, ClearNewSound
  <2> HIDE DEF c
  <2>2. c \in Tables /\ TotalsSound(c, {})
    BY <2>1 DEF Sound
  <2>3. SameEntry(c.info[a], m.info[a])
    BY <1>1, <1>5, <2>1
  <2>4. a \in KnownIn(c) /\ ~c.info[a].fInTried /\ c.info[a].nRefCount = m.info[a].nRefCount
    BY <1>1, <2>3 DEF KnownIn, SameEntry
  <2>5. c.new[k] = NoAddr
    BY <1>1, <2>1, TableParts
  <2>6. c.info[a] \in Info /\ c.info \in [Addrs -> Info \cup {Unknown}] /\ c.new \in [Slots -> Addrs \cup {NoAddr}]
        /\ c.info[a].nRefCount \in Nat
    BY <2>2, <2>4, EntryType, TableParts
  <2> DEFINE ent == c.info[a]
             e == [ent EXCEPT !.nRefCount = ent.nRefCount + 1]
  <2>11. e \in Info /\ e.nRefCount = ent.nRefCount + 1 /\ e.fInTried = ent.fInTried /\ e.nRandomPos = ent.nRandomPos
    <3>1. ent \in Info /\ ent.nRefCount + 1 \in Nat
      BY <2>6
    <3> HIDE DEF ent
    <3> QED BY <3>1 DEF Info
  <2> HIDE DEF e
  <2>7. s \in Tables
    <3> DEFINE f == [c.info EXCEPT ![a] = e]
               n == [c.new EXCEPT ![k] = a]
    <3>2. f \in [Addrs -> Info \cup {Unknown}]
      BY <2>6, <2>11
    <3>3. n \in [Slots -> Addrs \cup {NoAddr}]
      BY <1>1, <2>6
    <3>4. s = [c EXCEPT !.info = f, !.new = n]
      BY <2>2 DEF Tables, e
    <3> HIDE DEF f, n, s
    <3> QED BY <2>2, <3>2, <3>3, <3>4 DEF Tables
  <2>8. /\ s.new = [c.new EXCEPT ![k] = a] /\ s.tried = c.tried /\ s.random = c.random
        /\ s.info = [c.info EXCEPT ![a] = e]
        /\ s.nNew = c.nNew /\ s.nTried = c.nTried
    BY <2>2 DEF Tables, e
  <2> HIDE DEF s
  <2>9. /\ OrderSound(s) /\ SlotsSound(s) /\ EntriesSound(s, {}) /\ KnownIn(s) = KnownIn(c)
        /\ \A b \in KnownIn(c) : s.info[b].fInTried = c.info[b].fInTried
    <3>1. Sound(c, {} \cup {a}, {})
      BY <1>1, <2>1
    <3>2. \A q \in Slots : s.new[q] = IF q = k THEN a ELSE c.new[q]
      BY <2>6, <2>8
    <3>3. s.info[a] = e /\ \A b \in Addrs \ {a} : s.info[b] = c.info[b]
      BY <1>1, <2>6, <2>8
    <3>4. Put(c, s, a, k)
      BY <2>4, <2>5, <2>8, <2>11, <3>2, <3>3 DEF Put
    <3> QED BY <3>1, <3>4, PutSound
  <2>10. TotalsSound(s, {})
    BY <2>2, <2>8, <2>9, SameTotals
  <2> QED BY <2>7, <2>9, <2>10 DEF Sound
<1>6. ASSUME m.info[a].nRefCount = 0
      PROVE  Sound(Delete(m, a), {}, {})
  BY <1>1, <1>6, DeleteSound
<1> HIDE DEF s
<1>7. EnterNew(m, a, k, terrible) \in {m, s} \/ EnterNew(m, a, k, terrible) = Delete(m, a)
  BY DEF EnterNew, s
<1>8. /\ m.new[k] = a => EnterNew(m, a, k, terrible) = m
      /\ m.new[k] # a => \/ EnterNew(m, a, k, terrible) = s
                         \/ m.info[a].nRefCount = 0 /\ EnterNew(m, a, k, terrible) = Delete(m, a)
                         \/ m.info[a].nRefCount # 0 /\ EnterNew(m, a, k, terrible) = m
  BY DEF EnterNew, s
<1> QED BY <1>3, <1>4, <1>5, <1>6, <1>8

-----------------------------------------------------------------------------
(* MakeTried *)

\* An entry that leaves the new table leaves all its slots; the walk over the
\* buckets misses none because an entry has one position in each.
LEMMA OutOfNewSound ==
    ASSUME NEW m, NEW a, Sound(m, {}, {}), a \in KnownIn(m), ~m.info[a].fInTried
    PROVE  LET o == OutOfNew(m, a) IN
           /\ Sound(o, {a}, {a}) /\ o.tried = m.tried
           /\ a \in KnownIn(o) /\ ~o.info[a].fInTried /\ o.info[a].nRefCount = 0
<1> DEFINE S == {k \in Slots : k[2] = NewPosition[<<a, k[1]>>] /\ m.new[k] = a}
           ent == m.info[a]
           z == ent.nRefCount - Cardinality(S)
           e == [ent EXCEPT !.nRefCount = z]
           n == [k \in Slots |-> IF k \in S THEN NoAddr ELSE m.new[k]]
           f == [m.info EXCEPT ![a] = e]
           o == OutOfNew(m, a)
<1>1. m \in Tables /\ OrderSound(m) /\ SlotsSound(m) /\ EntriesSound(m, {}) /\ TotalsSound(m, {})
  BY DEF Sound
<1>2. a \in Addrs /\ ent \in Info /\ ent.nRefCount \in Nat /\ a # NoAddr
  BY <1>1, EntryType, NoAddrAssumption
<1>3. S = SlotsOf(m, a)
  BY <1>1, <1>2 DEF SlotsSound, SlotsOf
<1>4. ent.nRefCount = Cardinality(SlotsOf(m, a))
  BY <1>1 DEF EntriesSound
<1>5. o = [m EXCEPT !.new = n, !.info = f, !.nNew = m.nNew - 1]
  BY <1>1 DEF OutOfNew, Tables
<1> HIDE DEF ent, S
<1>16. z \in Nat /\ z = 0
  BY <1>2, <1>3, <1>4
<1> HIDE DEF z
<1>6. e \in Info /\ e.nRefCount = 0 /\ e.fInTried = ent.fInTried /\ e.nRandomPos = ent.nRandomPos
  BY <1>2, <1>16 DEF Info
<1> HIDE DEF e
<1>7. f \in [Addrs -> Info \cup {Unknown}] /\ f[a] = e /\ \A b \in Addrs \ {a} : f[b] = m.info[b]
  BY <1>1, <1>2, <1>6, TableParts
<1>8. n \in [Slots -> Addrs \cup {NoAddr}] /\ \A k \in Slots : n[k] = IF m.new[k] = a THEN NoAddr ELSE m.new[k]
  BY <1>1, <1>3, TableParts DEF SlotsOf
<1> HIDE DEF f, n, o
<1>9. o.new = n /\ o.info = f /\ o.nNew = m.nNew - 1 /\ o.tried = m.tried /\ o.random = m.random /\ o.nTried = m.nTried
  BY <1>1, <1>5 DEF Tables
<1>10. o \in Tables
  <2>1. m.nNew - 1 \in Int
    BY <1>1, TableParts
  <2> QED BY <1>1, <1>5, <1>7, <1>8, <2>1 DEF Tables
<1>11. OrderSound(o) /\ KnownIn(o) = KnownIn(m)
  <2>1. \A b \in Addrs : o.info[b].known = m.info[b].known
    BY <1>2, <1>6, <1>7, <1>9 DEF Info, ent
  <2>2. \A b \in KnownIn(m) : o.info[b].nRandomPos = m.info[b].nRandomPos
    BY <1>6, <1>7, <1>9 DEF KnownIn, ent
  <2> QED BY <1>1, <1>9, <2>1, <2>2, SameOrder
<1>12. SlotsSound(o)
  BY <1>1, <1>8, <1>9, <1>11 DEF SlotsSound
<1>13. EntriesSound(o, {a})
  <2> SUFFICES ASSUME NEW b \in KnownIn(o)
               PROVE  /\ o.info[b].fInTried <=> o.tried[TriedSlot[b]] = b
                      /\ o.info[b].nRefCount = Cardinality(SlotsOf(o, b))
                      /\ o.info[b].nRefCount <= MaxRefs
                      /\ b \notin {a} => (o.info[b].fInTried <=> o.info[b].nRefCount = 0)
    BY DEF EntriesSound
  <2>1. CASE b = a
    <3>1. \A k \in Slots : o.new[k] # a
      BY <1>2, <1>8, <1>9
    <3>2. Cardinality(SlotsOf(o, a)) = 0
      BY <3>1, SlotsOfFinite
    <3>3. ent.fInTried <=> m.tried[TriedSlot[a]] = a
      BY <1>1 DEF EntriesSound, ent
    <3> QED BY <1>6, <1>7, <1>9, <2>1, <3>2, <3>3, BoundAssumption
  <2>2. CASE b # a
    <3>1. b \in KnownIn(m) /\ o.info[b] = m.info[b] /\ b \in Addrs /\ b # NoAddr
      BY <1>7, <1>9, <1>11, <2>2, NoAddrAssumption DEF KnownIn
    <3>2. SlotsOf(o, b) = SlotsOf(m, b)
      BY <1>8, <1>9, <2>2, <3>1 DEF SlotsOf
    <3> QED BY <1>1, <1>9, <3>1, <3>2 DEF EntriesSound
  <2> QED BY <2>1, <2>2
<1>14. TotalsSound(o, {a})
  <2> DEFINE N == {b \in KnownIn(m) \ {} : ~m.info[b].fInTried}
  <2>1. {b \in KnownIn(o) \ {a} : ~o.info[b].fInTried} = N \ {a}
    BY <1>7, <1>9, <1>11 DEF KnownIn
  <2>2. a \in N /\ IsFiniteSet(N)
    BY KnownFinite
  <2>3. Cardinality(N \ {a}) = Cardinality(N) - 1
    BY <2>2, FS_RemoveElement
  <2>4. {b \in KnownIn(o) \ {a} : o.info[b].fInTried} = {b \in KnownIn(m) \ {} : m.info[b].fInTried}
    BY <1>7, <1>9, <1>11 DEF KnownIn
  <2>5. m.nNew = Cardinality(N) /\ m.nTried = Cardinality({b \in KnownIn(m) \ {} : m.info[b].fInTried})
    BY <1>1 DEF TotalsSound
  <2> HIDE DEF N
  <2> QED BY <1>9, <2>1, <2>3, <2>4, <2>5 DEF TotalsSound
<1>15. a \in KnownIn(o) /\ ~o.info[a].fInTried /\ o.info[a].nRefCount = 0
  BY <1>6, <1>7, <1>9, <1>11 DEF ent
<1> QED BY <1>9, <1>10, <1>11, <1>12, <1>13, <1>14, <1>15 DEF Sound, o

\* The entry that is pushed out of the tried table goes to the slot it was first
\* heard of for, and whatever is there loses it.
LEMMA BackToNewSound ==
    ASSUME NEW m, NEW X, NEW t \in TriedSlots, Sound(m, X, X), m.tried[t] # NoAddr, m.tried[t] \notin X,
           \A k \in Slots : m.new[k] \notin X
    PROVE  LET r == BackToNew(m, m.tried[t]) IN
           /\ Sound(r, X, X)
           /\ r.tried = [m.tried EXCEPT ![t] = NoAddr]
           /\ \A b \in X \cap Addrs : SameEntry(r.info[b], m.info[b])
<1> DEFINE e == m.tried[t]
           k == NewSlot(e, m.info[e].source)
           ent == m.info[e]
           j == [ent EXCEPT !.fInTried = FALSE]
           f == [m.info EXCEPT ![e] = j]
           v == [m.tried EXCEPT ![t] = NoAddr]
           o == [m EXCEPT !.info[e].fInTried = FALSE, !.tried[TriedSlot[e]] = NoAddr, !.nTried = m.nTried - 1]
           c == ClearNew(o, k)
           r == [c EXCEPT !.info[e].nRefCount = 1, !.new[k] = e, !.nNew = c.nNew + 1]
           Z == X \cup {e}
<1>1. m \in Tables /\ OrderSound(m) /\ SlotsSound(m) /\ EntriesSound(m, X) /\ TotalsSound(m, X)
  BY DEF Sound
<1>2. e \in KnownIn(m) /\ e \in Addrs /\ TriedSlot[e] = t /\ e # NoAddr
  BY <1>1 DEF SlotsSound, KnownIn
<1>3. ent \in Info /\ ent.source \in Sources /\ ent.nRefCount = 0 /\ ent.fInTried /\ ent.known
  <2>1. ent \in Info
    BY <1>1, <1>2, EntryType
  <2>2. ent.fInTried /\ ent.nRefCount = 0
    BY <1>1, <1>2 DEF EntriesSound
  <2> QED BY <2>1, <2>2 DEF Info
<1>4. \A q \in Slots : m.new[q] # e
  <2>1. Cardinality(SlotsOf(m, e)) = 0
    BY <1>1, <1>2, <1>3 DEF EntriesSound
  <2> QED BY <2>1, SlotsOfFinite
<1>5. o = [m EXCEPT !.info = f, !.tried = v, !.nTried = m.nTried - 1]
  BY <1>1, <1>2 DEF Tables
<1>6. BackToNew(m, e) = r
  BY DEF BackToNew
<1>7. k \in Slots /\ NewPosition[<<e, k[1]>>] = k[2]
  BY <1>2, <1>3, NewSlotType
<1> HIDE DEF ent, k, e
<1>8. j \in Info /\ j.nRefCount = 0 /\ j.fInTried = FALSE /\ j.nRandomPos = ent.nRandomPos /\ j.known
  BY <1>3 DEF Info
<1> HIDE DEF j
<1>9. /\ f \in [Addrs -> Info \cup {Unknown}] /\ f[e] = j /\ (\A b \in Addrs \ {e} : f[b] = m.info[b])
      /\ v \in [TriedSlots -> Addrs \cup {NoAddr}] /\ (\A u \in TriedSlots : v[u] = IF u = t THEN NoAddr ELSE m.tried[u])
  BY <1>1, <1>2, <1>8, TableParts
<1> HIDE DEF f, v, o
<1>10. o.new = m.new /\ o.info = f /\ o.nNew = m.nNew /\ o.tried = v /\ o.random = m.random /\ o.nTried = m.nTried - 1
  BY <1>1, <1>5 DEF Tables
<1>11. o \in Tables
  <2>1. m.nTried - 1 \in Int
    BY <1>1, TableParts
  <2> QED BY <1>1, <1>5, <1>9, <2>1 DEF Tables
<1>12. OrderSound(o) /\ KnownIn(o) = KnownIn(m)
  <2>1. \A b \in Addrs : o.info[b].known = m.info[b].known
    BY <1>2, <1>3, <1>8, <1>9, <1>10 DEF Info, ent
  <2>2. \A b \in KnownIn(m) : o.info[b].nRandomPos = m.info[b].nRandomPos
    BY <1>8, <1>9, <1>10 DEF KnownIn, ent
  <2> QED BY <1>1, <1>10, <2>1, <2>2, SameOrder
<1>13. SlotsSound(o)
  BY <1>1, <1>9, <1>10, <1>12 DEF SlotsSound
<1>14. EntriesSound(o, Z)
  <2> SUFFICES ASSUME NEW b \in KnownIn(o)
               PROVE  /\ o.info[b].fInTried <=> o.tried[TriedSlot[b]] = b
                      /\ o.info[b].nRefCount = Cardinality(SlotsOf(o, b))
                      /\ o.info[b].nRefCount <= MaxRefs
                      /\ b \notin Z => (o.info[b].fInTried <=> o.info[b].nRefCount = 0)
    BY DEF EntriesSound
  <2>0. SlotsOf(o, b) = SlotsOf(m, b) /\ b \in KnownIn(m) /\ b # NoAddr /\ TriedSlot[b] \in TriedSlots
    BY <1>10, <1>12, NoAddrAssumption, HashAssumption DEF SlotsOf, KnownIn
  <2>1. CASE b = e
    <3>1. Cardinality(SlotsOf(o, e)) = 0
      BY <1>4, <1>10, SlotsOfFinite
    <3> QED BY <1>2, <1>8, <1>9, <1>10, <2>0, <2>1, <3>1, BoundAssumption
  <2>2. CASE b # e
    <3>1. o.info[b] = m.info[b]
      BY <1>9, <1>10, <2>0, <2>2 DEF KnownIn
    <3>2. o.tried[TriedSlot[b]] = b <=> m.tried[TriedSlot[b]] = b
      BY <1>9, <1>10, <2>0, <2>2 DEF e
    <3> QED BY <1>1, <2>0, <2>2, <3>1, <3>2 DEF EntriesSound
  <2> QED BY <2>1, <2>2
<1>15. TotalsSound(o, Z)
  <2> DEFINE T == {b \in KnownIn(m) \ X : m.info[b].fInTried}
  <2>1. {b \in KnownIn(o) \ Z : o.info[b].fInTried} = T \ {e}
    BY <1>9, <1>10, <1>12 DEF KnownIn
  <2>2. e \in T /\ IsFiniteSet(T)
    BY <1>2, <1>3, KnownFinite DEF e, ent
  <2>3. Cardinality(T \ {e}) = Cardinality(T) - 1
    BY <2>2, FS_RemoveElement
  <2>4. {b \in KnownIn(o) \ Z : ~o.info[b].fInTried} = {b \in KnownIn(m) \ X : ~m.info[b].fInTried}
    BY <1>3, <1>9, <1>10, <1>12 DEF KnownIn, ent
  <2>5. m.nTried = Cardinality(T) /\ m.nNew = Cardinality({b \in KnownIn(m) \ X : ~m.info[b].fInTried})
    BY <1>1 DEF TotalsSound
  <2> HIDE DEF T
  <2> QED BY <1>10, <2>1, <2>3, <2>4, <2>5 DEF TotalsSound
<1>16. Sound(o, Z, Z)
  BY <1>11, <1>12, <1>13, <1>14, <1>15 DEF Sound
<1>17. /\ Sound(c, Z, Z) /\ c.new = [m.new EXCEPT ![k] = NoAddr] /\ c.tried = v
       /\ \A b \in Addrs \ {m.new[k]} : SameEntry(c.info[b], o.info[b])
  <2>1. o.new[k] \notin Z
    BY <1>4, <1>7, <1>10
  <2>2. Z = Z
    OBVIOUS
  <2> HIDE DEF Z
  <2> QED BY <1>7, <1>10, <1>16, <2>1, ClearNewSound
<1> HIDE DEF c
<1>18. c \in Tables /\ TotalsSound(c, Z)
  BY <1>17 DEF Sound
<1>19. SameEntry(c.info[e], j)
  BY <1>2, <1>4, <1>7, <1>9, <1>10, <1>17
<1>20. e \in KnownIn(c) /\ ~c.info[e].fInTried /\ c.info[e].nRefCount = 0
  BY <1>2, <1>8, <1>19 DEF KnownIn, SameEntry
<1> DEFINE w == c.info[e]
           y == [w EXCEPT !.nRefCount = 1]
           g == [c.info EXCEPT ![e] = y]
           n == [c.new EXCEPT ![k] = e]
<1>21. r = [c EXCEPT !.info = g, !.new = n, !.nNew = c.nNew + 1]
  BY <1>18 DEF Tables
<1>22. w \in Info
  BY <1>18, <1>20, EntryType
<1> HIDE DEF w
<1>23. y \in Info /\ y.nRefCount = 1 /\ y.fInTried = w.fInTried /\ y.nRandomPos = w.nRandomPos
  BY <1>22 DEF Info
<1> HIDE DEF y
<1>24. /\ g \in [Addrs -> Info \cup {Unknown}] /\ g[e] = y /\ (\A b \in Addrs \ {e} : g[b] = c.info[b])
       /\ n \in [Slots -> Addrs \cup {NoAddr}] /\ (\A q \in Slots : n[q] = IF q = k THEN e ELSE c.new[q])
  BY <1>2, <1>18, <1>23, TableParts
<1> HIDE DEF g, n, r
<1>25. /\ r.info = g /\ r.new = n /\ r.nNew = c.nNew + 1 /\ r.tried = c.tried /\ r.random = c.random
       /\ r.nTried = c.nTried
  BY <1>18, <1>21 DEF Tables
<1>26. r \in Tables
  <2>1. c.nNew + 1 \in Int
    BY <1>18, TableParts
  <2> QED BY <1>18, <1>21, <1>24, <2>1 DEF Tables
<1>27. Put(c, r, e, k)
  <2>1. c.new[k] = NoAddr
    BY <1>1, <1>7, <1>17, TableParts
  <2> QED BY <1>7, <1>20, <1>23, <1>24, <1>25, <2>1, BoundAssumption DEF Put, w
<1>28. /\ OrderSound(r) /\ SlotsSound(r) /\ EntriesSound(r, X) /\ KnownIn(r) = KnownIn(c)
       /\ \A b \in KnownIn(c) : r.info[b].fInTried = c.info[b].fInTried
  <2>1. Sound(c, X \cup {e}, Z)
    BY <1>17
  <2>2. k \in Slots
    BY <1>7
  <2> HIDE DEF Z
  <2> QED BY <1>27, <2>1, <2>2, PutSound
<1>29. TotalsSound(r, X)
  <2> DEFINE N == {b \in KnownIn(c) \ Z : ~c.info[b].fInTried}
  <2>1. {b \in KnownIn(r) \ X : ~r.info[b].fInTried} = N \cup {e}
    BY <1>20, <1>28 DEF e
  <2>2. e \notin N /\ IsFiniteSet(N)
    BY KnownFinite
  <2>3. Cardinality(N \cup {e}) = Cardinality(N) + 1
    BY <2>2, FS_AddElement
  <2>4. {b \in KnownIn(r) \ X : r.info[b].fInTried} = {b \in KnownIn(c) \ Z : c.info[b].fInTried}
    BY <1>20, <1>28
  <2>5. c.nNew = Cardinality(N) /\ c.nTried = Cardinality({b \in KnownIn(c) \ Z : c.info[b].fInTried})
    BY <1>18 DEF TotalsSound
  <2> HIDE DEF N, Z
  <2> QED BY <1>25, <2>1, <2>3, <2>4, <2>5 DEF TotalsSound
<1>30. \A b \in X \cap Addrs : SameEntry(r.info[b], m.info[b])
  <2> SUFFICES ASSUME NEW b \in X \cap Addrs PROVE SameEntry(r.info[b], m.info[b])
    OBVIOUS
  <2>1. b # e /\ b # m.new[k]
    BY <1>7 DEF e
  <2>2. r.info[b] = c.info[b] /\ o.info[b] = m.info[b]
    BY <1>9, <1>10, <1>24, <1>25, <2>1
  <2> QED BY <1>17, <2>1, <2>2
<1>31. Sound(r, X, X)
  BY <1>26, <1>28, <1>29 DEF Sound
<1> QED BY <1>6, <1>17, <1>25, <1>30, <1>31 DEF e, v

\* The entry that is made tried leaves the new table first, so that it is in no
\* slot when another entry goes back to the new table, and is in none but its own
\* at the end.
LEMMA MakeTriedSound ==
    ASSUME NEW m, NEW a, Sound(m, {}, {}), a \in KnownIn(m), ~m.info[a].fInTried
    PROVE  Sound(MakeTried(m, a), {}, {})
<1> DEFINE t == TriedSlot[a]
           o == OutOfNew(m, a)
           e == IF o.tried[t] = NoAddr THEN o ELSE BackToNew(o, o.tried[t])
           ent == e.info[a]
           j == [ent EXCEPT !.fInTried = TRUE]
           f == [e.info EXCEPT ![a] = j]
           v == [e.tried EXCEPT ![t] = a]
           r == [e EXCEPT !.tried[t] = a, !.nTried = e.nTried + 1, !.info[a].fInTried = TRUE]
<1>1. MakeTried(m, a) = r
  BY DEF MakeTried
<1>2. a \in Addrs /\ a # NoAddr /\ t \in TriedSlots
  BY NoAddrAssumption, HashAssumption DEF KnownIn
<1>3. /\ Sound(o, {a}, {a}) /\ o.tried = m.tried
      /\ a \in KnownIn(o) /\ ~o.info[a].fInTried /\ o.info[a].nRefCount = 0
  BY OutOfNewSound
<1> HIDE DEF o, t
<1>4. o \in Tables /\ EntriesSound(o, {a})
  BY <1>3 DEF Sound
<1>5. o.tried[t] # a /\ \A k \in Slots : o.new[k] # a
  <2>1. o.tried[t] # a
    BY <1>3, <1>4 DEF EntriesSound, t
  <2>2. Cardinality(SlotsOf(o, a)) = 0
    BY <1>3, <1>4 DEF EntriesSound
  <2> QED BY <2>1, <2>2, SlotsOfFinite
<1>6. /\ Sound(e, {a}, {a}) /\ e.tried \in [TriedSlots -> Addrs \cup {NoAddr}] /\ e.tried[t] = NoAddr
      /\ \A u \in TriedSlots \ {t} : e.tried[u] = o.tried[u]
      /\ SameEntry(e.info[a], o.info[a])
  <2>1. CASE o.tried[t] = NoAddr
    BY <1>3, <1>4, <2>1, TableParts DEF SameEntry
  <2>2. CASE o.tried[t] # NoAddr
    <3> DEFINE b == BackToNew(o, o.tried[t])
    <3>1. o.tried[t] \notin {a} /\ \A k \in Slots : o.new[k] \notin {a}
      BY <1>5
    <3>2. /\ Sound(b, {a}, {a}) /\ b.tried = [o.tried EXCEPT ![t] = NoAddr]
          /\ \A x \in {a} \cap Addrs : SameEntry(b.info[x], o.info[x])
      BY <1>2, <1>3, <2>2, <3>1, BackToNewSound
    <3>3. e = b
      BY <2>2
    <3> HIDE DEF b, e
    <3> QED BY <1>2, <1>4, <3>2, <3>3, TableParts
  <2> QED BY <2>1, <2>2
<1> HIDE DEF e
<1>7. /\ e \in Tables /\ OrderSound(e) /\ SlotsSound(e) /\ EntriesSound(e, {a}) /\ TotalsSound(e, {a})
  BY <1>6 DEF Sound
<1>8. a \in KnownIn(e) /\ ~ent.fInTried /\ ent.nRefCount = 0 /\ ent \in Info
  <2>1. a \in KnownIn(e) /\ ~ent.fInTried /\ ent.nRefCount = 0
    BY <1>3, <1>6 DEF KnownIn, SameEntry
  <2> QED BY <1>7, <2>1, EntryType
<1>9. r = [e EXCEPT !.info = f, !.tried = v, !.nTried = e.nTried + 1]
  BY <1>7 DEF Tables
<1> HIDE DEF ent
<1>10. j \in Info /\ j.fInTried = TRUE /\ j.nRefCount = 0 /\ j.nRandomPos = ent.nRandomPos
  BY <1>8 DEF Info
<1> HIDE DEF j
<1>11. /\ f \in [Addrs -> Info \cup {Unknown}] /\ f[a] = j /\ (\A b \in Addrs \ {a} : f[b] = e.info[b])
       /\ v \in [TriedSlots -> Addrs \cup {NoAddr}] /\ (\A u \in TriedSlots : v[u] = IF u = t THEN a ELSE e.tried[u])
  BY <1>2, <1>7, <1>10, TableParts
<1> HIDE DEF f, v, r
<1>12. r.info = f /\ r.tried = v /\ r.nTried = e.nTried + 1 /\ r.new = e.new /\ r.random = e.random /\ r.nNew = e.nNew
  BY <1>7, <1>9 DEF Tables
<1>13. r \in Tables
  <2>1. e.nTried + 1 \in Int
    BY <1>7, TableParts
  <2> QED BY <1>7, <1>9, <1>11, <2>1 DEF Tables
<1>14. OrderSound(r) /\ KnownIn(r) = KnownIn(e)
  <2>1. \A b \in Addrs : r.info[b].known = e.info[b].known
    BY <1>8, <1>10, <1>11, <1>12 DEF Info, ent
  <2>2. \A b \in KnownIn(e) : r.info[b].nRandomPos = e.info[b].nRandomPos
    BY <1>10, <1>11, <1>12 DEF KnownIn, ent
  <2> QED BY <1>7, <1>12, <2>1, <2>2, SameOrder
<1>15. SlotsSound(r)
  BY <1>7, <1>8, <1>11, <1>12, <1>14 DEF SlotsSound, t
<1>16. EntriesSound(r, {})
  <2> SUFFICES ASSUME NEW b \in KnownIn(r)
               PROVE  /\ r.info[b].fInTried <=> r.tried[TriedSlot[b]] = b
                      /\ r.info[b].nRefCount = Cardinality(SlotsOf(r, b))
                      /\ r.info[b].nRefCount <= MaxRefs
                      /\ b \notin {} => (r.info[b].fInTried <=> r.info[b].nRefCount = 0)
    BY DEF EntriesSound
  <2>0. SlotsOf(r, b) = SlotsOf(e, b) /\ b \in KnownIn(e) /\ b # NoAddr /\ b \in Addrs /\ TriedSlot[b] \in TriedSlots
    BY <1>12, <1>14, NoAddrAssumption, HashAssumption DEF SlotsOf, KnownIn
  <2>1. CASE b = a
    <3>1. r.tried[TriedSlot[a]] = a
      BY <1>2, <1>11, <1>12 DEF t
    <3>2. Cardinality(SlotsOf(e, a)) = 0
      BY <1>7, <1>8 DEF EntriesSound, ent
    <3> QED BY <1>10, <1>11, <1>12, <2>0, <2>1, <3>1, <3>2, BoundAssumption
  <2>2. CASE b # a
    <3>1. r.info[b] = e.info[b]
      BY <1>11, <1>12, <2>0, <2>2
    <3>2. r.tried[TriedSlot[b]] = b <=> e.tried[TriedSlot[b]] = b
      BY <1>6, <1>11, <1>12, <2>0, <2>2
    <3> QED BY <1>7, <2>0, <2>2, <3>1, <3>2 DEF EntriesSound
  <2> QED BY <2>1, <2>2
<1>17. TotalsSound(r, {})
  <2> DEFINE T == {b \in KnownIn(e) \ {a} : e.info[b].fInTried}
  <2>1. {b \in KnownIn(r) \ {} : r.info[b].fInTried} = T \cup {a}
    BY <1>8, <1>10, <1>11, <1>12, <1>14 DEF KnownIn
  <2>2. a \notin T /\ IsFiniteSet(T)
    BY KnownFinite
  <2>3. Cardinality(T \cup {a}) = Cardinality(T) + 1
    BY <2>2, FS_AddElement
  <2>4. {b \in KnownIn(r) \ {} : ~r.info[b].fInTried} = {b \in KnownIn(e) \ {a} : ~e.info[b].fInTried}
    BY <1>10, <1>11, <1>12, <1>14 DEF KnownIn
  <2>5. e.nTried = Cardinality(T) /\ e.nNew = Cardinality({b \in KnownIn(e) \ {a} : ~e.info[b].fInTried})
    BY <1>7 DEF TotalsSound
  <2> HIDE DEF T
  <2> QED BY <1>12, <2>1, <2>3, <2>4, <2>5 DEF TotalsSound
<1> QED BY <1>1, <1>13, <1>14, <1>15, <1>16, <1>17 DEF Sound

-----------------------------------------------------------------------------
(* GetAddr: a sequence of swaps *)

\* What swaps leave as it was
OnlyShuffled(m, s) ==
    /\ s \in Tables /\ OrderSound(s)
    /\ s.new = m.new /\ s.tried = m.tried /\ s.nNew = m.nNew /\ s.nTried = m.nTried
    /\ Len(s.random) = Len(m.random)
    /\ \A b \in Addrs : SameEntry(s.info[b], m.info[b])

\* One swap after another
IsShuffle(g, m, k, rnd) ==
    g = [n \in 0..k |-> IF n = 0 THEN m ELSE SwapRandom(g[n - 1], n, rnd[n])]

\* The recursion has a solution, for no number of swaps is the least without.
LEMMA ShuffleExists ==
    ASSUME NEW m, NEW k \in Nat, NEW rnd
    PROVE  \E g : IsShuffle(g, m, k, rnd)
<1> DEFINE T == {ent \in Nat : ~\E g : IsShuffle(g, m, ent, rnd)}
<1> SUFFICES ASSUME T # {} PROVE FALSE
  OBVIOUS
<1>1. PICK ent \in T : \A l \in Nat : l < ent => l \notin T
  <2>1. T \subseteq Nat
    OBVIOUS
  <2> HIDE DEF T
  <2> QED BY <2>1, LeastNat
<1>2. ent \in Nat /\ ~\E g : IsShuffle(g, m, ent, rnd)
  OBVIOUS
<1>3. CASE ent = 0
  <2> DEFINE g == [n \in 0..0 |-> m]
  <2>1. IsShuffle(g, m, 0, rnd)
    BY DEF IsShuffle
  <2> QED BY <1>2, <1>3, <2>1
<1>4. CASE ent # 0
  <2>1. ent - 1 \in Nat /\ ent - 1 < ent
    BY <1>2, <1>4
  <2>2. PICK g : IsShuffle(g, m, ent - 1, rnd)
    BY <1>1, <2>1
  <2> DEFINE h == [n \in 0..ent |-> IF n = ent THEN SwapRandom(g[ent - 1], ent, rnd[ent]) ELSE g[n]]
  <2>3. g = [n \in 0..(ent - 1) |-> IF n = 0 THEN m ELSE SwapRandom(g[n - 1], n, rnd[n])]
    BY <2>2 DEF IsShuffle
  <2>4. \A n \in 0..ent : h[n] = IF n = 0 THEN m ELSE SwapRandom(h[n - 1], n, rnd[n])
    <3> SUFFICES ASSUME NEW n \in 0..ent PROVE h[n] = IF n = 0 THEN m ELSE SwapRandom(h[n - 1], n, rnd[n])
      OBVIOUS
    <3>1. CASE n = ent
      <4>1. h[n] = SwapRandom(g[ent - 1], ent, rnd[ent]) /\ h[ent - 1] = g[ent - 1]
        BY <1>2, <1>4, <3>1
      <4> QED BY <1>4, <3>1, <4>1
    <3>2. CASE n # ent
      <4>1. n \in 0..(ent - 1) /\ h[n] = g[n]
        BY <1>2, <3>2
      <4>2. n # 0 => h[n - 1] = g[n - 1]
        BY <1>2, <4>1
      <4>3. g[n] = IF n = 0 THEN m ELSE SwapRandom(g[n - 1], n, rnd[n])
        BY <2>3, <4>1
      <4> HIDE DEF h
      <4> QED BY <4>1, <4>2, <4>3
    <3> QED BY <3>1, <3>2
  <2>5. h = [n \in 0..ent |-> h[n]]
    OBVIOUS
  <2>6. IsShuffle(h, m, ent, rnd)
    <3> HIDE DEF h
    <3> QED BY <2>4, <2>5 DEF IsShuffle
  <2> QED BY <1>2, <2>6
<1> QED BY <1>3, <1>4

\* After any number of swaps only the order is another.
LEMMA ShuffledSound ==
    ASSUME NEW m, m \in Tables, OrderSound(m), NEW k \in 0..Len(m.random),
           NEW rnd \in [1..k -> 1..Len(m.random)]
    PROVE  OnlyShuffled(m, Shuffled(m, k, rnd))
<1> DEFINE g == CHOOSE a : a = [n \in 0..k |-> IF n = 0 THEN m ELSE SwapRandom(a[n - 1], n, rnd[n])]
           T == {n \in 0..k : ~OnlyShuffled(m, g[n])}
<1>0. Len(m.random) \in Nat /\ k \in Nat
  BY TableParts, LenProperties
<1>1. Shuffled(m, k, rnd) = g[k]
  BY DEF Shuffled
<1>2. g = [n \in 0..k |-> IF n = 0 THEN m ELSE SwapRandom(g[n - 1], n, rnd[n])]
  <2>1. \E a : IsShuffle(a, m, k, rnd)
    BY <1>0, ShuffleExists
  <2>2. \E a : a = [n \in 0..k |-> IF n = 0 THEN m ELSE SwapRandom(a[n - 1], n, rnd[n])]
    BY <2>1 DEF IsShuffle
  <2> QED BY <2>2
<1> HIDE DEF g
<1>3. g[0] = m /\ \A n \in 1..k : g[n] = SwapRandom(g[n - 1], n, rnd[n])
  <2>1. \A n \in 0..k : g[n] = IF n = 0 THEN m ELSE SwapRandom(g[n - 1], n, rnd[n])
    BY <1>2
  <2> QED BY <1>0, <2>1
<1>4. T = {}
  <2> SUFFICES ASSUME T # {} PROVE FALSE
    OBVIOUS
  <2>1. T \subseteq Nat
    BY <1>0
  <2>2. PICK n \in T : \A l \in Nat : l < n => l \notin T
    <3> HIDE DEF T
    <3> QED BY <2>1, LeastNat
  <2>3. n \in 0..k /\ ~OnlyShuffled(m, g[n])
    OBVIOUS
  <2>4. n # 0
    <3>1. OnlyShuffled(m, m)
      BY DEF OnlyShuffled, SameEntry
    <3> QED BY <1>3, <2>3, <3>1
  <2>5. n \in 1..k /\ n - 1 \in Nat /\ n - 1 < n /\ n - 1 \in 0..k
    BY <1>0, <2>3, <2>4
  <2>6. OnlyShuffled(m, g[n - 1])
    BY <2>2, <2>5
  <2> DEFINE p == g[n - 1]
             s == SwapRandom(p, n, rnd[n])
  <2>7. p \in Tables /\ OrderSound(p) /\ Len(p.random) = Len(m.random)
    BY <2>6 DEF OnlyShuffled
  <2>8. n \in 1..Len(p.random) /\ rnd[n] \in 1..Len(p.random)
    BY <1>0, <2>5, <2>7
  <2>9. g[n] = s
    BY <1>3, <2>5
  <2> HIDE DEF p
  <2>10. /\ s \in Tables /\ OrderSound(s)
         /\ s.new = p.new /\ s.tried = p.tried /\ s.nNew = p.nNew /\ s.nTried = p.nTried
         /\ Len(s.random) = Len(p.random)
         /\ \A b \in Addrs : SameEntry(s.info[b], p.info[b])
    BY <2>7, <2>8, SwapRandomSound
  <2> HIDE DEF s
  <2>11. OnlyShuffled(m, s)
    <3>1. /\ p.new = m.new /\ p.tried = m.tried /\ p.nNew = m.nNew /\ p.nTried = m.nTried
          /\ Len(p.random) = Len(m.random)
          /\ \A b \in Addrs : SameEntry(p.info[b], m.info[b])
      BY <2>6 DEF OnlyShuffled, p
    <3>2. \A b \in Addrs : SameEntry(s.info[b], m.info[b])
      BY <2>10, <3>1 DEF SameEntry
    <3> QED BY <2>10, <3>1, <3>2 DEF OnlyShuffled
  <2> QED BY <2>3, <2>9, <2>11
<1> QED BY <1>0, <1>1, <1>4

-----------------------------------------------------------------------------
(* Restart: the file says enough to find every place again. *)

\* What the table's consistency says of the variables
LEMMA TableFacts ==
    ASSUME Sound(Table, {}, {})
    PROVE  /\ KnownIn(Table) = Known
           /\ info \in [Addrs -> Info \cup {Unknown}] /\ vvNew \in [Slots -> Addrs \cup {NoAddr}]
           /\ vvTried \in [TriedSlots -> Addrs \cup {NoAddr}] /\ vRandom \in Seq(Addrs)
           /\ nNew = Cardinality({a \in Known : ~info[a].fInTried})
           /\ nTried = Cardinality({a \in Known : info[a].fInTried})
           /\ \A t \in TriedSlots : vvTried[t] # NoAddr => vvTried[t] \in Known /\ TriedSlot[vvTried[t]] = t
           /\ \A k \in Slots : vvNew[k] # NoAddr => vvNew[k] \in Known /\ NewPosition[<<vvNew[k], k[1]>>] = k[2]
           /\ \A a \in Known :
                /\ a \in Addrs /\ info[a] \in Info /\ info[a].source \in Sources
                /\ info[a].fInTried \in BOOLEAN /\ info[a].nRefCount \in Nat
                /\ info[a].fInTried <=> vvTried[TriedSlot[a]] = a
                /\ info[a].nRefCount = Cardinality({k \in Slots : vvNew[k] = a})
                /\ info[a].nRefCount <= MaxRefs
                /\ info[a].fInTried <=> info[a].nRefCount = 0
                /\ info[a].nRandomPos \in 1..Len(vRandom) /\ vRandom[info[a].nRandomPos] = a
           /\ \A n \in 1..Len(vRandom) : vRandom[n] \in Known /\ info[vRandom[n]].nRandomPos = n
<1>1. /\ Table.info = info /\ Table.new = vvNew /\ Table.tried = vvTried /\ Table.random = vRandom
      /\ Table.nNew = nNew /\ Table.nTried = nTried
  BY DEF Table
<1>2. /\ Table \in Tables /\ OrderSound(Table) /\ SlotsSound(Table) /\ EntriesSound(Table, {})
      /\ TotalsSound(Table, {})
  BY DEF Sound
<1>3. KnownIn(Table) = Known
  BY <1>1 DEF KnownIn, Known
<1>4. /\ info \in [Addrs -> Info \cup {Unknown}] /\ vvNew \in [Slots -> Addrs \cup {NoAddr}]
      /\ vvTried \in [TriedSlots -> Addrs \cup {NoAddr}] /\ vRandom \in Seq(Addrs)
  BY <1>1, <1>2, TableParts
<1>5. /\ nNew = Cardinality({a \in Known : ~info[a].fInTried})
      /\ nTried = Cardinality({a \in Known : info[a].fInTried})
  <2>1. Known \ {} = Known
    OBVIOUS
  <2> QED BY <1>1, <1>2, <1>3, <2>1 DEF TotalsSound
<1>6. \A a \in Known : /\ a \in Addrs /\ info[a] \in Info /\ info[a].source \in Sources
                       /\ info[a].fInTried \in BOOLEAN /\ info[a].nRefCount \in Nat
  BY <1>1, <1>2, <1>3, EntryType
<1>7. \A a \in Known :
         /\ info[a].fInTried <=> vvTried[TriedSlot[a]] = a
         /\ info[a].nRefCount = Cardinality({k \in Slots : vvNew[k] = a})
         /\ info[a].nRefCount <= MaxRefs
         /\ info[a].fInTried <=> info[a].nRefCount = 0
  BY <1>1, <1>2, <1>3 DEF EntriesSound, SlotsOf
<1>8. /\ \A t \in TriedSlots : vvTried[t] # NoAddr => vvTried[t] \in Known /\ TriedSlot[vvTried[t]] = t
      /\ \A k \in Slots : vvNew[k] # NoAddr => vvNew[k] \in Known /\ NewPosition[<<vvNew[k], k[1]>>] = k[2]
  BY <1>1, <1>2, <1>3 DEF SlotsSound
<1>9. /\ \A n \in 1..Len(vRandom) : vRandom[n] \in Known /\ info[vRandom[n]].nRandomPos = n
      /\ \A a \in Known : info[a].nRandomPos \in 1..Len(vRandom) /\ vRandom[info[a].nRandomPos] = a
  BY <1>1, <1>2, <1>3 DEF OrderSound
<1> QED BY <1>3, <1>4, <1>5, <1>6, <1>7, <1>8, <1>9

\* The first comer of a slot is the only one.
LEMMA FirstComerIs ==
    ASSUME NEW a, NEW S, S \subseteq {a}, a = NoAddr => S = {}, a # NoAddr => a \in S
    PROVE  FirstComer(S) = a
<1>1. CASE a = NoAddr
  BY <1>1 DEF FirstComer
<1>2. CASE a # NoAddr
  BY <1>2 DEF FirstComer
<1> QED BY <1>1, <1>2

LEMMA RestartSound ==
    ASSUME Sound(Table, {}, {}), Restart
    PROVE  /\ vvNew' = vvNew /\ vvTried' = vvTried /\ nNew' = nNew /\ nTried' = nTried
           /\ Table' \in Tables /\ OrderSound(Table')
           /\ \A b \in Addrs : SameEntry(info'[b], info[b])
<1> DEFINE file == PeersDat
           N == {a \in Addrs : info[a].known /\ info[a].nRefCount # 0}
           T == {a \in Addrs : info[a].known /\ info[a].fInTried}
           refs(a) == Cardinality({k \in Slots : vvNew'[k] = a})
           news    == {a \in {r[1] : r \in file.new} : refs(a) > 0}
           trieds  == {vvTried'[t] : t \in TriedSlots} \ {NoAddr}
           src(a)  == CHOOSE s \in Sources : <<a, s>> \in file.new \cup file.tried
<1>1. /\ vvTried' = [t \in TriedSlots |-> FirstComer({a \in {r[1] : r \in file.tried} : TriedSlot[a] = t})]
      /\ vvNew' = [k \in Slots |-> FirstComer({a \in file.buckets[k[1]] : NewPosition[<<a, k[1]>>] = k[2]})]
      /\ vRandom' \in [1..Cardinality(news \cup trieds) -> news \cup trieds]
      /\ \A a \in news \cup trieds : \E n \in DOMAIN vRandom' : vRandom'[n] = a
      /\ info' = [a \in Addrs |->
                    IF a \in news \cup trieds
                    THEN [known |-> TRUE, source |-> src(a), fInTried |-> a \in trieds, nRefCount |-> refs(a),
                          nRandomPos |-> CHOOSE n \in DOMAIN vRandom' : vRandom'[n] = a]
                    ELSE Unknown]
      /\ nNew' = file.nNew - Cardinality({r[1] : r \in file.new} \ news)
      /\ nTried' = file.nTried - Cardinality({r[1] : r \in file.tried} \ trieds)
  BY DEF Restart, Load
<1>2. /\ file.nNew = nNew /\ file.nTried = nTried
      /\ file.new = {<<a, info[a].source>> : a \in N}
      /\ file.tried = {<<a, info[a].source>> : a \in T}
      /\ \A b \in Buckets : file.buckets[b] = {vvNew[<<b, p>>] : p \in Positions} \ {NoAddr}
  BY DEF PeersDat, InBucket
<1>3. /\ \A a \in Known :
            /\ a \in Addrs /\ info[a] \in Info /\ info[a].source \in Sources
            /\ info[a].fInTried \in BOOLEAN /\ info[a].nRefCount \in Nat
            /\ info[a].fInTried <=> vvTried[TriedSlot[a]] = a
            /\ info[a].nRefCount = Cardinality({k \in Slots : vvNew[k] = a})
            /\ info[a].fInTried <=> info[a].nRefCount = 0
      /\ info \in [Addrs -> Info \cup {Unknown}] /\ vvNew \in [Slots -> Addrs \cup {NoAddr}]
      /\ vvTried \in [TriedSlots -> Addrs \cup {NoAddr}]
  BY TableFacts
<1>4. /\ \A t \in TriedSlots : vvTried[t] # NoAddr => vvTried[t] \in Known /\ TriedSlot[vvTried[t]] = t
      /\ \A k \in Slots : vvNew[k] # NoAddr => vvNew[k] \in Known /\ NewPosition[<<vvNew[k], k[1]>>] = k[2]
  BY TableFacts
<1> HIDE DEF file
<1>5. N \subseteq Known /\ T \subseteq Known /\ N \cup T = Known
  BY <1>3 DEF Known
<1>6. {r[1] : r \in file.new} = N /\ {r[1] : r \in file.tried} = T
  <2>1. ASSUME NEW S PROVE {r[1] : r \in {<<a, info[a].source>> : a \in S}} = S
    <3>1. \A a \in S : <<a, info[a].source>> \in {<<b, info[b].source>> : b \in S} /\ <<a, info[a].source>>[1] = a
      OBVIOUS
    <3>2. \A r \in {<<a, info[a].source>> : a \in S} : r[1] \in S
      OBVIOUS
    <3> QED BY <3>1, <3>2
  <2> HIDE DEF N, T
  <2> QED BY <1>2, <2>1
<1>7. vvTried' = vvTried
  <2>1. \A t \in TriedSlots : FirstComer({a \in T : TriedSlot[a] = t}) = vvTried[t]
    <3> SUFFICES ASSUME NEW t \in TriedSlots PROVE FirstComer({a \in T : TriedSlot[a] = t}) = vvTried[t]
      OBVIOUS
    <3> DEFINE S == {a \in T : TriedSlot[a] = t}
    <3>1. S \subseteq {vvTried[t]}
      BY <1>3, <1>5
    <3>2. vvTried[t] = NoAddr => S = {}
      BY <1>3, <1>5, <3>1, NoAddrAssumption DEF Known
    <3>3. vvTried[t] # NoAddr => vvTried[t] \in S
      BY <1>3, <1>4 DEF Known
    <3> HIDE DEF S
    <3>4. FirstComer(S) = vvTried[t]
      BY <3>1, <3>2, <3>3, FirstComerIs
    <3> QED BY <3>4 DEF S
  <2>2. vvTried' = [t \in TriedSlots |-> FirstComer({a \in T : TriedSlot[a] = t})]
    BY <1>1, <1>6
  <2> HIDE DEF T
  <2> QED BY <1>3, <2>1, <2>2
<1>8. vvNew' = vvNew
  <2>1. \A k \in Slots : FirstComer({a \in file.buckets[k[1]] : NewPosition[<<a, k[1]>>] = k[2]}) = vvNew[k]
    <3> SUFFICES ASSUME NEW k \in Slots
                 PROVE  FirstComer({a \in file.buckets[k[1]] : NewPosition[<<a, k[1]>>] = k[2]}) = vvNew[k]
      OBVIOUS
    <3> DEFINE S == {a \in file.buckets[k[1]] : NewPosition[<<a, k[1]>>] = k[2]}
    <3>1. k[1] \in Buckets /\ k[2] \in Positions /\ k = <<k[1], k[2]>>
      BY DEF Slots
    <3>2. file.buckets[k[1]] = {vvNew[<<k[1], p>>] : p \in Positions} \ {NoAddr}
      BY <1>2, <3>1
    <3>3. \A a \in S : a = vvNew[k]
      <4> SUFFICES ASSUME NEW a \in S PROVE a = vvNew[k]
        OBVIOUS
      <4>1. PICK p \in Positions : a = vvNew[<<k[1], p>>]
        BY <3>2
      <4>2. a # NoAddr /\ <<k[1], p>> \in Slots
        BY <3>1, <3>2 DEF Slots
      <4>3. NewPosition[<<a, k[1]>>] = p
        BY <1>4, <4>1, <4>2
      <4> QED BY <3>1, <4>1, <4>3
    <3>4. vvNew[k] = NoAddr => S = {}
      BY <3>2, <3>3
    <3>5. vvNew[k] # NoAddr => vvNew[k] \in S
      BY <1>4, <3>1, <3>2
    <3> HIDE DEF S
    <3>6. FirstComer(S) = vvNew[k]
      BY <3>3, <3>4, <3>5, FirstComerIs
    <3> QED BY <3>6 DEF S
  <2>2. vvNew' = [k \in Slots |-> FirstComer({a \in file.buckets[k[1]] : NewPosition[<<a, k[1]>>] = k[2]})]
    BY <1>1
  <2>3. vvNew' = [k \in Slots |-> vvNew[k]]
    BY <2>1, <2>2, Zenon
  <2> QED BY <1>3, <2>3
<1>9. \A a \in Known : refs(a) = info[a].nRefCount
  BY <1>3, <1>8
<1>10. news = N
  <2>1. \A a \in N : a \in Known /\ info[a].nRefCount \in Nat /\ info[a].nRefCount # 0 /\ refs(a) = info[a].nRefCount
    BY <1>3, <1>5, <1>9
  <2>2. \A a \in N : refs(a) > 0
    <3> HIDE DEF refs, N
    <3> QED BY <2>1
  <2> HIDE DEF N, refs
  <2> QED BY <1>6, <2>2
<1>11. trieds = T
  <2>1. trieds = {vvTried[t] : t \in TriedSlots} \ {NoAddr}
    BY <1>7
  <2>2. \A a \in T : a \in trieds
    <3>1. \A a \in T : TriedSlot[a] \in TriedSlots /\ vvTried[TriedSlot[a]] = a /\ a # NoAddr
      BY <1>3, <1>5, HashAssumption, NoAddrAssumption
    <3> HIDE DEF T, trieds
    <3> QED BY <2>1, <3>1
  <2>3. \A a \in trieds : a \in T
    <3>1. \A t \in TriedSlots : vvTried[t] # NoAddr => vvTried[t] \in T
      <4> SUFFICES ASSUME NEW t \in TriedSlots, vvTried[t] # NoAddr PROVE vvTried[t] \in T
        OBVIOUS
      <4>1. vvTried[t] \in Known /\ TriedSlot[vvTried[t]] = t
        BY <1>4
      <4>2. info[vvTried[t]].fInTried
        BY <1>3, <4>1
      <4> QED BY <4>1, <4>2 DEF Known
    <3> HIDE DEF T, trieds
    <3> QED BY <2>1, <3>1
  <2> HIDE DEF trieds, T
  <2> QED BY <2>2, <2>3
<1> HIDE DEF news, trieds
<1>12. \A a \in Known : src(a) = info[a].source
  <2> SUFFICES ASSUME NEW a \in Known PROVE src(a) = info[a].source
    OBVIOUS
  <2>1. \A s : <<a, s>> \in file.new \cup file.tried <=> s = info[a].source
    <3>1. a \in N \/ a \in T
      BY <1>5
    <3> HIDE DEF N, T
    <3> QED BY <1>2, <3>1
  <2> QED BY <1>3, <2>1
<1> HIDE DEF N, T, src, refs
<1>13. nNew' = nNew /\ nTried' = nTried
  <2>1. {r[1] : r \in file.new} \ news = {} /\ {r[1] : r \in file.tried} \ trieds = {}
    BY <1>6, <1>10, <1>11
  <2>2. nNew \in Int /\ nTried \in Int
    <3>1. Table \in Tables /\ Table.nNew = nNew /\ Table.nTried = nTried
      BY DEF Sound, Table
    <3> QED BY <3>1, TableParts
  <2>3. nNew' = file.nNew - Cardinality({}) /\ nTried' = file.nTried - Cardinality({})
    BY <1>1, <2>1
  <2>4. Cardinality({}) = 0
    BY FS_EmptySet
  <2> QED BY <1>2, <2>2, <2>3, <2>4
<1>14. /\ vRandom' \in [1..Cardinality(Known) -> Known] /\ \A a \in Known : \E n \in DOMAIN vRandom' : vRandom'[n] = a
  BY <1>1, <1>5, <1>10, <1>11
<1> DEFINE c == Cardinality(Known)
           pos(a) == CHOOSE n \in DOMAIN vRandom' : vRandom'[n] = a
<1>15. IsFiniteSet(Known) /\ c \in Nat /\ Known \subseteq Addrs
  BY FiniteAssumption, FS_Subset, FS_CardinalityType DEF Known
<1>16. \A n, l \in 1..c : vRandom'[n] = vRandom'[l] => n = l
  <2>1. vRandom' \in Surjection(1..c, Known)
    BY <1>14 DEF Surjection
  <2>2. IsFiniteSet(1..c) /\ Cardinality(1..c) = c
    BY <1>15, FS_Interval
  <2> HIDE DEF c
  <2>3. vRandom' \in Injection(1..c, Known)
    BY <2>1, <2>2, FS_SurjSameCardinalityImpliesInj DEF c
  <2> QED BY <2>3 DEF Injection, IsInjective
<1>17. DOMAIN vRandom' = 1..c /\ vRandom' \in Seq(Addrs) /\ Len(vRandom') = c
  BY <1>14, <1>15, LenProperties
<1>18. \A a \in Known : pos(a) \in 1..c /\ vRandom'[pos(a)] = a /\ pos(a) \in Nat
  BY <1>14, <1>15, <1>17
<1> HIDE DEF c, pos
<1>19. \A a \in Known : info'[a] = [known |-> TRUE, source |-> info[a].source, fInTried |-> a \in trieds,
                                    nRefCount |-> info[a].nRefCount, nRandomPos |-> pos(a)]
  BY <1>1, <1>5, <1>9, <1>10, <1>11, <1>12, <1>15 DEF pos
<1>20. \A a \in Addrs \ Known : info'[a] = Unknown /\ info[a] = Unknown
  <2>1. \A a \in Addrs \ Known : info'[a] = Unknown
    BY <1>1, <1>5, <1>10, <1>11
  <2>2. \A ent \in Info : ent.known = TRUE
    BY DEF Info
  <2>3. \A a \in Addrs \ Known : info[a] = Unknown
    BY <1>3, <2>2 DEF Known
  <2> QED BY <2>1, <2>3
<1>21. \A a \in Known : (a \in trieds) = info[a].fInTried
  <2> SUFFICES ASSUME NEW a \in Known PROVE (a \in trieds) = info[a].fInTried
    OBVIOUS
  <2>1. a \in trieds <=> info[a].fInTried
    BY <1>11 DEF T, Known
  <2>2. info[a].fInTried \in BOOLEAN
    BY <1>3
  <2> DEFINE f == info[a].fInTried
             q == a \in trieds
  <2>3. q \in BOOLEAN /\ f \in BOOLEAN /\ (q <=> f)
    BY <2>1, <2>2
  <2> HIDE DEF f, q
  <2>4. q = f
    BY <2>3
  <2> QED BY <2>4 DEF f, q
<1>22. \A a \in Known : /\ info'[a] \in Info /\ info'[a].known /\ info'[a].nRandomPos = pos(a)
                        /\ SameEntry(info'[a], info[a])
  <2> SUFFICES ASSUME NEW a \in Known
               PROVE  /\ info'[a] \in Info /\ info'[a].known /\ info'[a].nRandomPos = pos(a)
                      /\ SameEntry(info'[a], info[a])
    OBVIOUS
  <2>1. info'[a] = [known |-> TRUE, source |-> info[a].source, fInTried |-> info[a].fInTried,
                    nRefCount |-> info[a].nRefCount, nRandomPos |-> pos(a)]
    BY <1>19, <1>21
  <2>2. /\ info[a].source \in Sources /\ info[a].fInTried \in BOOLEAN /\ info[a].nRefCount \in Nat
        /\ info[a].known /\ info[a] \in Info /\ pos(a) \in Nat
    BY <1>3, <1>18 DEF Known
  <2>3. info[a].known = TRUE
    BY <2>2 DEF Info
  <2> QED BY <2>1, <2>2, <2>3 DEF Info, SameEntry
<1>23. \A b \in Addrs : SameEntry(info'[b], info[b])
  BY <1>20, <1>22 DEF SameEntry
<1>24. info' \in [Addrs -> Info \cup {Unknown}]
  <2>1. info' = [a \in Addrs |-> info'[a]]
    BY <1>1
  <2>2. \A a \in Addrs : info'[a] \in Info \cup {Unknown}
    BY <1>20, <1>22
  <2> QED BY <2>1, <2>2
<1>25. Table' \in Tables
  <2>1. nNew \in Int /\ nTried \in Int
    <3>1. Table \in Tables /\ Table.nNew = nNew /\ Table.nTried = nTried
      BY DEF Sound, Table
    <3> QED BY <3>1, TableParts
  <2> QED BY <1>3, <1>7, <1>8, <1>13, <1>17, <1>24, <2>1 DEF Table, Tables
<1>26. KnownIn(Table') = Known
  <2>1. Table'.info = info'
    BY DEF Table
  <2> QED BY <1>15, <1>20, <1>22, <2>1 DEF KnownIn, Unknown
<1>27. OrderSound(Table')
  <2>1. Table'.info = info' /\ Table'.random = vRandom'
    BY DEF Table
  <2>2. \A n \in 1..c : vRandom'[n] \in Known /\ info'[vRandom'[n]].nRandomPos = n
    <3> SUFFICES ASSUME NEW n \in 1..c PROVE vRandom'[n] \in Known /\ info'[vRandom'[n]].nRandomPos = n
      OBVIOUS
    <3> DEFINE b == vRandom'[n]
    <3>1. b \in Known
      BY <1>14 DEF c
    <3>2. pos(b) \in 1..c /\ vRandom'[pos(b)] = b /\ info'[b].nRandomPos = pos(b)
      BY <1>18, <1>22, <3>1
    <3>3. pos(b) = n
      BY <1>16, <3>2
    <3> QED BY <3>1, <3>2, <3>3
  <2>3. \A a \in Known : info'[a].nRandomPos \in 1..c /\ vRandom'[info'[a].nRandomPos] = a
    BY <1>18, <1>22
  <2> QED BY <1>17, <1>26, <2>1, <2>2, <2>3 DEF OrderSound
<1> QED BY <1>7, <1>8, <1>13, <1>23, <1>25, <1>27

-----------------------------------------------------------------------------
(* The theorems *)

\* The inductive invariant: between calls every entry is in its place and counted.
Consistent == Sound(Table, {}, {})

LEMMA InitConsistent == AddrInit => Consistent
<1> SUFFICES ASSUME AddrInit PROVE Consistent
  OBVIOUS
<1>1. /\ Table.info = [a \in Addrs |-> Unknown] /\ Table.new = [k \in Slots |-> NoAddr]
      /\ Table.tried = [t \in TriedSlots |-> NoAddr] /\ Table.random = <<>>
      /\ Table.nNew = 0 /\ Table.nTried = 0
  BY DEF Table, AddrInit
<1>2. Table \in Tables
  BY DEF Table, Tables, AddrInit
<1>3. KnownIn(Table) = {}
  BY <1>1 DEF KnownIn, Unknown
<1>4. OrderSound(Table)
  BY <1>1, <1>3 DEF OrderSound
<1>5. SlotsSound(Table) /\ EntriesSound(Table, {})
  BY <1>1, <1>3 DEF SlotsSound, EntriesSound
<1>6. TotalsSound(Table, {})
  <2>1. /\ {a \in KnownIn(Table) \ {} : ~Table.info[a].fInTried} = {}
        /\ {a \in KnownIn(Table) \ {} : Table.info[a].fInTried} = {}
    BY <1>3
  <2>2. Cardinality({}) = 0
    BY FS_EmptySet
  <2> QED BY <1>1, <2>1, <2>2 DEF TotalsSound
<1> QED BY <1>2, <1>4, <1>5, <1>6 DEF Consistent, Sound

\* A call that ends with a consistent table m makes it the next state.
LEMMA BecomesConsistent ==
    ASSUME NEW m, Sound(m, {}, {}), Becomes(m)
    PROVE  Consistent'
<1>1. m \in Tables
  BY DEF Sound
<1>2. m = [info |-> m.info, new |-> m.new, tried |-> m.tried, random |-> m.random,
           nNew |-> m.nNew, nTried |-> m.nTried]
  BY <1>1 DEF Tables
<1>3. Table' = m
  BY <1>2 DEF Table, Becomes
<1> QED BY <1>3 DEF Consistent

\* Add_: the entry is new to the table, or has a reference to spare.
LEMMA AddConsistent ==
    ASSUME Consistent, NEW a \in Addrs, NEW s \in Sources, Add(a, s)
    PROVE  Consistent'
<1> DEFINE k == NewSlot(a, s)
           m == IF info[a].known THEN Table ELSE Create(Table, a, s)
<1>1. PICK terrible \in BOOLEAN : Becomes(EnterNew(m, a, k, terrible))
  BY DEF Add
<1>2. Sound(Table, {}, {}) /\ KnownIn(Table) = Known /\ Table.info = info
  <2>1. Sound(Table, {}, {})
    BY DEF Consistent
  <2> QED BY <2>1, TableFacts DEF Table
<1>3. k \in Slots /\ NewPosition[<<a, k[1]>>] = k[2]
  BY NewSlotType
<1>4. Sound(m, {a}, {}) /\ a \in KnownIn(m) /\ ~m.info[a].fInTried /\ m.info[a].nRefCount < MaxRefs
  <2>1. CASE info[a].known
    <3>1. Sound(Table, {a}, {})
      BY <1>2, SoundMore
    <3>2. info[a].nRefCount \in Nat /\ info[a].nRefCount <= MaxRefs
      BY <1>2, <2>1, TableFacts DEF Known
    <3>3. ~info[a].fInTried /\ info[a].nRefCount # MaxRefs
      BY <2>1 DEF Add, MayGrow
    <3>4. info[a].nRefCount < MaxRefs
      BY <3>2, <3>3, BoundAssumption
    <3> QED BY <1>2, <2>1, <3>1, <3>3, <3>4 DEF Known
  <2>2. CASE ~info[a].known
    <3> DEFINE c == Create(Table, a, s)
    <3>1. a \notin KnownIn(Table)
      BY <1>2, <2>2 DEF Known
    <3>2. Sound(c, {a}, {}) /\ a \in KnownIn(c) /\ ~c.info[a].fInTried /\ c.info[a].nRefCount = 0
      BY <1>2, <3>1, CreateSound
    <3> HIDE DEF c
    <3>3. c.info[a].nRefCount < MaxRefs
      BY <3>2, BoundAssumption
    <3>4. m = c
      BY <2>2 DEF c
    <3> QED BY <3>2, <3>3, <3>4
  <2> QED BY <2>1, <2>2
<1> HIDE DEF k, m
<1>5. Sound(EnterNew(m, a, k, terrible), {}, {})
  BY <1>3, <1>4, EnterNewSound
<1> QED BY <1>1, <1>5, BecomesConsistent

LEMMA GoodConsistent ==
    ASSUME Consistent, NEW a \in Addrs, Good(a)
    PROVE  Consistent'
<1>1. Sound(Table, {}, {}) /\ Becomes(MakeTried(Table, a)) /\ info[a].known /\ ~info[a].fInTried
  BY DEF Consistent, Good
<1>2. a \in KnownIn(Table) /\ ~Table.info[a].fInTried
  BY <1>1 DEF Table, KnownIn
<1>3. Sound(MakeTried(Table, a), {}, {})
  BY <1>1, <1>2, MakeTriedSound
<1> QED BY <1>1, <1>3, BecomesConsistent

LEMMA GetAddrConsistent ==
    ASSUME Consistent, GetAddr
    PROVE  Consistent'
<1> DEFINE nodes == (MaxPct * Len(vRandom)) \div 100
<1>1. PICK k \in IF nodes = 0 THEN {0} ELSE nodes..Len(vRandom) :
        \E rnd \in {r \in [1..k -> 1..Len(vRandom)] : \A n \in 1..k : r[n] >= n} :
           Becomes(Shuffled(Table, k, rnd))
  BY DEF GetAddr
<1>2. PICK rnd \in [1..k -> 1..Len(vRandom)] : Becomes(Shuffled(Table, k, rnd))
  BY <1>1
<1>3. /\ Table \in Tables /\ OrderSound(Table) /\ SlotsSound(Table) /\ EntriesSound(Table, {})
      /\ TotalsSound(Table, {}) /\ Table.random = vRandom
  BY DEF Consistent, Sound, Table
<1>4. Len(vRandom) \in Nat
  BY <1>3, TableParts, LenProperties
<1>5. nodes \in Nat
  <2>1. MaxPct \in Nat
    BY BoundAssumption
  <2>2. MaxPct * Len(vRandom) \in Nat
    BY <1>4, <2>1
  <2> QED BY <2>2
<1> HIDE DEF nodes
<1>6. k \in 0..Len(Table.random)
  BY <1>3, <1>4, <1>5
<1> DEFINE s == Shuffled(Table, k, rnd)
<1>7. OnlyShuffled(Table, s)
  BY <1>2, <1>3, <1>6, ShuffledSound
<1> HIDE DEF s
<1>8. /\ s \in Tables /\ OrderSound(s)
      /\ s.new = Table.new /\ s.tried = Table.tried /\ s.nNew = Table.nNew /\ s.nTried = Table.nTried
      /\ \A b \in Addrs : SameEntry(s.info[b], Table.info[b])
  BY <1>7 DEF OnlyShuffled
<1>9. SlotsSound(s) /\ EntriesSound(s, {}) /\ TotalsSound(s, {})
  BY <1>3, <1>8, SameSound
<1>10. Sound(s, {}, {})
  BY <1>8, <1>9 DEF Sound
<1>11. Becomes(s)
  BY <1>2 DEF s
<1> QED BY <1>10, <1>11, BecomesConsistent

LEMMA RestartConsistent ==
    ASSUME Consistent, Restart
    PROVE  Consistent'
<1>1. /\ Sound(Table, {}, {}) /\ SlotsSound(Table) /\ EntriesSound(Table, {}) /\ TotalsSound(Table, {})
  BY DEF Consistent, Sound
<1>2. /\ vvNew' = vvNew /\ vvTried' = vvTried /\ nNew' = nNew /\ nTried' = nTried
      /\ Table' \in Tables /\ OrderSound(Table')
      /\ \A b \in Addrs : SameEntry(info'[b], info[b])
  BY <1>1, RestartSound
<1> DEFINE t == Table
           u == Table'
<1>3. /\ u.new = t.new /\ u.tried = t.tried /\ u.nNew = t.nNew /\ u.nTried = t.nTried
      /\ \A b \in Addrs : SameEntry(u.info[b], t.info[b])
  BY <1>2 DEF Table
<1>4. SlotsSound(t) /\ EntriesSound(t, {}) /\ TotalsSound(t, {}) /\ u \in Tables /\ OrderSound(u)
  BY <1>1, <1>2
<1> HIDE DEF t, u
<1>5. SlotsSound(u) /\ EntriesSound(u, {}) /\ TotalsSound(u, {})
  BY <1>3, <1>4, SameSound
<1>6. Sound(u, {}, {})
  BY <1>4, <1>5 DEF Sound
<1> QED BY <1>6 DEF Consistent, u

LEMMA NextConsistent == Consistent /\ [AddrNext]_addrVars => Consistent'
<1> SUFFICES ASSUME Consistent, [AddrNext]_addrVars PROVE Consistent'
  OBVIOUS
<1>1. ASSUME NEW a \in Addrs, NEW s \in Sources, Add(a, s) PROVE Consistent'
  BY <1>1, AddConsistent
<1>2. ASSUME NEW a \in Addrs, Good(a) PROVE Consistent'
  BY <1>2, GoodConsistent
<1>3. CASE GetAddr
  BY <1>3, GetAddrConsistent
<1>4. CASE Restart
  BY <1>4, RestartConsistent
<1>5. CASE UNCHANGED addrVars
  <2>1. Table' = Table
    BY <1>5 DEF addrVars, Table
  <2> QED BY <2>1 DEF Consistent
<1> QED BY <1>1, <1>2, <1>3, <1>4, <1>5 DEF AddrNext

\* The random order counts the entries: it is a bijection.
LEMMA ConsistentTable == Consistent => TableConsistent
<1> SUFFICES ASSUME Consistent PROVE TableConsistent
  OBVIOUS
<1>1. Sound(Table, {}, {})
  BY DEF Consistent
<1> DEFINE l == Len(vRandom)
<1>2. vRandom \in Seq(Addrs) /\ l \in Nat /\ DOMAIN vRandom = 1..l
  BY <1>1, TableFacts, LenProperties
<1>3. /\ \A n \in 1..l : vRandom[n] \in Known /\ info[vRandom[n]].nRandomPos = n
      /\ \A a \in Known : info[a].nRandomPos \in 1..l /\ vRandom[info[a].nRandomPos] = a
  BY <1>1, TableFacts
<1>4. l = Cardinality(Known)
  <2>1. vRandom = [n \in 1..l |-> vRandom[n]]
    BY <1>2
  <2>2. vRandom \in [1..l -> Known]
    BY <1>3, <2>1
  <2>3. vRandom \in Bijection(1..l, Known)
    BY <1>3, <2>2 DEF Bijection, Injection, Surjection, IsInjective
  <2>4. ExistsBijection(1..l, Known)
    BY <2>3 DEF ExistsBijection
  <2> QED BY <1>2, <2>4, FS_CountingElements
<1>5. RandomExact
  BY <1>2, <1>3, <1>4 DEF RandomExact
<1>6. TablesExact /\ CountersExact
  BY <1>1, TableFacts DEF TablesExact, CountersExact
<1>7. AddrTypeOK
  <2>1. /\ info \in [Addrs -> Info \cup {Unknown}] /\ vvNew \in [Slots -> Addrs \cup {NoAddr}]
        /\ vvTried \in [TriedSlots -> Addrs \cup {NoAddr}] /\ \A a \in Known : info[a].nRefCount <= MaxRefs
    BY <1>1, TableFacts
  <2>2. nNew \in Nat /\ nTried \in Nat
    <3> DEFINE N == {a \in Known : ~info[a].fInTried}
               T == {a \in Known : info[a].fInTried}
    <3>1. IsFiniteSet(N) /\ IsFiniteSet(T)
      BY FiniteAssumption, FS_Subset DEF Known
    <3>2. nNew = Cardinality(N) /\ nTried = Cardinality(T)
      BY <1>1, TableFacts
    <3> HIDE DEF N, T
    <3> QED BY <3>1, <3>2, FS_CardinalityType
  <2> QED BY <1>2, <2>1, <2>2 DEF AddrTypeOK
<1> QED BY <1>5, <1>6, <1>7 DEF TableConsistent

LEMMA ConsistentInvariant == AddrSpec => []Consistent
<1> QED BY InitConsistent, NextConsistent, PTL DEF AddrSpec

\* After every call the tables, the reference counts, the totals and the random
\* order describe the same addresses (Check_), for any number of addresses, any
\* size of the tables and any outcome of the hashes.
THEOREM TableIsConsistent == AddrSpec => []TableConsistent
<1> QED BY ConsistentInvariant, ConsistentTable, PTL

\* Whatever was added, made tried and evicted before, peers.dat brings every
\* address back to the slots it had (Serialize, Unserialize).
THEOREM LoadLosesNothing == AddrSpec => LoadRestores
<1>1. ASSUME Consistent
      PROVE  Restart => /\ vvNew' = vvNew /\ vvTried' = vvTried
                        /\ nNew' = nNew /\ nTried' = nTried
                        /\ \A a \in Addrs : info[a].known =>
                              [info'[a] EXCEPT !.nRandomPos = 0] = [info[a] EXCEPT !.nRandomPos = 0]
  <2> SUFFICES ASSUME Restart
               PROVE  /\ vvNew' = vvNew /\ vvTried' = vvTried
                      /\ nNew' = nNew /\ nTried' = nTried
                      /\ \A a \in Addrs : info[a].known =>
                            [info'[a] EXCEPT !.nRandomPos = 0] = [info[a] EXCEPT !.nRandomPos = 0]
    OBVIOUS
  <2>1. Sound(Table, {}, {})
    BY <1>1 DEF Consistent
  <2>2. /\ vvNew' = vvNew /\ vvTried' = vvTried /\ nNew' = nNew /\ nTried' = nTried
        /\ Table' \in Tables
        /\ \A b \in Addrs : SameEntry(info'[b], info[b])
    BY <2>1, RestartSound
  <2>3. ASSUME NEW a \in Addrs, info[a].known
        PROVE  [info'[a] EXCEPT !.nRandomPos = 0] = [info[a] EXCEPT !.nRandomPos = 0]
    <3>1. a \in Known /\ info[a] \in Info
      BY <2>1, <2>3, TableFacts DEF Known
    <3>2. SameEntry(info'[a], info[a]) /\ info'[a].known
      BY <2>2, <2>3 DEF SameEntry
    <3>3. info'[a] \in Info
      <4>1. info' \in [Addrs -> Info \cup {Unknown}]
        <5>1. Table'.info = info'
          BY DEF Table
        <5> QED BY <2>2, <5>1, TableParts
      <4> QED BY <3>2, <4>1 DEF Unknown
    <3> DEFINE ent == info[a]
               j == info'[a]
    <3>4. ent \in Info /\ j \in Info /\ SameEntry(j, ent) /\ ent.known
      BY <2>3, <3>1, <3>2, <3>3
    <3> HIDE DEF ent, j
    <3>5. [j EXCEPT !.nRandomPos = 0] = [ent EXCEPT !.nRandomPos = 0]
      BY <3>4 DEF Info, SameEntry
    <3> QED BY <3>5 DEF ent, j
  <2> QED BY <2>2, <2>3
<1> QED BY <1>1, ConsistentInvariant, PTL DEF LoadRestores
=============================================================================
