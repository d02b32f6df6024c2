------------------------------- MODULE TxRelay -------------------------------
(***************************************************************************)
(* Transactions from peers: the TX message (ProcessMessage, main.cpp) on top *)
(* of the memory pool, and the orphans, whose inputs are not known yet.      *)
(*                                                                           *)
(* The handler runs under cs_main; one action is one call of                 *)
(* AcceptToMemoryPool.  recentRejects is a Bloom filter that only makes      *)
(* AlreadyHave true more often: a transaction may be ignored at any time.    *)
(***************************************************************************)
EXTENDS Mempool

CONSTANTS
    Peers,
    MaxOrphans     \* -maxorphantx

ASSUME PeersAssumption == None \notin Peers /\ MaxOrphans \in Nat

VARIABLES
    mapOrphanTransactions,         \* fromPeer of each orphan, or None
    mapOrphanTransactionsByPrev,
    vWorkQueue, i,                 \* empty outside the handler
    todo,                          \* what is left of itByPrev->second
    vEraseQueue, setMisbehaving

orphanMaps == <<mapOrphanTransactions, mapOrphanTransactionsByPrev>>
loop       == <<vWorkQueue, i, todo, vEraseQueue, setMisbehaving>>
relayVars  == <<vars, orphanMaps, loop>>

Orphans == {x \in Txs : mapOrphanTransactions[x] # None}

ForPool == UNCHANGED <<mapDeltas, tip, step, next, vHashUpdate, cut>>

-----------------------------------------------------------------------------
(* The two maps of orphans, as a pair *)

AddOrphanTx(maps, x, peer) ==
    << [maps[1] EXCEPT ![x] = peer],
       [p \in Txs |-> IF p \in Prevs(x) THEN maps[2][p] \cup {x} ELSE maps[2][p]] >>

\* Mutant of Forgotten: only the first input is forgotten.
ForgottenFirst(x) == {Vin[x][1][1]}

\* The keys of mapOrphanTransactionsByPrev from which EraseOrphanTx removes x
Forgotten(x) == Prevs(x)

\* EraseOrphanTx for each of S that is there
EraseOrphans(maps, S) ==
    << [x \in Txs |-> IF x \in S THEN None ELSE maps[1][x]],
       [p \in Txs |-> maps[2][p] \ {x \in S : maps[1][x] # None /\ p \in Forgotten(x)}] >>

EraseOrphanTx(maps, x) == EraseOrphans(maps, {x})

Become(maps) == mapOrphanTransactions' = maps[1] /\ mapOrphanTransactionsByPrev' = maps[2]

\* A random orphan goes; one is above the limit at most.
LimitOrphanTxSize(maps) ==
    LET all == {x \in Txs : maps[1][x] # None}
    IN  IF Cardinality(all) <= MaxOrphans THEN {maps} ELSE {EraseOrphanTx(maps, y) : y \in all}

-----------------------------------------------------------------------------
(* The TX message *)

Free == step = "idle" /\ vWorkQueue = <<>>

\* Without recentRejects
AlreadyHave(x) == x \in mempool.txs \/ x \in Orphans \/ Coins[x] # Pruned

\* A transaction that is not accepted and not missing inputs changes nothing.
TxMissingInputs(x, peer) ==
    /\ Free /\ ~AlreadyHave(x)
    /\ MissingInputs(mempool, x)
    /\ \E maps \in LimitOrphanTxSize(AddOrphanTx(orphanMaps, x, peer)) : Become(maps)
    /\ UNCHANGED <<vars, loop>>

TxAccepted(x) ==
    /\ Free /\ ~AlreadyHave(x)
    /\ Admissible(mempool, x)
    /\ mempool' \in LimitMempoolSize(Entered(mempool, x), {x})
    /\ IF x \in mempool'.txs
       THEN vWorkQueue' = <<x>> /\ i' = 1 /\ todo' = mapOrphanTransactionsByPrev[x]
       ELSE UNCHANGED <<vWorkQueue, i, todo>>
    /\ ForPool
    /\ UNCHANGED <<orphanMaps, vEraseQueue, setMisbehaving>>

\* Mutant of Chained: orphans of an accepted orphan are not looked for.
ChainedNot(y) == vWorkQueue

\* vWorkQueue after orphan y was accepted
Chained(y) == Append(vWorkQueue, y)

\* One orphan waiting for vWorkQueue[i]
OrphanAccepted(y) ==
    /\ y \in todo /\ mapOrphanTransactions[y] \notin setMisbehaving
    /\ Admissible(mempool, y)
    /\ mempool' \in LimitMempoolSize(Entered(mempool, y), {y})
    /\ vWorkQueue' = IF y \in mempool'.txs THEN Chained(y) ELSE vWorkQueue
    /\ vEraseQueue' = vEraseQueue \cup {y}
    /\ todo' = todo \ {y}
    /\ ForPool
    /\ UNCHANGED <<orphanMaps, i, setMisbehaving>>

\* It has its inputs and is turned down, and its peer punished or not; an
\* orphan met a second time is in the pool already and comes here too.
OrphanRejected(y) ==
    /\ y \in todo /\ mapOrphanTransactions[y] \notin setMisbehaving
    /\ ~MissingInputs(mempool, y)
    /\ setMisbehaving' \in {setMisbehaving, setMisbehaving \cup {mapOrphanTransactions[y]}}
    /\ vEraseQueue' = vEraseQueue \cup {y}
    /\ todo' = todo \ {y}
    /\ UNCHANGED <<vars, orphanMaps, vWorkQueue, i>>

\* It still misses an input, or its peer has just been punished.
OrphanSkipped(y) ==
    /\ y \in todo
    /\ mapOrphanTransactions[y] \in setMisbehaving \/ MissingInputs(mempool, y)
    /\ todo' = todo \ {y}
    /\ UNCHANGED <<vars, orphanMaps, vWorkQueue, i, vEraseQueue, setMisbehaving>>

NextInQueue ==
    /\ vWorkQueue # <<>> /\ todo = {} /\ i < Len(vWorkQueue)
    /\ i' = i + 1
    /\ todo' = mapOrphanTransactionsByPrev[vWorkQueue[i + 1]]
    /\ UNCHANGED <<vars, orphanMaps, vWorkQueue, vEraseQueue, setMisbehaving>>

LoopEnds == vWorkQueue # <<>> /\ todo = {} /\ i = Len(vWorkQueue)

EraseQueue ==
    /\ LoopEnds
    /\ Become(EraseOrphans(orphanMaps, vEraseQueue))
    /\ vWorkQueue' = <<>> /\ i' = 1 /\ vEraseQueue' = {} /\ setMisbehaving' = {}
    /\ UNCHANGED <<vars, todo>>

\* In FinalizeNode
EraseOrphansFor(peer) ==
    /\ Free
    /\ \E x \in Orphans : mapOrphanTransactions[x] = peer
    /\ Become(EraseOrphans(orphanMaps, {x \in Orphans : mapOrphanTransactions[x] = peer}))
    /\ UNCHANGED <<vars, loop>>

-----------------------------------------------------------------------------
RelayInit ==
    /\ Init
    /\ mapOrphanTransactions = [x \in Txs |-> None]
    /\ mapOrphanTransactionsByPrev = [x \in Txs |-> {}]
    /\ vWorkQueue = <<>> /\ i = 1 /\ todo = {}
    /\ vEraseQueue = {} /\ setMisbehaving = {}

RelayNext ==
    \/ vWorkQueue = <<>> /\ Next /\ UNCHANGED <<orphanMaps, loop>>
    \/ \E x \in Txs : TxAccepted(x) \/ \E p \in Peers : TxMissingInputs(x, p)
    \/ \E y \in Txs : OrphanAccepted(y) \/ OrphanRejected(y) \/ OrphanSkipped(y)
    \/ NextInQueue \/ EraseQueue
    \/ \E p \in Peers : EraseOrphansFor(p)

RelaySpec == RelayInit /\ [][RelayNext]_relayVars

-----------------------------------------------------------------------------
(* Properties *)

\* There are never more orphans than -maxorphantx, and the loop over them stays
\* within its queue.
RelayTypeOK ==
    /\ mapOrphanTransactions \in [Txs -> Peers \cup {None}]
    /\ Cardinality(Orphans) <= MaxOrphans
    /\ mapOrphanTransactionsByPrev \in [Txs -> SUBSET Txs]
    /\ ToSet(vWorkQueue) \subseteq Txs /\ i \in 1..(Len(vWorkQueue) + 1)
    /\ todo \subseteq Orphans /\ vEraseQueue \subseteq Orphans
    /\ setMisbehaving \subseteq Peers

\* Both maps describe the same orphans, after any sequence of additions, random
\* evictions, resolved orphans and departed peers: mapOrphanTransactions[hash] in
\* the loop never creates an empty transaction.
OrphanMapsAgree ==
    \A p \in Txs : mapOrphanTransactionsByPrev[p] = {x \in Orphans : p \in Prevs(x)}

\* The orphan pool stays within its limit and its two maps agree.
OrphansConsistent == RelayTypeOK /\ OrphanMapsAgree

\* When the loop ends, no orphan that waited for a transaction accepted in it is
\* left although all its inputs are known, in whatever order they were met.
NoOrphanLeftBehind ==
    ~cut /\ LoopEnds => \A y \in Orphans \ vEraseQueue :
        \/ Prevs(y) \cap mempool.txs \cap ({vWorkQueue[1]} \cup vEraseQueue) = {}
        \/ mapOrphanTransactions[y] \in setMisbehaving
        \/ \E p \in Prevs(y) : ~HaveCoins(mempool, p)
=============================================================================
