--------------------------- MODULE InsightIndexes ---------------------------
(***************************************************************************)
(* The indexes for block explorers: -addressindex, -spentindex and          *)
(* -timestampindex (main.cpp, txdb.cpp).  ConnectBlock and DisconnectBlock   *)
(* write them to the block tree database at once, one LevelDB batch after     *)
(* the other, while the coins wait in pcoinsTip: a crash sets the coins back  *)
(* and leaves the indexes where they are.  A batch that cannot be written      *)
(* throws (dbwrapper.cpp), so the calls of AbortNode behind it are not reached *)
(* and the node goes on with the block that was being moved half indexed.      *)
(*                                                                            *)
(* An address is not told apart from the outputs that pay to it; amounts are  *)
(* left out.                                                                  *)
(***************************************************************************)
EXTENDS CoinsCache, Integers

CONSTANTS
    Addressed,   \* the outputs of a transaction that pay to a key hash or a script hash
    Time,        \* nTime of a block
    MaxFaults    \* bound: crashes that set the coins back, and failed writes of an index

\* IsPayToScriptHash and IsPayToPublicKeyHash scripts are spendable.
ASSUME AddressedAssumption ==
    Addressed \in [Txs -> SUBSET Nat] /\ \A x \in Txs : Addressed[x] \subseteq Outs[x]
ASSUME TimeAssumption == Time \in [Blocks -> Nat \ {0}]
ASSUME MaxFaultsAssumption == MaxFaults \in Nat

VARIABLES
    addressIndex,       \* CAddressIndexKeys <<height, position, txid, n, spending>>
    addressUnspent,     \* blockHeight of the CAddressUnspentValue; Erased: no record
    spentIndex,         \* CSpentIndexValue <<txid, input, height>>; <<>>: no record
    timestampIndex,     \* CTimestampIndexKeys <<logical time, block>>
    timestampBlock,     \* logical time of a block; 0: no record
    faults,             \* number of these so far
    indexed             \* history: whose effects are in the indexes, and how much of them

indexes == <<addressIndex, addressUnspent, spentIndex, timestampIndex, timestampBlock, faults, indexed>>

Erased == -1
AddressedOutpoints == {o \in Outpoints \cup (Txs \X UNION {Outs[x] : x \in Txs}) : o[2] \in Addressed[o[1]]}

-----------------------------------------------------------------------------
(* What ConnectBlock collects and writes for block b *)

ReceivingActivity(b) ==
    UNION {{<<Height[b], k, Vtx[b][k], n, FALSE>> : n \in Addressed[Vtx[b][k]]} : k \in DOMAIN Vtx[b]}
SpendingActivity(b) ==
    UNION {{<<Height[b], k, Vtx[b][k], m, TRUE>> :
              m \in {l \in DOMAIN Vin[Vtx[b][k]] :
                       LET o == Vin[Vtx[b][k]][l] IN o[2] \in Addressed[o[1]]}}
           : k \in DOMAIN Vtx[b]}
ActivityOf(b) == ReceivingActivity(b) \cup SpendingActivity(b)

\* The batch has the outputs of a transaction before a later one spends them.
UnspentAfter(b) ==
    [o \in AddressedOutpoints |->
        IF o \in SpentIn(b) THEN Erased
        ELSE IF o[1] \in TxsOf(b) THEN Height[b] ELSE addressUnspent[o]]

\* the input that spends an output
SpentAfter(b) ==
    [o \in Outpoints |->
        IF o \in SpentIn(b)
        THEN CHOOSE v \in UNION {{<<x, k, Height[b]>> : k \in DOMAIN Vin[x]} : x \in TxsOf(b)} :
                Vin[v[1]][v[2]] = o
        ELSE spentIndex[o]]

\* prevLogicalTS stays 0 if the previous block has no record.
LogicalTS(b) ==
    IF Time[b] <= timestampBlock[Parent[b]] THEN timestampBlock[Parent[b]] + 1 ELSE Time[b]

Fault == faults < MaxFaults /\ faults' = faults + 1

\* The first n of the five writes of ConnectBlock
Written(n, b) ==
    /\ addressIndex' = IF n < 1 THEN addressIndex ELSE addressIndex \cup ActivityOf(b)
    /\ addressUnspent' = IF n < 2 THEN addressUnspent ELSE UnspentAfter(b)
    /\ spentIndex' = IF n < 3 THEN spentIndex ELSE SpentAfter(b)
    /\ timestampIndex' = IF n < 4 THEN timestampIndex ELSE timestampIndex \cup {<<LogicalTS(b), b>>}
    /\ timestampBlock' = IF n < 5 THEN timestampBlock ELSE [timestampBlock EXCEPT ![b] = LogicalTS(b)]

IndexedEndConnect ==
    /\ EndConnect
    /\ IF tipBest' = block
       THEN Written(5, block) /\ indexed' = [indexed EXCEPT ![block] = "whole"] /\ UNCHANGED faults
       ELSE UNCHANGED indexes

\* A write throws: the exception leaves ConnectBlock with the undo data on disk, and
\* ConnectTip's view is gone.  The block may be connected again, or never.
IndexWriteFails ==
    /\ pc = "connected" /\ Fault
    /\ \E n \in 0..4 : Written(n, block)
    /\ indexed' = [indexed EXCEPT ![block] = "part"]
    /\ undo' = [undo EXCEPT ![block] = IF @ = NoUndo THEN blockundo ELSE @]
    /\ Reject({})
    /\ UNCHANGED <<db, dbBest, tipBest, blockundo, fClean, aborted>>

-----------------------------------------------------------------------------
(* What DisconnectBlock takes back.  It also lists the records of the spent   *)
(* index to delete, and does nothing with the list.                           *)

ActivityUndone(b) == ActivityOf(b)

\* Mutant of UnspentBefore: the transactions are undone first to last.
UnspentBeforeForward(b) ==
    [o \in AddressedOutpoints |->
        IF o \in SpentIn(b) THEN undo[b][o]
        ELSE IF o[1] \in TxsOf(b) THEN Erased ELSE addressUnspent[o]]

\* Transactions last to first: what the block created is erased last.  The
\* restored height is the one of CTxInUndo.
UnspentBefore(b) ==
    [o \in AddressedOutpoints |->
        IF o[1] \in TxsOf(b) THEN Erased
        ELSE IF o \in SpentIn(b) THEN undo[b][o] ELSE addressUnspent[o]]

\* The first n of the two writes of DisconnectBlock
TakenBack(n, b) ==
    /\ addressIndex' = IF n < 1 THEN addressIndex ELSE addressIndex \ ActivityUndone(b)
    /\ addressUnspent' = IF n < 2 THEN addressUnspent ELSE UnspentBefore(b)
    /\ UNCHANGED <<spentIndex, timestampIndex, timestampBlock>>

\* The indexes are changed even if the coins did not match.
IndexedEndDisconnect ==
    /\ EndDisconnect
    /\ TakenBack(2, block)
    /\ indexed' = [indexed EXCEPT ![block] = "none"]
    /\ UNCHANGED faults

\* A write throws: the view is gone, and the block stays the tip.
IndexEraseFails ==
    /\ pc = "disconnected" /\ Fault
    /\ \E n \in 0..1 : TakenBack(n, block)
    /\ indexed' = [indexed EXCEPT ![block] = "part"]
    /\ view' = Empty
    /\ Goto("idle", 1, 1)
    /\ UNCHANGED <<db, dbBest, tip, tipBest, blockundo, undo, fClean, aborted>>

-----------------------------------------------------------------------------
IndexedInit ==
    /\ Init
    /\ addressIndex = {}
    /\ addressUnspent = [o \in AddressedOutpoints |-> Erased]
    /\ spentIndex = [o \in Outpoints |-> <<>>]
    /\ timestampIndex = {}
    /\ timestampBlock = [b \in Blocks |-> 0]
    /\ faults = 0
    /\ indexed = [b \in Blocks |-> "none"]

\* The steps of the coins that leave the indexes alone.
OtherStep ==
    \/ \E b \in Blocks : BeginConnect(b)
    \/ CheckBIP30 \/ CheckInputs \/ SpendInput \/ AddOutputs
    \/ BeginDisconnect \/ RemoveOutputs \/ ApplyTxInUndo
    \/ \E x \in Txs : Read(x) \/ Uncache(x)
    \/ FlushTip

\* The process ends and starts again.  What pcoinsTip had not written is lost, the
\* indexes stay.
IndexedRestart ==
    /\ Restart
    /\ IF tipBest = dbBest THEN UNCHANGED faults ELSE Fault
    /\ UNCHANGED <<addressIndex, addressUnspent, spentIndex, timestampIndex, timestampBlock, indexed>>

IndexedNext ==
    \/ OtherStep /\ UNCHANGED indexes
    \/ IndexedRestart
    \/ IndexedEndConnect \/ IndexWriteFails
    \/ IndexedEndDisconnect \/ IndexEraseFails

IndexedSpec == IndexedInit /\ [][IndexedNext]_<<vars, indexes>>

-----------------------------------------------------------------------------
(* Properties *)

Active == Ancestors[tipBest] \ {Genesis}

\* The indexes hold the effects of the active chain and of nothing else: a crash
\* or a failed write may leave a block behind, until it is connected again (or
\* disconnected, if it is in the active chain).  If it never is, neither is anything
\* taken back.
InStep == \A b \in Blocks : indexed[b] = IF b \in Active THEN "whole" ELSE "none"

\* getaddresstxids, getaddressdeltas: through reorganisations, crashes and failed
\* writes, the address index has exactly the activity of the active chain
\* whenever it is in step with it again.
AddressIndexExact == InStep => addressIndex = UNION {ActivityOf(b) : b \in Active}

\* getaddressutxos: in step with the chain the unspent index has a record of exactly
\* the unspent outputs of the chain, as computed from its blocks alone.  The height
\* in it is another matter: DisconnectBlock restores an output with the nHeight of
\* its CTxInUndo, which is 0 while the transaction has other outputs left.
UnspentIndexExact ==
    InStep => \A o \in AddressedOutpoints :
        addressUnspent[o] # Erased <=> o[2] \in CoinsOf[tipBest][o[1]].outs

\* Some chain may spend o twice: its txid was used again after all was spent.
Respent(o) ==
    \E d \in Blocks \ {Genesis} :
        /\ Acceptable(CoinsOf[Parent[d]], d) /\ o \in SpentIn(d)
        /\ \E b \in Ancestors[Parent[d]] : o \in SpentIn(b)

\* getspentinfo: in step with the chain every output the chain spends is recorded
\* with the transaction, input and height that spend it, although nothing is ever
\* deleted: connecting a block overwrites what another branch left.  (Of two
\* spends of a txid that was used again there is one record, of the later one
\* even when that is disconnected.)
SpentIndexComplete ==
    InStep => \A b \in Active : \A x \in TxsOf(b) : \A k \in DOMAIN Vin[x] :
        ~Respent(Vin[x][k]) => spentIndex[Vin[x][k]] = <<x, k, Height[b]>>

\* getspentinfo tells of no spend outside the active chain: DisconnectBlock lists
\* the records of the block to "undo and delete the spent index".
SpentIndexSound ==
    InStep => \A o \in Outpoints :
        spentIndex[o] # <<>> =>
            \E b \in Active : spentIndex[o][1] \in TxsOf(b) /\ spentIndex[o][3] = Height[b]

\* getblockhashes: at any moment every active block has one logical time, the two
\* indexes agree on it, and it is later than its parent's, whatever nTime says and
\* however often the block was connected.
TimestampsOrdered ==
    \A b \in Active :
        /\ {e \in timestampIndex : e[2] = b} = {<<timestampBlock[b], b>>}
        /\ timestampBlock[b] > timestampBlock[Parent[b]]
        /\ timestampBlock[b] >= Time[b]

\* What the RPCs of all indexes tell agrees with the active chain, after any
\* reorganisations, crashes and failed writes, once the indexes have caught up.
IndexesExact == AddressIndexExact /\ UnspentIndexExact /\ SpentIndexComplete /\ TimestampsOrdered
=============================================================================
