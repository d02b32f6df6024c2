----------------------------- MODULE CoinsCache -----------------------------
(***************************************************************************)
(* The coins in three layers (coins.cpp, txdb.cpp): the database, the cache  *)
(* pcoinsTip over it, and the temporary cache "view" through which           *)
(* ConnectBlock and DisconnectBlock (main.cpp) change the coins block by     *)
(* block, with the undo data that disconnecting a block needs.               *)
(*                                                                           *)
(* One action is one transaction's checks, one input, one transaction's      *)
(* outputs, or one flush of a layer; everything happens under cs_main.       *)
(***************************************************************************)
EXTENDS BlockContents

VARIABLES
    db, dbBest,         \* CCoinsViewDB; Pruned: no record
    tip, tipBest,       \* pcoinsTip: cacheCoins and hashBlock
    view,               \* cacheCoins of the view in use
    pc, block, i, j,    \* position in ConnectBlock or DisconnectBlock
    blockundo,          \* nHeight of the CTxInUndo of each input so far
    undo,               \* the undo data of each block, on disk
    fClean,
    aborted             \* AbortNode was called

layers   == <<db, dbBest, tip, tipBest, view>>
position == <<pc, block, i, j>>
vars     == <<layers, position, blockundo, undo, fClean, aborted>>

\* idle
\* connecting:    bip30 (each transaction) -> inputs -> spend (each input) ->
\*                outputs -> inputs (next transaction) ... -> connected
\* disconnecting: remove -> restore (each input) -> remove ... -> disconnected
PC == {"idle", "bip30", "inputs", "spend", "outputs", "connected",
       "remove", "restore", "disconnected"}

Entry  == [cached : BOOLEAN, coins : CoinsType, dirty : BOOLEAN, fresh : BOOLEAN]
Absent == [cached |-> FALSE, coins |-> Pruned, dirty |-> FALSE, fresh |-> FALSE]
Empty  == [x \in Txs |-> Absent]

NoUndo == [o \in {} |-> 0]

\* What some transaction spends
Outpoints == UNION {Items(Vin[x]) : x \in Txs}

\* Some transaction does, which tells the undo data of a block from NoUndo.
ASSUME OutpointsAssumption == Outpoints # {}

-----------------------------------------------------------------------------
(* CCoinsViewCache *)

\* GetCoins of pcoinsTip and of the view, as seen by a caller
TipCoins(x)  == IF tip[x].cached THEN tip[x].coins ELSE db[x]
ViewCoins(x) == IF view[x].cached THEN view[x].coins ELSE TipCoins(x)

\* FetchCoins of pcoinsTip for the txids S
TipFetched(S) ==
    [x \in Txs |-> IF x \in S /\ ~tip[x].cached /\ db[x] # Pruned
                   THEN [cached |-> TRUE, coins |-> db[x], dirty |-> FALSE, fresh |-> FALSE]
                   ELSE tip[x]]

\* pcoinsTip after the view has fetched the txids S
Filled(S) == TipFetched({x \in S : ~view[x].cached})

\* FetchCoins of the view for the txids S
ViewFetched(S) ==
    [x \in Txs |-> IF x \in S /\ ~view[x].cached /\ Filled(S)[x].cached
                   THEN [cached |-> TRUE, coins |-> TipCoins(x), dirty |-> FALSE,
                         fresh |-> TipCoins(x) = Pruned]
                   ELSE view[x]]

\* An entry with new coins c, at the end of ~CCoinsModifier
Modified(c, fresh) ==
    IF fresh /\ c = Pruned THEN Absent
    ELSE [cached |-> TRUE, coins |-> c, dirty |-> TRUE, fresh |-> fresh]

\* Mutant of IsFresh: every entry that ModifyCoins creates is fresh.
IsFreshIfNew(x) == ~view[x].cached \/ view[x].fresh

\* The FRESH flag of the entry ModifyCoins returns
IsFresh(x) == IF view[x].cached THEN view[x].fresh ELSE TipCoins(x) = Pruned

ModifyCoins(x, c) ==
    /\ view' = [view EXCEPT ![x] = Modified(c, IsFresh(x))]
    /\ tip' = Filled({x})

\* Does not look at the layer below.
ModifyNewCoins(x, c) ==
    /\ view' = [view EXCEPT ![x] = Modified(c, TRUE)]
    /\ UNCHANGED tip

\* Mutant of Merged: a spent entry is dropped even if the database has the coins.
MergedDropsSpent(c, p) ==
    IF ~c.dirty THEN p
    ELSE IF ~p.cached THEN IF c.fresh /\ c.coins = Pruned THEN Absent ELSE c
    ELSE IF c.coins = Pruned THEN Absent
    ELSE [cached |-> TRUE, coins |-> c.coins, dirty |-> TRUE, fresh |-> p.fresh]

\* CCoinsViewCache::BatchWrite: entry c of the child into entry p of the parent
Merged(c, p) ==
    IF ~c.dirty THEN p
    ELSE IF ~p.cached THEN IF c.fresh /\ c.coins = Pruned THEN Absent ELSE c
    ELSE IF p.fresh /\ c.coins = Pruned THEN Absent
    ELSE [cached |-> TRUE, coins |-> c.coins, dirty |-> TRUE, fresh |-> p.fresh]

\* Flush of the view into pcoinsTip, with best block b; the view is gone.
FlushView(b) ==
    /\ tip' = [x \in Txs |-> Merged(view[x], tip[x])]
    /\ tipBest' = b
    /\ view' = Empty

-----------------------------------------------------------------------------
(* ConnectBlock *)

Tx == Vtx[block][i]

\* The loops over block.vtx go on
MoreTxs == i < Len(Vtx[block])

Goto(p, k, m) == pc' = p /\ i' = k /\ j' = m /\ UNCHANGED block

\* ConnectBlock returns false: the view is destroyed, pcoinsTip keeps what was
\* fetched for it.
Reject(S) ==
    /\ tip' = Filled(S)
    /\ view' = Empty
    /\ Goto("idle", 1, 1)

BeginConnect(b) ==
    /\ pc = "idle" /\ ~aborted
    /\ b # Genesis /\ Parent[b] = tipBest
    /\ pc' = "bip30" /\ block' = b /\ i' = 1 /\ j' = 1
    /\ blockundo' = [o \in Outpoints |-> 0]
    /\ UNCHANGED <<layers, undo, fClean, aborted>>

\* coins && !coins->IsPruned().  Always enforced here: chainparams.cpp sets no
\* BIP34Hash, so the exemption by height never applies.
Overwrites(x) == ViewCoins(x) # Pruned

CheckBIP30 ==
    /\ pc = "bip30"
    /\ \/ /\ Overwrites(Tx)
          /\ Reject({Tx})
       \/ /\ ~Overwrites(Tx)
          /\ tip' = Filled({Tx})
          /\ view' = ViewFetched({Tx})
          /\ IF MoreTxs THEN Goto("bip30", i + 1, 1) ELSE Goto("inputs", 1, 1)
    /\ UNCHANGED <<db, dbBest, tipBest, blockundo, undo, fClean, aborted>>

\* Mutant of IsAvailable: only the transaction is looked up, not its output.
IsAvailableTx(o) == ViewCoins(o[1]) # Pruned

\* Mutant of IsAvailable: pcoinsTip is asked instead of the view.
IsAvailableInTip(o) == o[2] \in TipCoins(o[1]).outs

\* coins->IsAvailable(prevout.n)
IsAvailable(o) == o[2] \in ViewCoins(o[1]).outs

\* HaveInputs, which looks at one input after the other
CheckInputs ==
    /\ pc = "inputs"
    /\ \/ /\ \A k \in DOMAIN Vin[Tx] : IsAvailable(Vin[Tx][k])
          /\ LET S == {o[1] : o \in Items(Vin[Tx])} IN
             /\ tip' = Filled(S)
             /\ view' = ViewFetched(S)
          /\ Goto(IF i = 1 THEN "outputs" ELSE "spend", i, 1)
       \/ \E k \in DOMAIN Vin[Tx] :
             /\ ~IsAvailable(Vin[Tx][k])
             /\ \A l \in 1..(k - 1) : IsAvailable(Vin[Tx][l])
             /\ Reject({Vin[Tx][l][1] : l \in 1..k})
    /\ UNCHANGED <<db, dbBest, tipBest, blockundo, undo, fClean, aborted>>

\* Mutant of UndoHeight: the height is not saved.
UndoHeightNever(c, n) == 0

\* nHeight of the CTxInUndo: set when the last output of the coins c is spent
UndoHeight(c, n) == IF c.outs \ {n} = {} THEN c.height ELSE 0

\* UpdateCoins: one input
SpendInput ==
    /\ pc = "spend"
    /\ LET o == Vin[Tx][j]
           c == ViewCoins(o[1])
       IN  /\ ModifyCoins(o[1], Coin(c.height, c.outs \ {o[2]}))
           /\ blockundo' = [blockundo EXCEPT ![o] = UndoHeight(c, o[2])]
    /\ IF j < Len(Vin[Tx]) THEN Goto("spend", i, j + 1) ELSE Goto("outputs", i, 1)
    /\ UNCHANGED <<db, dbBest, tipBest, undo, fClean, aborted>>

\* UpdateCoins: the outputs
AddOutputs ==
    /\ pc = "outputs"
    /\ IF i = 1 THEN ModifyCoins(Tx, FromTx(Tx, block))
                ELSE ModifyNewCoins(Tx, FromTx(Tx, block))
    /\ IF MoreTxs THEN Goto("inputs", i + 1, 1) ELSE Goto("connected", 1, 1)
    /\ UNCHANGED <<db, dbBest, tipBest, blockundo, undo, fClean, aborted>>

\* The undo data is written, once per block, and the view flushed; or the block
\* fails for another reason (scripts, lock times, signature operations, value of
\* the coinbase).  Some of these are found earlier in the code, with less fetched
\* into pcoinsTip, which Uncache brings about too.
EndConnect ==
    /\ pc = "connected"
    /\ \/ /\ undo' = [undo EXCEPT ![block] = IF @ = NoUndo THEN blockundo ELSE @]
          /\ FlushView(block)
          /\ Goto("idle", 1, 1)
       \/ /\ Reject({})
          /\ UNCHANGED <<undo, tipBest>>
    /\ UNCHANGED <<db, dbBest, blockundo, fClean, aborted>>

-----------------------------------------------------------------------------
(* DisconnectBlock *)

BeginDisconnect ==
    /\ pc = "idle" /\ ~aborted
    /\ tipBest # Genesis /\ undo[tipBest] # NoUndo
    /\ block' = tipBest
    /\ pc' = "remove" /\ i' = Len(Vtx[tipBest]) /\ j' = 1
    /\ fClean' = TRUE
    /\ UNCHANGED <<layers, blockundo, undo, aborted>>

RemoveOutputs ==
    /\ pc = "remove"
    /\ fClean' = (fClean /\ ViewCoins(Tx) = FromTx(Tx, block))
    /\ ModifyCoins(Tx, Pruned)
    /\ IF i > 1 THEN Goto("restore", i, Len(Vin[Tx])) ELSE Goto("disconnected", 1, 1)
    /\ UNCHANGED <<db, dbBest, tipBest, blockundo, undo, aborted>>

\* ApplyTxInUndo for the input in turn
ApplyTxInUndo ==
    /\ pc = "restore"
    /\ LET o == Vin[Tx][j]
           c == ViewCoins(o[1])
           h == undo[block][o]
       IN  /\ fClean' = (fClean /\ (h # 0 <=> c = Pruned) /\ (h = 0 => o[2] \notin c.outs))
           /\ ModifyCoins(o[1], IF h # 0 THEN Coin(h, {o[2]}) ELSE Coin(c.height, c.outs \cup {o[2]}))
    /\ IF j > 1 THEN Goto("restore", i, j - 1) ELSE Goto("remove", i - 1, 1)
    /\ UNCHANGED <<db, dbBest, tipBest, blockundo, undo, aborted>>

\* The view is flushed, or dropped if something did not match.
EndDisconnect ==
    /\ pc = "disconnected"
    /\ IF fClean THEN FlushView(Parent[block]) ELSE view' = Empty /\ UNCHANGED <<tip, tipBest>>
    /\ Goto("idle", 1, 1)
    /\ UNCHANGED <<db, dbBest, blockundo, undo, fClean, aborted>>

-----------------------------------------------------------------------------
(* pcoinsTip and the database *)

\* AcceptToMemoryPool and the RPCs read coins, and may drop what they fetched.
Read(x) ==
    /\ pc = "idle"
    /\ tip' = TipFetched({x})
    /\ UNCHANGED <<db, dbBest, tipBest, view, position, blockundo, undo, fClean, aborted>>

\* it->second.flags == 0
Unmodified(x) == tip[x].cached /\ ~tip[x].dirty /\ ~tip[x].fresh

Uncache(x) ==
    /\ pc = "idle" /\ Unmodified(x)
    /\ tip' = [tip EXCEPT ![x] = Absent]
    /\ UNCHANGED <<db, dbBest, tipBest, view, position, blockundo, undo, fClean, aborted>>

\* pcoinsTip->Flush() inside FlushStateToDisk: one LevelDB batch
FlushTip ==
    /\ pc = "idle"
    /\ db' = [x \in Txs |-> IF tip[x].dirty THEN tip[x].coins ELSE db[x]]
    /\ dbBest' = tipBest
    /\ tip' = Empty
    /\ UNCHANGED <<tipBest, view, position, blockundo, undo, fClean, aborted>>

\* The batch cannot be written.  BatchWrite has emptied the cache by then.
FlushTipFails ==
    /\ pc = "idle" /\ ~aborted
    /\ tip' = Empty
    /\ aborted' = TRUE
    /\ UNCHANGED <<db, dbBest, tipBest, view, position, blockundo, undo, fClean>>

\* The process ends and starts again.  The block index, with the positions of
\* undo data, is written before the coins, so blocks up to dbBest keep theirs.
Restart ==
    /\ tip' = Empty /\ tipBest' = dbBest
    /\ view' = Empty
    /\ pc' = "idle" /\ i' = 1 /\ j' = 1 /\ block' = Genesis
    /\ blockundo' = NoUndo
    /\ \E S \in SUBSET {b \in Blocks \ Ancestors[dbBest] : undo[b] # NoUndo} :
          undo' = [b \in Blocks |-> IF b \in S THEN NoUndo ELSE undo[b]]
    /\ fClean' = TRUE
    /\ aborted' = FALSE
    /\ UNCHANGED <<db, dbBest>>

-----------------------------------------------------------------------------
Init ==
    /\ db = [x \in Txs |-> Pruned] /\ dbBest = Genesis
    /\ tip = Empty /\ tipBest = Genesis
    /\ view = Empty
    /\ pc = "idle" /\ block = Genesis /\ i = 1 /\ j = 1
    /\ blockundo = NoUndo
    /\ undo = [b \in Blocks |-> NoUndo]
    /\ fClean = TRUE
    /\ aborted = FALSE

Next ==
    \/ \E b \in Blocks : BeginConnect(b)
    \/ CheckBIP30 \/ CheckInputs \/ SpendInput \/ AddOutputs \/ EndConnect
    \/ BeginDisconnect \/ RemoveOutputs \/ ApplyTxInUndo \/ EndDisconnect
    \/ \E x \in Txs : Read(x) \/ Uncache(x)
    \/ FlushTip \/ Restart

\* No write of the coin database fails.
Spec == Init /\ [][Next]_vars

\* Any of them may fail; the flush at shutdown is then another FlushTip.
ErrorSpec == Init /\ [][Next \/ FlushTipFails]_vars

-----------------------------------------------------------------------------
(* Properties *)

\* Types of the three layers and of the position, which is always that of a
\* transaction of the block at hand.
TypeOK ==
    /\ db \in [Txs -> CoinsType] /\ dbBest \in Blocks
    /\ tip \in [Txs -> Entry] /\ tipBest \in Blocks
    /\ view \in [Txs -> Entry]
    /\ pc \in PC /\ block \in Blocks /\ i \in Nat /\ j \in Nat
    /\ pc # "idle" => i \in DOMAIN Vtx[block] \/ pc \in {"connected", "disconnected"}
    /\ fClean \in BOOLEAN /\ aborted \in BOOLEAN

\* Entry e of a cache over coins c: FRESH only if c is spent, the same as c
\* unless DIRTY.
EntrySound(e, c) == e.cached => (e.fresh => c = Pruned) /\ (~e.dirty => e.coins = c)

\* The flags tell the truth in both caches at every moment, through any sequence
\* of connections, disconnections, rejected blocks, reads, evictions and flushes:
\* dropping a FRESH spent entry, or one that is not DIRTY, loses nothing.
LayersSound ==
    \A x \in Txs : EntrySound(tip[x], db[x]) /\ EntrySound(view[x], TipCoins(x))

\* The assertion in UpdateCoins never fires: CheckInputs has seen every output
\* that is being spent, and earlier inputs have not taken it.
SpendsAvailable == pc = "spend" => Vin[Tx][j][2] \in ViewCoins(Vin[Tx][j][1]).outs

\* Undo data exists for every block of the active chain and fits the coins it is
\* applied to, also for transactions that spend each other inside the block, that
\* are mined again at another height, or whose txid was used again.
DisconnectClean ==
    /\ fClean
    /\ ~aborted => \A b \in Ancestors[tipBest] \ {Genesis} : undo[b] # NoUndo

\* A block is turned down for its inputs or for BIP30 only if the chain's unspent
\* outputs, computed from the blocks alone, do not admit it.
RejectionJustified ==
    [][(pc = "bip30" \/ pc = "inputs") /\ pc' = "idle" /\ block' = block
          => ~Acceptable(CoinsOf[tipBest], block)]_vars

\* The coin database holds exactly the unspent outputs of the chain that ends in
\* its best block.
DbMatchesBest == \A x \in Txs : db[x] = CoinsOf[dbBest][x]

\* The three layers implement one set of unspent outputs that changes by whole
\* blocks and survives in a consistent version.
Utxo == INSTANCE UtxoSet WITH
    coins <- [x \in Txs |-> TipCoins(x)], best <- tipBest,
    savedCoins <- db, savedBest <- dbBest
ImplementsUtxoSet == Utxo!Spec
=============================================================================
