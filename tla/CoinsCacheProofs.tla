-------------------------- MODULE CoinsCacheProofs --------------------------
(***************************************************************************)
(* For every set of transactions and blocks: the flags of the coin caches    *)
(* are right, also when writes of the database fail (ErrorSpec), and, when   *)
(* they do not, the caches implement UtxoSet, undo data always fits, no      *)
(* block is rejected that the chain admits, and the explorer indexes agree   *)
(* with the chain once they have caught up with it (IndexedSpec).            *)
(***************************************************************************)
EXTENDS InsightIndexes, BlockTreeProofs

-----------------------------------------------------------------------------
(* The inductive invariant.  Soundness of FRESH in ModifyNewCoins, which does  *)
(* not look at the layer below, rests on the BIP30 loop: once it has passed a  *)
(* transaction, pcoinsTip has no unspent coins of it until the view is flushed. *)
(* That no input is missing in UpdateCoins rests on HaveInputs.                *)

Connecting == {"bip30", "inputs", "spend", "outputs", "connected"}

Types ==
    /\ TypeOK
    /\ undo \in [Blocks -> {NoUndo} \cup [Outpoints -> Nat]]
    /\ pc \in Connecting => blockundo \in [Outpoints -> Nat]
    /\ pc \in {"remove", "restore"} => undo[block] \in [Outpoints -> Nat]
    /\ pc # "idle" => block # Genesis
    /\ pc \in {"spend", "restore"} => i > 1 /\ j \in DOMAIN Vin[Tx]

\* HaveInputs has seen the inputs that are still to be spent.
InputsLeft == \A k \in DOMAIN Vin[Tx] : k >= j => IsAvailable(Vin[Tx][k])

ChecksPassed ==
    /\ pc = "bip30" => /\ \A x \in Txs : ~view[x].dirty
                       /\ \A k \in 1..(i - 1) : TipCoins(Vtx[block][k]) = Pruned
    /\ pc \in {"inputs", "spend", "outputs"} =>
          \A k \in DOMAIN Vtx[block] : TipCoins(Vtx[block][k]) = Pruned
    /\ pc = "spend" => InputsLeft

IInv ==
    /\ Types
    /\ LayersSound
    /\ pc = "idle" => view = Empty
    /\ ChecksPassed

-----------------------------------------------------------------------------
(* Coins *)

LEMMA CoinType ==
    ASSUME NEW h \in Nat, NEW S \in SUBSET Nat
    PROVE  Coin(h, S) \in CoinsType
BY DEF Coin, CoinsType, Pruned

LEMMA PrunedType == Pruned \in CoinsType
BY DEF CoinsType, Pruned

LEMMA EmptyType == Empty \in [Txs -> Entry] /\ \A x \in Txs : Empty[x] = Absent
BY PrunedType DEF Empty, Absent, Entry

LEMMA TxType ==
    ASSUME NEW b \in Blocks, NEW k \in DOMAIN Vtx[b]
    PROVE  /\ Vtx[b][k] \in Txs
           /\ k \in Nat /\ k > 0
           /\ Vin[Vtx[b][k]] \in Seq(Txs \X Nat)
           /\ k > 1 => Len(Vin[Vtx[b][k]]) > 0
           /\ FromTx(Vtx[b][k], b) \in CoinsType
<1>1. Vtx[b] \in Seq(Txs)
  BY VtxAssumption
<1>2. Vtx[b][k] \in Txs /\ k \in Nat /\ k > 0
  BY <1>1
<1>3. Vin[Vtx[b][k]] \in Seq(Txs \X Nat)
  BY <1>2, VinAssumption
<1>4. k > 1 => Vin[Vtx[b][k]] # <<>>
  BY <1>2, VinAssumption
<1>5. k > 1 => Len(Vin[Vtx[b][k]]) > 0
  BY <1>3, <1>4
<1>6. FromTx(Vtx[b][k], b) \in CoinsType
  BY <1>2, CoinType, OutsAssumption, HeightAssumption DEF FromTx
<1> QED BY <1>2, <1>3, <1>5, <1>6

LEMMA InputType ==
    ASSUME NEW x \in Txs, NEW k \in DOMAIN Vin[x]
    PROVE  /\ Vin[x][k][1] \in Txs /\ Vin[x][k][2] \in Nat
           /\ Vin[x][k] \in Outpoints
<1>1. Vin[x] \in Seq(Txs \X Nat)
  BY VinAssumption
<1>2. Vin[x][k] \in Txs \X Nat
  BY <1>1
<1>3. Vin[x][k] \in Items(Vin[x])
  BY DEF Items
<1> QED BY <1>2, <1>3 DEF Outpoints

-----------------------------------------------------------------------------
(* The caches *)

LEMMA CoinsSeen ==
    ASSUME TypeOK, NEW x \in Txs
    PROVE  TipCoins(x) \in CoinsType /\ ViewCoins(x) \in CoinsType
BY DEF TypeOK, Entry, TipCoins, ViewCoins

\* Fetching changes what is cached, never what is seen.
LEMMA TipFetchSound ==
    ASSUME TypeOK, LayersSound, NEW S, tip' = TipFetched(S), db' = db
    PROVE  /\ tip' \in [Txs -> Entry]
           /\ \A x \in Txs : TipCoins(x)' = TipCoins(x) /\ EntrySound(tip'[x], db'[x])
<1> SUFFICES ASSUME NEW x \in Txs
             PROVE  /\ tip'[x] \in Entry
                    /\ TipCoins(x)' = TipCoins(x)
                    /\ EntrySound(tip'[x], db'[x])
  BY DEF TipFetched
<1>1. tip[x] \in Entry /\ db[x] \in CoinsType /\ EntrySound(tip[x], db[x])
  BY DEF TypeOK, LayersSound
<1>2. CASE x \in S /\ ~tip[x].cached /\ db[x] # Pruned
  <2>1. tip'[x] = [cached |-> TRUE, coins |-> db[x], dirty |-> FALSE, fresh |-> FALSE]
    BY <1>2 DEF TipFetched
  <2> QED BY <1>1, <1>2, <2>1 DEF Entry, TipCoins, EntrySound
<1>3. CASE ~(x \in S /\ ~tip[x].cached /\ db[x] # Pruned)
  <2>1. tip'[x] = tip[x]
    BY <1>3 DEF TipFetched
  <2> QED BY <1>1, <2>1 DEF TipCoins
<1> QED BY <1>2, <1>3

LEMMA ViewFetchSound ==
    ASSUME TypeOK, LayersSound, NEW S,
           tip' = Filled(S), db' = db, view' = ViewFetched(S)
    PROVE  /\ tip' \in [Txs -> Entry] /\ view' \in [Txs -> Entry]
           /\ LayersSound'
           /\ \A x \in Txs : /\ TipCoins(x)' = TipCoins(x) /\ ViewCoins(x)' = ViewCoins(x)
                             /\ view'[x].dirty => view[x].dirty
<1>1. /\ tip' \in [Txs -> Entry]
      /\ \A x \in Txs : TipCoins(x)' = TipCoins(x) /\ EntrySound(tip'[x], db'[x])
  BY TipFetchSound DEF Filled
<1>2. ASSUME NEW x \in Txs
      PROVE  /\ view'[x] \in Entry /\ EntrySound(view'[x], TipCoins(x)')
             /\ ViewCoins(x)' = ViewCoins(x)
             /\ view'[x].dirty => view[x].dirty
  <2>1. view[x] \in Entry /\ EntrySound(view[x], TipCoins(x)) /\ TipCoins(x) \in CoinsType
    BY CoinsSeen DEF TypeOK, LayersSound
  <2>2. TipCoins(x)' = TipCoins(x)
    BY <1>1
  <2> DEFINE new == [cached |-> TRUE, coins |-> TipCoins(x), dirty |-> FALSE, fresh |-> TipCoins(x) = Pruned]
  <2>3. (view'[x] = new /\ ~view[x].cached) \/ view'[x] = view[x]
    BY DEF ViewFetched
  <2>4. CASE view'[x] = new /\ ~view[x].cached
    BY <2>1, <2>2, <2>4 DEF Entry, EntrySound, ViewCoins
  <2>5. CASE view'[x] = view[x]
    BY <2>1, <2>2, <2>5 DEF ViewCoins
  <2> QED BY <2>3, <2>4, <2>5
<1>3. view' \in [Txs -> Entry]
  BY <1>2 DEF ViewFetched
<1> QED BY <1>1, <1>2, <1>3 DEF LayersSound

LEMMA ModifiedSound ==
    ASSUME NEW c \in CoinsType, NEW f \in BOOLEAN, NEW d, f => d = Pruned
    PROVE  Modified(c, f) \in Entry /\ EntrySound(Modified(c, f), d)
<1>1. CASE f /\ c = Pruned
  BY <1>1, PrunedType DEF Modified, Absent, Entry, EntrySound
<1>2. CASE ~(f /\ c = Pruned)
  BY <1>2 DEF Modified, Entry, EntrySound
<1> QED BY <1>1, <1>2

LEMMA ModifySound ==
    ASSUME TypeOK, LayersSound, NEW x \in Txs, NEW c \in CoinsType,
           ModifyCoins(x, c), db' = db
    PROVE  /\ tip' \in [Txs -> Entry] /\ view' \in [Txs -> Entry]
           /\ LayersSound'
           /\ \A y \in Txs : TipCoins(y)' = TipCoins(y)
           /\ \A y \in Txs : ViewCoins(y)' = IF y = x THEN c ELSE ViewCoins(y)
<1>1. /\ tip' \in [Txs -> Entry]
      /\ \A y \in Txs : TipCoins(y)' = TipCoins(y) /\ EntrySound(tip'[y], db'[y])
  BY TipFetchSound DEF Filled, ModifyCoins
<1>2. \A y \in Txs : view[y] \in Entry /\ EntrySound(view[y], TipCoins(y))
  BY DEF TypeOK, LayersSound
<1>3. IsFresh(x) \in BOOLEAN /\ (IsFresh(x) => TipCoins(x) = Pruned)
  BY <1>2 DEF IsFresh, EntrySound, Entry
<1>4. Modified(c, IsFresh(x)) \in Entry /\ EntrySound(Modified(c, IsFresh(x)), TipCoins(x))
  BY <1>3, ModifiedSound
<1>5. view' = [view EXCEPT ![x] = Modified(c, IsFresh(x))] /\ view \in [Txs -> Entry]
  BY DEF ModifyCoins, TypeOK
<1>6. \A y \in Txs : view'[y] \in Entry /\ EntrySound(view'[y], TipCoins(y))
  BY <1>2, <1>4, <1>5
<1>7. view' \in [Txs -> Entry]
  BY <1>4, <1>5
<1>8. ASSUME NEW y \in Txs PROVE ViewCoins(y)' = IF y = x THEN c ELSE ViewCoins(y)
  <2>1. CASE y # x
    BY <1>1, <1>5, <2>1 DEF ViewCoins
  <2>2. CASE y = x /\ IsFresh(x) /\ c = Pruned
    BY <1>1, <1>3, <1>5, <2>2 DEF ViewCoins, Modified, Absent
  <2>3. CASE y = x /\ ~(IsFresh(x) /\ c = Pruned)
    BY <1>5, <2>3 DEF ViewCoins, Modified
  <2> QED BY <2>1, <2>2, <2>3
<1> QED BY <1>1, <1>6, <1>7, <1>8 DEF LayersSound

LEMMA ModifyNewSound ==
    ASSUME TypeOK, LayersSound, NEW x \in Txs, NEW c \in CoinsType,
           ModifyNewCoins(x, c), db' = db, TipCoins(x) = Pruned
    PROVE  /\ tip' \in [Txs -> Entry] /\ view' \in [Txs -> Entry]
           /\ LayersSound'
           /\ \A y \in Txs : TipCoins(y)' = TipCoins(y)
           /\ \A y \in Txs : ViewCoins(y)' = IF y = x THEN c ELSE ViewCoins(y)
<1>1. tip' = tip /\ view' = [view EXCEPT ![x] = Modified(c, TRUE)] /\ view \in [Txs -> Entry]
  BY DEF ModifyNewCoins, TypeOK
<1>2. \A y \in Txs : TipCoins(y)' = TipCoins(y)
  BY <1>1 DEF TipCoins
<1>3. Modified(c, TRUE) \in Entry /\ EntrySound(Modified(c, TRUE), TipCoins(x))
  BY ModifiedSound
<1>4. \A y \in Txs : EntrySound(view'[y], TipCoins(y)) /\ EntrySound(tip[y], db[y])
  BY <1>1, <1>3 DEF LayersSound
<1>5. view' \in [Txs -> Entry]
  BY <1>1, <1>3
<1>6. ASSUME NEW y \in Txs PROVE ViewCoins(y)' = IF y = x THEN c ELSE ViewCoins(y)
  BY <1>1, <1>2 DEF ViewCoins, Modified, Absent
<1> QED BY <1>1, <1>2, <1>4, <1>5, <1>6 DEF LayersSound, TypeOK

\* An entry of the view into pcoinsTip
LEMMA MergedSound ==
    ASSUME NEW c \in Entry, NEW p \in Entry, NEW d, EntrySound(p, d),
           EntrySound(c, IF p.cached THEN p.coins ELSE d)
    PROVE  Merged(c, p) \in Entry /\ EntrySound(Merged(c, p), d)
<1>1. CASE ~c.dirty
  BY <1>1 DEF Merged
<1>2. CASE c.dirty /\ ~p.cached
  BY <1>2, PrunedType DEF Merged, Absent, Entry, EntrySound
<1>3. CASE c.dirty /\ p.cached
  BY <1>3, PrunedType DEF Merged, Absent, Entry, EntrySound
<1> QED BY <1>1, <1>2, <1>3 DEF Entry

LEMMA EmptyView ==
    ASSUME view' = Empty, tip' \in [Txs -> Entry],
           \A x \in Txs : EntrySound(tip'[x], db'[x])
    PROVE  view' \in [Txs -> Entry] /\ LayersSound'
BY EmptyType DEF LayersSound, EntrySound, Absent

LEMMA FlushViewSound ==
    ASSUME TypeOK, LayersSound, NEW b, FlushView(b), db' = db
    PROVE  /\ tip' \in [Txs -> Entry] /\ view' \in [Txs -> Entry]
           /\ LayersSound'
<1>1. ASSUME NEW x \in Txs
      PROVE  Merged(view[x], tip[x]) \in Entry /\ EntrySound(Merged(view[x], tip[x]), db[x])
  <2>1. view[x] \in Entry /\ tip[x] \in Entry
    BY DEF TypeOK
  <2>2. EntrySound(tip[x], db[x])
    BY DEF LayersSound
  <2>3. EntrySound(view[x], IF tip[x].cached THEN tip[x].coins ELSE db[x])
    BY DEF LayersSound, TipCoins
  <2> QED BY <2>1, <2>2, <2>3, MergedSound
<1>2. tip' = [x \in Txs |-> Merged(view[x], tip[x])] /\ view' = Empty
  BY DEF FlushView
<1>3. tip' \in [Txs -> Entry] /\ \A x \in Txs : EntrySound(tip'[x], db'[x])
  BY <1>1, <1>2
<1> QED BY <1>2, <1>3, EmptyView

-----------------------------------------------------------------------------
(* The actions *)

\* The position moved to "idle" with an empty view
LEMMA IdleKeeps ==
    ASSUME TypeOK', LayersSound', pc' = "idle", view' = Empty,
           undo' \in [Blocks -> {NoUndo} \cup [Outpoints -> Nat]]
    PROVE  IInv'
BY DEF IInv, Types, ChecksPassed, Connecting

LEMMA InitIInv == Init => IInv
<1> SUFFICES ASSUME Init PROVE IInv
  OBVIOUS
<1>1. TypeOK
  BY EmptyType, PrunedType, BlocksAssumption DEF Init, TypeOK, PC
<1>2. LayersSound
  BY EmptyType DEF Init, LayersSound, EntrySound, Absent
<1> QED BY <1>1, <1>2 DEF Init, IInv, Types, ChecksPassed, Connecting

LEMMA RejectKeeps ==
    ASSUME IInv, NEW S, Reject(S), UNCHANGED <<db, dbBest, tipBest, undo, fClean, aborted>>
    PROVE  IInv'
<1>1. /\ tip' \in [Txs -> Entry]
      /\ \A x \in Txs : TipCoins(x)' = TipCoins(x) /\ EntrySound(tip'[x], db'[x])
  BY TipFetchSound DEF IInv, Types, Reject, Filled
<1>2. view' \in [Txs -> Entry] /\ LayersSound'
  BY <1>1, EmptyView DEF Reject
<1>3. TypeOK'
  BY <1>1, <1>2 DEF IInv, Types, TypeOK, Reject, Goto, PC
<1> QED BY <1>2, <1>3, IdleKeeps DEF IInv, Types, Reject, Goto

LEMMA BeginConnectKeeps ==
    ASSUME IInv, NEW b \in Blocks, BeginConnect(b)
    PROVE  IInv'
<1>1. Vtx[b] \in Seq(Txs) /\ Len(Vtx[b]) > 0
  BY VtxAssumption DEF BeginConnect
<1>2. 1 \in DOMAIN Vtx[b]
  BY <1>1
<1>3. TypeOK'
  BY <1>2 DEF IInv, Types, TypeOK, BeginConnect, layers, PC
<1>4. LayersSound'
  BY DEF IInv, BeginConnect, layers, LayersSound, TipCoins
<1>5. Types'
  BY <1>3 DEF IInv, Types, BeginConnect, layers
<1>6. \A x \in Txs : ~view'[x].dirty
  BY EmptyType DEF IInv, BeginConnect, layers, Absent
<1>7. ChecksPassed'
  BY <1>6 DEF ChecksPassed, BeginConnect
<1> QED BY <1>4, <1>5, <1>7 DEF IInv, BeginConnect

LEMMA CheckBIP30Keeps ==
    ASSUME IInv, CheckBIP30
    PROVE  IInv'
<1>1. CASE Overwrites(Tx) /\ Reject({Tx})
  BY <1>1, RejectKeeps DEF CheckBIP30
<1>2. CASE /\ ~Overwrites(Tx)
           /\ tip' = Filled({Tx})
           /\ view' = ViewFetched({Tx})
           /\ IF MoreTxs THEN Goto("bip30", i + 1, 1) ELSE Goto("inputs", 1, 1)
  <2>1. /\ tip' \in [Txs -> Entry] /\ view' \in [Txs -> Entry]
        /\ LayersSound'
        /\ \A x \in Txs : TipCoins(x)' = TipCoins(x) /\ (view'[x].dirty => view[x].dirty)
    BY <1>2, ViewFetchSound DEF IInv, Types, CheckBIP30
  <2>2. pc = "bip30" /\ block \in Blocks /\ i \in DOMAIN Vtx[block] /\ i \in Nat
    BY DEF IInv, Types, TypeOK, CheckBIP30
  <2>3. /\ Vtx[block] \in Seq(Txs) /\ Tx \in Txs
        /\ \A k \in DOMAIN Vtx[block] : Vtx[block][k] \in Txs
    BY <2>2, TxType, VtxAssumption DEF Tx
  <2>4. TipCoins(Tx) = Pruned
    <3>1. ~view[Tx].dirty /\ EntrySound(view[Tx], TipCoins(Tx))
      BY <2>2, <2>3 DEF IInv, ChecksPassed, LayersSound
    <3> QED BY <1>2, <3>1 DEF Overwrites, ViewCoins, EntrySound
  <2>5. \A k \in 1..i : TipCoins(Vtx[block][k]) = Pruned
    <3>1. \A k \in 1..(i - 1) : TipCoins(Vtx[block][k]) = Pruned
      BY <2>2 DEF IInv, ChecksPassed
    <3> QED BY <2>2, <2>4, <3>1 DEF Tx
  <2>6. \A k \in 1..i : k \in DOMAIN Vtx[block]
    BY <2>2, <2>3
  <2>7. \A k \in 1..i : TipCoins(Vtx[block][k])' = Pruned
    <3>1. block' = block
      BY <1>2 DEF Goto
    <3> QED BY <2>1, <2>3, <2>5, <2>6, <3>1
  <2>8. CASE MoreTxs
    <3>1. pc' = "bip30" /\ i' = i + 1 /\ j' = 1 /\ block' = block
      BY <1>2, <2>8 DEF Goto
    <3>2. i' \in DOMAIN Vtx[block'] /\ i' \in Nat
      BY <2>2, <2>3, <2>8, <3>1 DEF MoreTxs
    <3>3. Types'
      BY <2>1, <2>2, <3>1, <3>2 DEF IInv, Types, TypeOK, CheckBIP30, PC, Connecting
    <3>4. ChecksPassed'
      <4>1. \A k \in 1..(i' - 1) : TipCoins(Vtx[block][k])' = Pruned
        BY <2>2, <2>7, <3>1
      <4>2. \A x \in Txs : ~view'[x].dirty
        BY <2>1, <2>2 DEF IInv, ChecksPassed
      <4> QED BY <3>1, <4>1, <4>2 DEF ChecksPassed
    <3> QED BY <2>1, <3>1, <3>3, <3>4 DEF IInv
  <2>9. CASE ~MoreTxs
    <3>1. pc' = "inputs" /\ i' = 1 /\ j' = 1 /\ block' = block
      BY <1>2, <2>9 DEF Goto
    <3>2. 1 \in DOMAIN Vtx[block]
      BY <2>2, <2>3
    <3>3. Types'
      BY <2>1, <2>2, <3>1, <3>2 DEF IInv, Types, TypeOK, CheckBIP30, PC, Connecting
    <3>4. i = Len(Vtx[block])
      BY <2>2, <2>3, <2>9 DEF MoreTxs
    <3>5. \A k \in DOMAIN Vtx[block] : TipCoins(Vtx[block][k])' = Pruned
      BY <2>2, <2>3, <2>7, <3>4
    <3>6. ChecksPassed'
      BY <3>1, <3>5 DEF ChecksPassed
    <3> QED BY <2>1, <3>1, <3>3, <3>6 DEF IInv
  <2> QED BY <2>8, <2>9
<1> QED BY <1>1, <1>2 DEF CheckBIP30

\* Between two steps of the loop over the transactions
LEMMA StillPassed ==
    ASSUME IInv, pc \in {"inputs", "spend", "outputs"}, pc' # "bip30", block' = block,
           \A x \in Txs : TipCoins(x)' = TipCoins(x),
           pc' = "spend" => InputsLeft'
    PROVE  ChecksPassed'
<1>1. \A k \in DOMAIN Vtx[block] : Vtx[block][k] \in Txs
  BY TxType DEF IInv, Types, TypeOK
<1>2. \A k \in DOMAIN Vtx[block] : TipCoins(Vtx[block][k]) = Pruned
  BY DEF IInv, ChecksPassed
<1>3. \A k \in DOMAIN Vtx[block] : TipCoins(Vtx[block][k])' = Pruned
  BY <1>1, <1>2
<1> QED BY <1>3 DEF ChecksPassed

LEMMA CheckInputsKeeps ==
    ASSUME IInv, CheckInputs
    PROVE  IInv'
<1>1. ASSUME NEW S, Reject(S) PROVE IInv'
  BY <1>1, RejectKeeps DEF CheckInputs
<1>2. ASSUME NEW S, tip' = Filled(S), view' = ViewFetched(S),
             \A k \in DOMAIN Vin[Tx] : IsAvailable(Vin[Tx][k]),
             Goto(IF i = 1 THEN "outputs" ELSE "spend", i, 1)
      PROVE  IInv'
  <2>1. /\ tip' \in [Txs -> Entry] /\ view' \in [Txs -> Entry]
        /\ LayersSound'
        /\ \A x \in Txs : TipCoins(x)' = TipCoins(x) /\ ViewCoins(x)' = ViewCoins(x)
    BY <1>2, ViewFetchSound DEF IInv, Types, CheckInputs
  <2>2. /\ pc = "inputs" /\ block \in Blocks /\ i \in DOMAIN Vtx[block] /\ i \in Nat
        /\ i' = i /\ j' = 1 /\ block' = block /\ pc' = IF i = 1 THEN "outputs" ELSE "spend"
    BY <1>2 DEF IInv, Types, TypeOK, CheckInputs, Goto
  <2>3. Tx' = Tx
    BY <2>2 DEF Tx
  <2>4. pc' = "spend" => i' > 1 /\ j' \in DOMAIN Vin[Tx]
    BY <2>2, TxType DEF Tx
  <2>5. Types'
    BY <2>1, <2>2, <2>3, <2>4 DEF IInv, Types, TypeOK, CheckInputs, PC, Connecting
  <2>6. \A k \in DOMAIN Vin[Tx] : Vin[Tx][k][1] \in Txs
    BY <2>2, TxType, InputType DEF Tx
  <2>7. InputsLeft'
    BY <1>2, <2>1, <2>3, <2>6 DEF InputsLeft, IsAvailable
  <2>8. ChecksPassed'
    BY <2>1, <2>2, <2>7, StillPassed
  <2> QED BY <2>1, <2>2, <2>5, <2>8 DEF IInv
<1> QED BY <1>1, <1>2 DEF CheckInputs

LEMMA SpendInputKeeps ==
    ASSUME IInv, SpendInput
    PROVE  IInv'
<1> DEFINE o == Vin[Tx][j]
           c == ViewCoins(o[1])
<1>1. /\ pc = "spend" /\ block \in Blocks /\ i \in DOMAIN Vtx[block] /\ i \in Nat /\ i > 1
      /\ j \in DOMAIN Vin[Tx] /\ j \in Nat /\ block # Genesis
  BY DEF IInv, Types, TypeOK, SpendInput
<1>2. Tx \in Txs /\ Vin[Tx] \in Seq(Txs \X Nat)
  BY <1>1, TxType DEF Tx
<1>3. o[1] \in Txs /\ o[2] \in Nat /\ o \in Outpoints
  BY <1>1, <1>2, InputType
<1>4. c \in CoinsType
  BY <1>3, CoinsSeen DEF IInv, Types
<1>5. Coin(c.height, c.outs \ {o[2]}) \in CoinsType
  BY <1>4, CoinType DEF CoinsType
<1>6. /\ tip' \in [Txs -> Entry] /\ view' \in [Txs -> Entry]
      /\ LayersSound'
      /\ \A y \in Txs : TipCoins(y)' = TipCoins(y)
      /\ \A y \in Txs : ViewCoins(y)' = IF y = o[1] THEN Coin(c.height, c.outs \ {o[2]}) ELSE ViewCoins(y)
  BY <1>3, <1>5, ModifySound DEF IInv, Types, SpendInput
<1>7. blockundo' \in [Outpoints -> Nat]
  <2>1. UndoHeight(c, o[2]) \in Nat
    BY <1>4 DEF UndoHeight, CoinsType
  <2>2. blockundo \in [Outpoints -> Nat]
    BY <1>1 DEF IInv, Types, Connecting
  <2> QED BY <2>1, <2>2 DEF SpendInput
<1>8. /\ i' = i /\ block' = block /\ j' \in Nat
      /\ pc' \in {"spend", "outputs"}
      /\ pc' = "spend" => j' = j + 1 /\ j' \in DOMAIN Vin[Tx]
  BY <1>1, <1>2 DEF SpendInput, Goto
<1>9. Tx' = Tx
  BY <1>8 DEF Tx
<1>10. Types'
  BY <1>1, <1>6, <1>7, <1>8, <1>9 DEF IInv, Types, TypeOK, SpendInput, PC, Connecting
<1>11. ASSUME pc' = "spend" PROVE InputsLeft'
  <2> SUFFICES ASSUME NEW k \in DOMAIN Vin[Tx], k >= j + 1 PROVE IsAvailable(Vin[Tx][k])'
    BY <1>8, <1>9, <1>11 DEF InputsLeft
  <2>1. k \in Nat /\ k # j /\ IsAvailable(Vin[Tx][k])
    <3>1. k \in Nat
      BY <1>2
    <3>2. k >= j /\ k # j
      BY <1>1, <3>1
    <3>3. InputsLeft
      BY <1>1 DEF IInv, ChecksPassed
    <3> QED BY <3>1, <3>2, <3>3 DEF InputsLeft
  <2>2. Vin[Tx][k] \in Txs \X Nat /\ o \in Txs \X Nat
    BY <1>1, <1>2
  <2>3. Vin[Tx][k] # o
    BY <1>1, <1>2, <2>1, VinAssumption
  <2>4. Vin[Tx][k][1] # o[1] \/ Vin[Tx][k][2] # o[2]
    BY <2>2, <2>3
  <2>5. Coin(c.height, c.outs \ {o[2]}).outs = c.outs \ {o[2]}
    BY DEF Coin, Pruned
  <2>6. ViewCoins(Vin[Tx][k][1])'.outs
          = IF Vin[Tx][k][1] = o[1] THEN c.outs \ {o[2]} ELSE ViewCoins(Vin[Tx][k][1]).outs
    <3>1. ASSUME NEW y \in Txs PROVE ViewCoins(y)'.outs = IF y = o[1] THEN c.outs \ {o[2]} ELSE ViewCoins(y).outs
      BY <1>6, <2>5
    <3> QED BY <1>9, <2>2, <3>1 DEF ViewCoins, TipCoins
  <2> QED BY <1>9, <2>1, <2>4, <2>6 DEF IsAvailable
<1>12. ChecksPassed'
  BY <1>1, <1>6, <1>8, <1>11, StillPassed
<1> QED BY <1>6, <1>8, <1>10, <1>12 DEF IInv

LEMMA AddOutputsKeeps ==
    ASSUME IInv, AddOutputs
    PROVE  IInv'
<1>1. pc = "outputs" /\ block \in Blocks /\ i \in DOMAIN Vtx[block] /\ i \in Nat /\ block # Genesis
  BY DEF IInv, Types, TypeOK, AddOutputs
<1>2. Tx \in Txs /\ FromTx(Tx, block) \in CoinsType /\ i > 0
  BY <1>1, TxType DEF Tx
<1>3. TipCoins(Tx) = Pruned
  BY <1>1 DEF IInv, ChecksPassed, Tx
<1>4. /\ tip' \in [Txs -> Entry] /\ view' \in [Txs -> Entry]
      /\ LayersSound'
      /\ \A y \in Txs : TipCoins(y)' = TipCoins(y)
  <2>1. CASE i = 1
    BY <1>2, <2>1, ModifySound DEF IInv, Types, AddOutputs
  <2>2. CASE i # 1
    BY <1>2, <1>3, <2>2, ModifyNewSound DEF IInv, Types, AddOutputs
  <2> QED BY <2>1, <2>2
<1>5. Vtx[block] \in Seq(Txs)
  BY <1>1, VtxAssumption
<1>6. /\ i' \in Nat /\ block' = block /\ j' = 1
      /\ \/ pc' = "inputs" /\ i' \in DOMAIN Vtx[block]
         \/ pc' = "connected"
  BY <1>1, <1>2, <1>5 DEF AddOutputs, Goto, MoreTxs
<1>7. Types'
  BY <1>1, <1>4, <1>6 DEF IInv, Types, TypeOK, AddOutputs, PC, Connecting
<1>8. ChecksPassed'
  BY <1>1, <1>4, <1>6, StillPassed
<1> QED BY <1>4, <1>6, <1>7, <1>8 DEF IInv

LEMMA EndConnectKeeps ==
    ASSUME IInv, EndConnect
    PROVE  IInv'
<1>1. CASE /\ undo' = [undo EXCEPT ![block] = IF @ = NoUndo THEN blockundo ELSE @]
           /\ FlushView(block)
           /\ Goto("idle", 1, 1)
  <2>1. /\ tip' \in [Txs -> Entry] /\ view' \in [Txs -> Entry]
        /\ LayersSound'
    BY <1>1, FlushViewSound DEF IInv, Types, EndConnect
  <2>2. undo' \in [Blocks -> {NoUndo} \cup [Outpoints -> Nat]]
    BY <1>1 DEF IInv, Types, EndConnect, Connecting
  <2>3. TypeOK'
    BY <1>1, <2>1 DEF IInv, Types, TypeOK, EndConnect, FlushView, Goto, PC
  <2> QED BY <1>1, <2>1, <2>2, <2>3, IdleKeeps DEF FlushView, Goto
<1>2. CASE Reject({}) /\ UNCHANGED <<undo, tipBest>>
  BY <1>2, RejectKeeps DEF EndConnect
<1> QED BY <1>1, <1>2 DEF EndConnect

LEMMA BeginDisconnectKeeps ==
    ASSUME IInv, BeginDisconnect
    PROVE  IInv'
<1>1. tipBest \in Blocks /\ tipBest # Genesis
  BY DEF IInv, Types, TypeOK, BeginDisconnect
<1>2. Vtx[tipBest] \in Seq(Txs) /\ Len(Vtx[tipBest]) > 0
  BY <1>1, VtxAssumption
<1>3. Len(Vtx[tipBest]) \in DOMAIN Vtx[tipBest] /\ Len(Vtx[tipBest]) \in Nat
  BY <1>2
<1>4. undo'[block'] \in [Outpoints -> Nat]
  BY <1>1 DEF IInv, Types, BeginDisconnect
<1>5. Types'
  BY <1>1, <1>3, <1>4 DEF IInv, Types, TypeOK, BeginDisconnect, layers, PC, Connecting
<1>6. LayersSound'
  BY DEF IInv, BeginDisconnect, layers, LayersSound, TipCoins
<1> QED BY <1>5, <1>6 DEF IInv, ChecksPassed, BeginDisconnect

LEMMA RemoveOutputsKeeps ==
    ASSUME IInv, RemoveOutputs
    PROVE  IInv'
<1>1. /\ pc = "remove" /\ block \in Blocks /\ i \in DOMAIN Vtx[block] /\ i \in Nat
      /\ block # Genesis /\ undo[block] \in [Outpoints -> Nat]
  BY DEF IInv, Types, TypeOK, RemoveOutputs
<1>2. /\ Tx \in Txs /\ Vin[Tx] \in Seq(Txs \X Nat)
      /\ i > 1 => Len(Vin[Tx]) > 0
  BY <1>1, TxType DEF Tx
<1>3. /\ tip' \in [Txs -> Entry] /\ view' \in [Txs -> Entry]
      /\ LayersSound'
  BY <1>2, PrunedType, ModifySound DEF IInv, Types, RemoveOutputs
<1>4. /\ block' = block /\ i' \in Nat /\ j' \in Nat
      /\ \/ pc' = "restore" /\ i' = i /\ i > 1 /\ j' \in DOMAIN Vin[Tx]
         \/ pc' = "disconnected"
  BY <1>1, <1>2 DEF RemoveOutputs, Goto
<1>5. pc' = "restore" => Tx' = Tx
  BY <1>4 DEF Tx
<1>6. Types'
  BY <1>1, <1>3, <1>4, <1>5 DEF IInv, Types, TypeOK, RemoveOutputs, PC, Connecting
<1> QED BY <1>3, <1>4, <1>6 DEF IInv, ChecksPassed

LEMMA ApplyTxInUndoKeeps ==
    ASSUME IInv, ApplyTxInUndo
    PROVE  IInv'
<1> DEFINE o == Vin[Tx][j]
           c == ViewCoins(o[1])
           h == undo[block][o]
           new == IF h # 0 THEN Coin(h, {o[2]}) ELSE Coin(c.height, c.outs \cup {o[2]})
<1>1. /\ pc = "restore" /\ block \in Blocks /\ i \in DOMAIN Vtx[block] /\ i \in Nat /\ i > 1
      /\ j \in DOMAIN Vin[Tx] /\ j \in Nat
      /\ block # Genesis /\ undo[block] \in [Outpoints -> Nat]
  BY DEF IInv, Types, TypeOK, ApplyTxInUndo
<1>2. Tx \in Txs /\ Vin[Tx] \in Seq(Txs \X Nat) /\ Vtx[block] \in Seq(Txs)
  BY <1>1, TxType, VtxAssumption DEF Tx
<1>3. o[1] \in Txs /\ o[2] \in Nat /\ o \in Outpoints
  BY <1>1, <1>2, InputType
<1>4. c \in CoinsType /\ h \in Nat
  BY <1>1, <1>3, CoinsSeen DEF IInv, Types
<1>5. new \in CoinsType
  <2>1. {o[2]} \in SUBSET Nat /\ c.outs \cup {o[2]} \in SUBSET Nat /\ c.height \in Nat
    BY <1>3, <1>4 DEF CoinsType
  <2> QED BY <1>4, <2>1, CoinType
<1>6. /\ tip' \in [Txs -> Entry] /\ view' \in [Txs -> Entry]
      /\ LayersSound'
  BY <1>3, <1>5, ModifySound DEF IInv, Types, ApplyTxInUndo
<1>7. /\ block' = block /\ i' \in Nat /\ j' \in Nat
      /\ \/ pc' = "restore" /\ i' = i /\ j' \in DOMAIN Vin[Tx]
         \/ pc' = "remove" /\ i' \in DOMAIN Vtx[block]
  <2>1. j - 1 \in Nat /\ (j > 1 => j - 1 \in DOMAIN Vin[Tx])
    BY <1>1, <1>2
  <2>2. i - 1 \in Nat /\ i - 1 \in DOMAIN Vtx[block]
    BY <1>1, <1>2
  <2> QED BY <1>1, <2>1, <2>2 DEF ApplyTxInUndo, Goto
<1>8. pc' = "restore" => Tx' = Tx
  BY <1>7 DEF Tx
<1>9. fClean' \in BOOLEAN
  BY DEF ApplyTxInUndo
<1>10. Types'
  BY <1>1, <1>6, <1>7, <1>8, <1>9 DEF IInv, Types, TypeOK, ApplyTxInUndo, PC, Connecting
<1> QED BY <1>6, <1>7, <1>10 DEF IInv, ChecksPassed

LEMMA EndDisconnectKeeps ==
    ASSUME IInv, EndDisconnect
    PROVE  IInv'
<1>1. /\ tip' \in [Txs -> Entry] /\ view' \in [Txs -> Entry]
      /\ LayersSound' /\ view' = Empty /\ tipBest' \in Blocks
  <2>1. CASE fClean /\ FlushView(Parent[block])
    <3>1. Parent[block] \in Blocks
      BY ParentAssumption DEF IInv, Types, TypeOK, EndDisconnect
    <3> QED BY <2>1, <3>1, FlushViewSound DEF IInv, Types, EndDisconnect, FlushView
  <2>2. CASE view' = Empty /\ UNCHANGED <<tip, tipBest>>
    BY <2>2, EmptyView DEF IInv, Types, TypeOK, LayersSound, EndDisconnect
  <2> QED BY <2>1, <2>2 DEF EndDisconnect
<1>2. TypeOK'
  BY <1>1 DEF IInv, Types, TypeOK, EndDisconnect, Goto, PC
<1> QED BY <1>1, <1>2, IdleKeeps DEF IInv, Types, EndDisconnect, Goto

\* Reads, evictions, flushes and restarts happen between blocks.
LEMMA OutsideKeeps ==
    ASSUME IInv, \/ \E x \in Txs : Read(x) \/ Uncache(x)
                 \/ FlushTip \/ FlushTipFails \/ Restart
    PROVE  IInv'
<1>1. TypeOK /\ LayersSound /\ undo \in [Blocks -> {NoUndo} \cup [Outpoints -> Nat]]
  BY DEF IInv, Types
<1>2. pc = "idle" => view = Empty
  BY DEF IInv
<1>3. ASSUME pc' = "idle", tip' \in [Txs -> Entry], db' \in [Txs -> CoinsType],
             dbBest' \in Blocks, tipBest' \in Blocks, view' = Empty,
             \A x \in Txs : EntrySound(tip'[x], db'[x]),
             block' \in Blocks, i' \in Nat, j' \in Nat, fClean' \in BOOLEAN, aborted' \in BOOLEAN,
             undo' \in [Blocks -> {NoUndo} \cup [Outpoints -> Nat]]
      PROVE  IInv'
  <2>1. view' \in [Txs -> Entry] /\ LayersSound'
    BY <1>3, EmptyView
  <2>2. TypeOK'
    BY <1>3, <2>1 DEF TypeOK, PC
  <2> QED BY <1>3, <2>1, <2>2, IdleKeeps
<1>4. ASSUME tip' = Empty PROVE tip' \in [Txs -> Entry] /\ \A x \in Txs : EntrySound(tip'[x], db'[x])
  BY <1>4, EmptyType DEF EntrySound, Absent
<1>5. ASSUME NEW x \in Txs, Read(x) PROVE IInv'
  <2>1. tip' \in [Txs -> Entry] /\ \A y \in Txs : EntrySound(tip'[y], db'[y])
    BY <1>1, <1>5, TipFetchSound DEF Read
  <2> QED BY <1>1, <1>2, <1>3, <1>5, <2>1 DEF Read, position, TypeOK
<1>6. ASSUME NEW x \in Txs, Uncache(x) PROVE IInv'
  <2>1. tip' = [tip EXCEPT ![x] = Absent] /\ db' = db
    BY <1>6 DEF Uncache
  <2>2. Absent \in Entry /\ EntrySound(Absent, db[x])
    BY PrunedType DEF Absent, Entry, EntrySound
  <2>3. tip' \in [Txs -> Entry] /\ \A y \in Txs : EntrySound(tip'[y], db'[y])
    BY <1>1, <2>1, <2>2 DEF TypeOK, LayersSound
  <2> QED BY <1>1, <1>2, <1>3, <1>6, <2>3 DEF Uncache, position, TypeOK
<1>7. CASE FlushTip
  <2>1. db' \in [Txs -> CoinsType]
    BY <1>1, <1>7 DEF FlushTip, TypeOK, Entry
  <2> QED BY <1>1, <1>2, <1>3, <1>4, <1>7, <2>1 DEF FlushTip, position, TypeOK
<1>8. CASE FlushTipFails
  BY <1>1, <1>2, <1>3, <1>4, <1>8 DEF FlushTipFails, position, TypeOK
<1>9. CASE Restart
  <2>1. undo' \in [Blocks -> {NoUndo} \cup [Outpoints -> Nat]]
    BY <1>1, <1>9 DEF Restart
  <2> QED BY <1>1, <1>3, <1>4, <1>9, <2>1, BlocksAssumption DEF Restart, TypeOK
<1> QED BY <1>5, <1>6, <1>7, <1>8, <1>9

LEMMA NextKeeps == IInv /\ [Next \/ FlushTipFails]_vars => IInv'
<1> SUFFICES ASSUME IInv, [Next \/ FlushTipFails]_vars PROVE IInv'
  OBVIOUS
<1>1. ASSUME NEW b \in Blocks, BeginConnect(b) PROVE IInv'
  BY <1>1, BeginConnectKeeps
<1>2. CASE CheckBIP30 \/ CheckInputs \/ SpendInput \/ AddOutputs \/ EndConnect
  BY <1>2, CheckBIP30Keeps, CheckInputsKeeps, SpendInputKeeps, AddOutputsKeeps, EndConnectKeeps
<1>3. CASE BeginDisconnect \/ RemoveOutputs \/ ApplyTxInUndo \/ EndDisconnect
  BY <1>3, BeginDisconnectKeeps, RemoveOutputsKeeps, ApplyTxInUndoKeeps, EndDisconnectKeeps
<1>4. CASE \/ \E x \in Txs : Read(x) \/ Uncache(x)
           \/ FlushTip \/ FlushTipFails \/ Restart
  BY <1>4, OutsideKeeps
<1>5. CASE UNCHANGED vars
  BY <1>5 DEF vars, layers, position, IInv, Types, TypeOK, LayersSound, EntrySound, ChecksPassed,
              InputsLeft, IsAvailable, ViewCoins, TipCoins, Tx
<1> QED BY <1>1, <1>2, <1>3, <1>4, <1>5 DEF Next

-----------------------------------------------------------------------------
(* CoinsOf is defined along branches, which end in the genesis block.  That   *)
(* the equation has a solution follows from the solutions on single branches, *)
(* which exist and are unique: there is no lowest block without.               *)

NoCoins == [x \in Txs |-> Pruned]

\* g solves the equation of CoinsOf on the branch that ends in b.
Solves(g, b) ==
    \A a \in Ancestors[b] :
        g[a] = IF a = Genesis THEN NoCoins ELSE Effect(g[Parent[a]], a)

LEMMA SolutionsAgree ==
    ASSUME NEW b \in Blocks, NEW f, NEW g, Solves(f, b), Solves(g, b)
    PROVE  \A a \in Ancestors[b] : f[a] = g[a]
<1> DEFINE Bad == {a \in Ancestors[b] : f[a] # g[a]}
<1> SUFFICES ASSUME Bad # {} PROVE FALSE
  OBVIOUS
<1>1. Bad \in SUBSET Blocks
  BY AncestorsType
<1>2. PICK a \in Bad : \A y \in Bad : Height[a] <= Height[y]
  <2> HIDE DEF Bad
  <2> QED BY <1>1, LowestBlock
<1>3. a # Genesis
  BY DEF Solves
<1>4. Parent[a] \in Ancestors[b] /\ Parent[a] \in Blocks /\ a \in Blocks
  BY <1>1, <1>3, AncestorsType DEF ParentClosed
<1>5. Height[a] = Height[Parent[a]] + 1 /\ Height[Parent[a]] \in Nat
  BY <1>3, <1>4, HeightAssumption
<1>6. f[Parent[a]] = g[Parent[a]]
  BY <1>2, <1>4, <1>5
<1> QED BY <1>3, <1>6 DEF Solves

LEMMA SolutionExists ==
    ASSUME NEW b \in Blocks
    PROVE  \E g : Solves(g, b)
<1> DEFINE Bad == {a \in Blocks : ~\E g : Solves(g, a)}
<1> SUFFICES ASSUME Bad # {} PROVE FALSE
  OBVIOUS
<1>1. PICK a \in Bad : \A y \in Bad : Height[a] <= Height[y]
  <2>1. Bad \in SUBSET Blocks
    OBVIOUS
  <2> HIDE DEF Bad
  <2> QED BY <2>1, LowestBlock
<1>2. a # Genesis
  <2>1. Solves([d \in Blocks |-> NoCoins], Genesis)
    BY AncestorsGenesis, BlocksAssumption DEF Solves
  <2> QED BY <2>1
<1>3. Parent[a] \in Blocks /\ a \in Blocks /\ Ancestors[a] = Ancestors[Parent[a]] \cup {a}
  BY <1>2, AncestorsParent
<1>4. Height[a] = Height[Parent[a]] + 1 /\ Height[Parent[a]] \in Nat
  BY <1>2, <1>3, HeightAssumption
<1>5. PICK g : Solves(g, Parent[a])
  BY <1>1, <1>3, <1>4
<1>6. a \notin Ancestors[Parent[a]]
  BY <1>3, <1>4, AncestorIsLower
<1> DEFINE f == [d \in Blocks |-> IF d = a THEN Effect(g[Parent[a]], a) ELSE g[d]]
<1>7. Solves(f, a)
  <2> SUFFICES ASSUME NEW d \in Ancestors[a]
               PROVE  f[d] = IF d = Genesis THEN NoCoins ELSE Effect(f[Parent[d]], d)
    BY DEF Solves
  <2>1. Parent[a] # a /\ Parent[a] \in Ancestors[Parent[a]]
    BY <1>3, <1>4, AncestorsType
  <2>2. CASE d = a
    BY <1>2, <1>3, <2>1, <2>2
  <2>3. CASE d # a
    <3>1. d \in Ancestors[Parent[a]] /\ d \in Blocks
      BY <1>3, <2>3, AncestorsType
    <3>2. d # Genesis => Parent[d] \in Ancestors[Parent[a]] /\ Parent[d] \in Blocks /\ Parent[d] # a
      BY <1>3, <1>6, <3>1, AncestorsType DEF ParentClosed
    <3>3. g[d] = IF d = Genesis THEN NoCoins ELSE Effect(g[Parent[d]], d)
      BY <1>5, <3>1 DEF Solves
    <3> QED BY <2>3, <3>1, <3>2, <3>3
  <2> QED BY <2>2, <2>3
<1> QED BY <1>1, <1>7

\* The unspent outputs of a chain are those of the chain below, changed by its
\* last block.
LEMMA CoinsOfBlock ==
    /\ CoinsOf[Genesis] = NoCoins
    /\ \A b \in Blocks \ {Genesis} : CoinsOf[b] = Effect(CoinsOf[Parent[b]], b)
<1> DEFINE sol(b) == CHOOSE g : Solves(g, b)
           f == [b \in Blocks |-> sol(b)[b]]
           R(h) == [b \in Blocks |-> IF b = Genesis THEN NoCoins ELSE Effect(h[Parent[b]], b)]
<1>1. \A b \in Blocks : Solves(sol(b), b)
  BY SolutionExists
<1>2. ASSUME NEW b \in Blocks
      PROVE  f[b] = IF b = Genesis THEN NoCoins ELSE Effect(f[Parent[b]], b)
  <2>1. b \in Ancestors[b] /\ f[b] = sol(b)[b]
    BY AncestorsType
  <2>2. f[b] = IF b = Genesis THEN NoCoins ELSE Effect(sol(b)[Parent[b]], b)
    BY <1>1, <2>1 DEF Solves
  <2>3. CASE b = Genesis
    BY <2>2, <2>3
  <2>4. CASE b # Genesis
    <3>1. Parent[b] \in Blocks /\ Ancestors[Parent[b]] \subseteq Ancestors[b]
      BY <2>4, AncestorsParent
    <3>2. Solves(sol(b), Parent[b]) /\ Solves(sol(Parent[b]), Parent[b])
      BY <1>1, <3>1 DEF Solves
    <3>3. sol(b)[Parent[b]] = sol(Parent[b])[Parent[b]]
      <4> HIDE DEF sol
      <4> QED BY <3>1, <3>2, SolutionsAgree, AncestorsType
    <3>4. f[Parent[b]] = sol(Parent[b])[Parent[b]]
      BY <3>1
    <3> HIDE DEF f, sol
    <3> QED BY <2>2, <2>4, <3>3, <3>4
  <2> QED BY <2>3, <2>4
<1>3. f = R(f)
  <2>1. \A b \in Blocks : f[b] = R(f)[b]
    BY <1>2
  <2> QED BY <2>1
<1>4. \E h : h = R(h)
  BY <1>3
<1>5. CoinsOf = R(CoinsOf)
  BY <1>4, Zenon DEF CoinsOf, NoCoins
<1> QED BY <1>5, BlocksAssumption

-----------------------------------------------------------------------------
(* In the middle of block b, before input m of its transaction k *)

AddedBefore(b, k, x) == \E l \in DOMAIN Vtx[b] : l < k /\ Vtx[b][l] = x

SpentBefore(b, k, m, o) ==
    \E l \in DOMAIN Vtx[b] : \E r \in DOMAIN Vin[Vtx[b][l]] :
        (l < k \/ (l = k /\ r < m)) /\ Vin[Vtx[b][l]][r] = o

\* Height and outputs of the coins of x at this point, over the coins c
HeightAt(c, b, k, x) == IF AddedBefore(b, k, x) THEN Height[b] ELSE c[x].height
Made(c, b, k, x)     == IF AddedBefore(b, k, x) THEN Outs[x] ELSE c[x].outs
Left(c, b, k, m, x)  == {n \in Made(c, b, k, x) : ~SpentBefore(b, k, m, <<x, n>>)}
Midway(c, b, k, m, x) == Coin(HeightAt(c, b, k, x), Left(c, b, k, m, x))

\* What Acceptable asks of one input, and of all inputs up to a point
Fits(c, b, k, m) ==
    LET o == Vin[Vtx[b][k]][m] IN
    /\ \/ o[2] \in c[o[1]].outs
       \/ \E l \in 1..(k - 1) : Vtx[b][l] = o[1] /\ o[2] \in Outs[o[1]]
    /\ \A l \in 1..(k - 1) : \A r \in DOMAIN Vin[Vtx[b][l]] : Vin[Vtx[b][l]][r] # o
FitBefore(c, b, k, m) ==
    \A l \in DOMAIN Vtx[b] : \A r \in DOMAIN Vin[Vtx[b][l]] :
        (l < k \/ (l = k /\ r < m)) => Fits(c, b, l, r)

NothingOverwritten(c, b) == \A l \in DOMAIN Vtx[b] : c[Vtx[b][l]] = Pruned

\* Coins as chains leave them: all spent is Pruned, all else has a height above 0.
Canonical(c) ==
    \A x \in Txs : c[x] \in CoinsType /\ (c[x] = Pruned \/ (c[x].outs # {} /\ c[x].height > 0))

LEMMA CoinParts ==
    ASSUME NEW h, NEW S
    PROVE  /\ Coin(h, S).outs = S
           /\ S # {} => Coin(h, S).height = h
           /\ Coin(h, S) = Pruned <=> S = {}
BY DEF Coin, Pruned

LEMMA SeqOfBlock ==
    ASSUME NEW b \in Blocks
    PROVE  /\ Vtx[b] \in Seq(Txs) /\ DOMAIN Vtx[b] = 1..Len(Vtx[b]) /\ Len(Vtx[b]) \in Nat
           /\ b # Genesis => Len(Vtx[b]) > 0
           /\ \A l \in DOMAIN Vtx[b] :
                /\ Vtx[b][l] \in Txs /\ l \in Nat /\ l > 0
                /\ Vin[Vtx[b][l]] \in Seq(Txs \X Nat)
                /\ DOMAIN Vin[Vtx[b][l]] = 1..Len(Vin[Vtx[b][l]]) /\ Len(Vin[Vtx[b][l]]) \in Nat
                /\ \A r \in DOMAIN Vin[Vtx[b][l]] : r \in Nat
           /\ \A k, l \in DOMAIN Vtx[b] : Vtx[b][k] = Vtx[b][l] => k = l
<1>1. Vtx[b] \in Seq(Txs)
  BY VtxAssumption
<1>2. ASSUME NEW l \in DOMAIN Vtx[b]
      PROVE  /\ Vtx[b][l] \in Txs /\ l \in Nat /\ l > 0
             /\ Vin[Vtx[b][l]] \in Seq(Txs \X Nat)
             /\ DOMAIN Vin[Vtx[b][l]] = 1..Len(Vin[Vtx[b][l]]) /\ Len(Vin[Vtx[b][l]]) \in Nat
             /\ \A r \in DOMAIN Vin[Vtx[b][l]] : r \in Nat
  <2>1. Vtx[b][l] \in Txs /\ l \in Nat /\ l > 0 /\ Vin[Vtx[b][l]] \in Seq(Txs \X Nat)
    BY TxType
  <2> QED BY <2>1
<1> QED BY <1>1, <1>2, VtxAssumption

\* One more input
LEMMA SpentInput ==
    ASSUME NEW b \in Blocks, NEW k \in DOMAIN Vtx[b], NEW m \in DOMAIN Vin[Vtx[b][k]], NEW p
    PROVE  SpentBefore(b, k, m + 1, p) <=> SpentBefore(b, k, m, p) \/ p = Vin[Vtx[b][k]][m]
<1>1. /\ DOMAIN Vin[Vtx[b][k]] = 1..Len(Vin[Vtx[b][k]]) /\ Len(Vin[Vtx[b][k]]) \in Nat
      /\ k \in Nat /\ m \in Nat
      /\ \A l \in DOMAIN Vtx[b] : l \in Nat /\ \A r \in DOMAIN Vin[Vtx[b][l]] : r \in Nat
  BY SeqOfBlock
<1>2. \A l \in DOMAIN Vtx[b] : \A r \in DOMAIN Vin[Vtx[b][l]] :
          (l < k \/ (l = k /\ r < m + 1)) <=> (l < k \/ (l = k /\ r < m)) \/ (l = k /\ r = m)
  BY <1>1
<1> QED BY <1>1, <1>2 DEF SpentBefore

LEMMA MidwayInput ==
    ASSUME NEW c, NEW b \in Blocks, NEW k \in DOMAIN Vtx[b], NEW m \in Nat, m \in DOMAIN Vin[Vtx[b][k]], NEW x \in Txs,
           NEW o, o = Vin[Vtx[b][k]][m], NEW z \in Nat, z = m + 1
    PROVE  /\ x = o[1] => Left(c, b, k, z, x) = Left(c, b, k, m, x) \ {o[2]}
           /\ x # o[1] => Left(c, b, k, z, x) = Left(c, b, k, m, x)
<1>1. o \in Txs \X Nat
  BY SeqOfBlock
<1>2. \A n : SpentBefore(b, k, z, <<x, n>>) <=> SpentBefore(b, k, m, <<x, n>>) \/ <<x, n>> = o
  BY SpentInput
<1>3. Left(c, b, k, z, x) = {n \in Made(c, b, k, x) : ~SpentBefore(b, k, m, <<x, n>>) /\ <<x, n>> # o}
  BY <1>2 DEF Left
<1>4. \A n : <<x, n>> = o <=> x = o[1] /\ n = o[2]
  BY <1>1
<1> QED BY <1>3, <1>4 DEF Left

\* The outputs of transaction k, none of which is spent yet
AfterOutputs(c, b, k, x) ==
    LET z == Len(Vin[Vtx[b][k]]) + 1 IN
    /\ x = Vtx[b][k] => /\ Midway(c, b, k, z, x) = Pruned
                        /\ Midway(c, b, k + 1, 1, x) = FromTx(x, b)
    /\ x # Vtx[b][k] => Midway(c, b, k + 1, 1, x) = Midway(c, b, k, z, x)

LEMMA MidwayOutputs ==
    ASSUME NEW c, NEW b \in Blocks, NEW k \in DOMAIN Vtx[b], NEW x \in Txs, Canonical(c),
           NothingOverwritten(c, b), FitBefore(c, b, k + 1, 1)
    PROVE  AfterOutputs(c, b, k, x)
<1> DEFINE z == Len(Vin[Vtx[b][k]]) + 1
<1>1. /\ DOMAIN Vin[Vtx[b][k]] = 1..Len(Vin[Vtx[b][k]]) /\ Len(Vin[Vtx[b][k]]) \in Nat
      /\ k \in Nat /\ DOMAIN Vtx[b] = 1..Len(Vtx[b]) /\ Len(Vtx[b]) \in Nat
      /\ \A l \in DOMAIN Vtx[b] : DOMAIN Vin[Vtx[b][l]] = 1..Len(Vin[Vtx[b][l]])
                                  /\ Len(Vin[Vtx[b][l]]) \in Nat /\ l \in Nat
  BY SeqOfBlock
<1>2. ASSUME NEW p PROVE SpentBefore(b, k + 1, 1, p) <=> SpentBefore(b, k, z, p)
  <2>1. \A l \in DOMAIN Vtx[b] : \A r \in DOMAIN Vin[Vtx[b][l]] :
            (l < k + 1 \/ (l = k + 1 /\ r < 1)) <=> (l < k \/ (l = k /\ r < z))
    BY <1>1
  <2> HIDE DEF z
  <2> QED BY <2>1 DEF SpentBefore
<1>3. AddedBefore(b, k + 1, x) <=> AddedBefore(b, k, x) \/ x = Vtx[b][k]
  BY <1>1 DEF AddedBefore
<1>4. CASE x = Vtx[b][k]
  <2>1. ~AddedBefore(b, k, x)
    BY <1>1, <1>4, SeqOfBlock DEF AddedBefore
  <2>2. c[x] = Pruned /\ c[x].outs = {}
    BY <1>4 DEF NothingOverwritten, Pruned
  <2>3. Left(c, b, k, z, x) = {}
    BY <2>1, <2>2 DEF Left, Made
  <2>4. ASSUME NEW n, SpentBefore(b, k + 1, 1, <<x, n>>) PROVE FALSE
    <3>0. PICK l \in DOMAIN Vtx[b] : \E r \in DOMAIN Vin[Vtx[b][l]] :
                (l < k + 1 \/ (l = k + 1 /\ r < 1)) /\ Vin[Vtx[b][l]][r] = <<x, n>>
      BY <2>4 DEF SpentBefore
    <3>1. PICK r \in DOMAIN Vin[Vtx[b][l]] :
                (l < k + 1 \/ (l = k + 1 /\ r < 1)) /\ Vin[Vtx[b][l]][r] = <<x, n>>
      BY <3>0
    <3>2. l <= k /\ l \in Nat /\ Fits(c, b, l, r)
      BY <1>1, <3>1 DEF FitBefore
    <3>3. \E q \in 1..(l - 1) : Vtx[b][q] = x
      BY <2>2, <3>1, <3>2 DEF Fits
    <3>4. PICK q \in 1..(l - 1) : Vtx[b][q] = x
      BY <3>3
    <3>5. q \in DOMAIN Vtx[b] /\ q < k
      BY <1>1, <3>2, <3>4
    <3> QED BY <1>1, <1>4, <3>4, <3>5, SeqOfBlock
  <2>5. Left(c, b, k + 1, 1, x) = Outs[x] /\ HeightAt(c, b, k + 1, x) = Height[b]
    BY <1>3, <1>4, <2>4 DEF Left, Made, HeightAt
  <2> QED BY <1>4, <2>3, <2>5, CoinParts DEF Midway, FromTx, AfterOutputs
<1>5. CASE x # Vtx[b][k]
  <2>1. AddedBefore(b, k + 1, x) <=> AddedBefore(b, k, x)
    BY <1>3, <1>5
  <2> HIDE DEF z
  <2>2. Left(c, b, k + 1, 1, x) = Left(c, b, k, z, x) /\ HeightAt(c, b, k + 1, x) = HeightAt(c, b, k, x)
    BY <1>2, <2>1 DEF Left, Made, HeightAt
  <2> QED BY <1>5, <2>2 DEF Midway, z, AfterOutputs
<1> QED BY <1>4, <1>5

\* Before the block and after it
LEMMA MidwayEnds ==
    ASSUME NEW c, NEW b \in Blocks, NEW x \in Txs, Canonical(c)
    PROVE  /\ Midway(c, b, 1, 1, x) = c[x]
           /\ Midway(c, b, Len(Vtx[b]) + 1, 1, x) = Effect(c, b)[x]
<1>1. /\ DOMAIN Vtx[b] = 1..Len(Vtx[b]) /\ Len(Vtx[b]) \in Nat
      /\ \A l \in DOMAIN Vtx[b] : DOMAIN Vin[Vtx[b][l]] = 1..Len(Vin[Vtx[b][l]])
                                  /\ Len(Vin[Vtx[b][l]]) \in Nat /\ l \in Nat
  BY SeqOfBlock
<1>2. Midway(c, b, 1, 1, x) = c[x]
  <2>1. ~AddedBefore(b, 1, x)
    BY <1>1 DEF AddedBefore
  <2>2. \A p : ~SpentBefore(b, 1, 1, p)
    BY <1>1 DEF SpentBefore
  <2>3. Left(c, b, 1, 1, x) = c[x].outs /\ HeightAt(c, b, 1, x) = c[x].height
    BY <2>1, <2>2 DEF Left, Made, HeightAt
  <2>4. c[x] \in CoinsType /\ (c[x] = Pruned \/ c[x].outs # {})
    BY DEF Canonical
  <2>5. Coin(c[x].height, c[x].outs) = c[x]
    BY <2>4 DEF Coin, Pruned, CoinsType
  <2> QED BY <2>3, <2>5 DEF Midway
<1>3. Midway(c, b, Len(Vtx[b]) + 1, 1, x) = Effect(c, b)[x]
  <2> DEFINE e == Len(Vtx[b]) + 1
  <2>1. AddedBefore(b, e, x) <=> x \in TxsOf(b)
    BY <1>1 DEF AddedBefore, TxsOf, Items
  <2>2. ASSUME NEW p PROVE SpentBefore(b, e, 1, p) <=> p \in SpentIn(b)
    <3>1. p \in SpentIn(b) <=> \E l \in DOMAIN Vtx[b] : p \in Items(Vin[Vtx[b][l]])
      BY DEF SpentIn, TxsOf, Items
    <3>2. \A l \in DOMAIN Vtx[b] : p \in Items(Vin[Vtx[b][l]]) <=> \E r \in DOMAIN Vin[Vtx[b][l]] : Vin[Vtx[b][l]][r] = p
      BY DEF Items
    <3>3. \A l \in DOMAIN Vtx[b] : l < e
      BY <1>1
    <3> HIDE DEF e
    <3> QED BY <3>1, <3>2, <3>3 DEF SpentBefore
  <2> HIDE DEF e
  <2>3. Left(c, b, e, 1, x) = {n \in IF x \in TxsOf(b) THEN Outs[x] ELSE c[x].outs : <<x, n>> \notin SpentIn(b)}
    BY <2>1, <2>2 DEF Left, Made
  <2>4. HeightAt(c, b, e, x) = IF x \in TxsOf(b) THEN Height[b] ELSE c[x].height
    BY <2>1 DEF HeightAt
  <2> QED BY <2>3, <2>4 DEF Midway, Effect, e
<1> QED BY <1>2, <1>3

\* An input that is available in the middle of a block is one that Acceptable allows.
LEMMA AvailableFits ==
    ASSUME NEW c, NEW b \in Blocks, NEW k \in DOMAIN Vtx[b], NEW m \in DOMAIN Vin[Vtx[b][k]],
           Vin[Vtx[b][k]][m][2] \in Left(c, b, k, m, Vin[Vtx[b][k]][m][1])
    PROVE  Fits(c, b, k, m) /\ ~SpentBefore(b, k, m, Vin[Vtx[b][k]][m])
<1> DEFINE o == Vin[Vtx[b][k]][m]
<1>1. /\ k \in Nat /\ DOMAIN Vtx[b] = 1..Len(Vtx[b]) /\ Len(Vtx[b]) \in Nat
      /\ o \in Txs \X Nat /\ o = <<o[1], o[2]>>
  BY SeqOfBlock
<1>2. o[2] \in Made(c, b, k, o[1]) /\ ~SpentBefore(b, k, m, o)
  BY <1>1 DEF Left
<1> HIDE DEF o
<1>3. o[2] \in c[o[1]].outs \/ \E l \in 1..(k - 1) : Vtx[b][l] = o[1] /\ o[2] \in Outs[o[1]]
  BY <1>1, <1>2 DEF Made, AddedBefore
<1>4. \A l \in 1..(k - 1) : l \in DOMAIN Vtx[b] /\ l < k
  BY <1>1
<1>5. \A l \in 1..(k - 1) : \A r \in DOMAIN Vin[Vtx[b][l]] : Vin[Vtx[b][l]][r] # o
  BY <1>2, <1>4 DEF SpentBefore
<1> QED BY <1>2, <1>3, <1>5 DEF Fits, o

\* The other way round, for an input of a transaction none of whose own inputs
\* is the same.
LEMMA FitsAvailable ==
    ASSUME NEW c, NEW b \in Blocks, NEW k \in DOMAIN Vtx[b], NEW m \in DOMAIN Vin[Vtx[b][k]],
           NothingOverwritten(c, b), Fits(c, b, k, m)
    PROVE  /\ Vin[Vtx[b][k]][m][2] \in Left(c, b, k, m, Vin[Vtx[b][k]][m][1])
           /\ Vin[Vtx[b][k]][m][2] \in Left(c, b, k, 1, Vin[Vtx[b][k]][m][1])
           /\ ~SpentBefore(b, k, m, Vin[Vtx[b][k]][m])
<1> DEFINE o == Vin[Vtx[b][k]][m]
<1>1. /\ k \in Nat /\ DOMAIN Vtx[b] = 1..Len(Vtx[b]) /\ Len(Vtx[b]) \in Nat
      /\ o \in Txs \X Nat /\ o = <<o[1], o[2]>> /\ m \in Nat /\ m > 0
      /\ Vtx[b][k] \in Txs
  BY SeqOfBlock
<1>2. \A r \in DOMAIN Vin[Vtx[b][k]] : r # m => Vin[Vtx[b][k]][r] # o
  BY <1>1, VinAssumption
<1>3. \A r \in DOMAIN Vin[Vtx[b][k]] : r \in Nat /\ r > 0
  BY SeqOfBlock
<1>4. ASSUME NEW l \in DOMAIN Vtx[b], l < k, NEW r \in DOMAIN Vin[Vtx[b][l]] PROVE Vin[Vtx[b][l]][r] # o
  <2>1. l \in 1..(k - 1)
    BY <1>1, <1>4
  <2> QED BY <2>1 DEF Fits
<1>5. ~SpentBefore(b, k, m, o) /\ ~SpentBefore(b, k, 1, o)
  <2> HIDE DEF o
  <2>1. ASSUME NEW l \in DOMAIN Vtx[b], NEW r \in DOMAIN Vin[Vtx[b][l]],
               Vin[Vtx[b][l]][r] = o, l < k \/ (l = k /\ (r < m \/ r < 1))
        PROVE  FALSE
    <3>1. CASE l < k
      BY <1>4, <2>1, <3>1
    <3>2. CASE l = k /\ (r < m \/ r < 1)
      <4>1. r \in DOMAIN Vin[Vtx[b][k]] /\ r \in Nat /\ r > 0
        BY <1>3, <3>2
      <4>2. r # m
        BY <1>1, <3>2, <4>1
      <4> QED BY <1>2, <2>1, <3>2, <4>1, <4>2
    <3> QED BY <2>1, <3>1, <3>2
  <2> QED BY <2>1 DEF SpentBefore
<1>6. o[2] \in Made(c, b, k, o[1])
  <2>1. CASE o[2] \in c[o[1]].outs
    <3>1. ~AddedBefore(b, k, o[1])
      BY <2>1 DEF AddedBefore, NothingOverwritten, Pruned
    <3> QED BY <2>1, <3>1 DEF Made
  <2>2. CASE \E l \in 1..(k - 1) : Vtx[b][l] = o[1] /\ o[2] \in Outs[o[1]]
    <3>1. PICK l \in 1..(k - 1) : Vtx[b][l] = o[1] /\ o[2] \in Outs[o[1]]
      BY <2>2
    <3>2. l \in DOMAIN Vtx[b] /\ l < k
      BY <1>1
    <3> QED BY <3>1, <3>2 DEF Made, AddedBefore
  <2> QED BY <2>1, <2>2 DEF Fits
<1> QED BY <1>1, <1>5, <1>6 DEF Left

LEMMA AcceptableParts ==
    ASSUME NEW c, NEW b \in Blocks
    PROVE  Acceptable(c, b) <=> NothingOverwritten(c, b) /\ FitBefore(c, b, Len(Vtx[b]) + 1, 1)
<1>1. DOMAIN Vtx[b] = 1..Len(Vtx[b]) /\ Len(Vtx[b]) \in Nat
  BY SeqOfBlock
<1>2. FitBefore(c, b, Len(Vtx[b]) + 1, 1)
        <=> \A k \in DOMAIN Vtx[b] : \A m \in DOMAIN Vin[Vtx[b][k]] : Fits(c, b, k, m)
  BY <1>1 DEF FitBefore
<1>3. NothingOverwritten(c, b) <=> \A x \in TxsOf(b) : c[x] = Pruned
  BY DEF NothingOverwritten, TxsOf, Items
<1> QED BY <1>2, <1>3 DEF Acceptable, Fits

\* Every chain leaves canonical coins.
LEMMA EffectCanonical ==
    ASSUME NEW c, NEW b \in Blocks \ {Genesis}, Canonical(c)
    PROVE  Canonical(Effect(c, b))
<1> SUFFICES ASSUME NEW x \in Txs
             PROVE  LET d == Effect(c, b)[x]
                    IN  d \in CoinsType /\ (d = Pruned \/ (d.outs # {} /\ d.height > 0))
  BY DEF Canonical
<1> DEFINE h == IF x \in TxsOf(b) THEN Height[b] ELSE c[x].height
           S == {n \in IF x \in TxsOf(b) THEN Outs[x] ELSE c[x].outs : <<x, n>> \notin SpentIn(b)}
<1>1. Effect(c, b)[x] = Coin(h, S)
  BY DEF Effect
<1>2. Height[b] \in Nat /\ Height[b] > 0
  BY HeightAssumption, ParentAssumption
<1>3. c[x] \in CoinsType /\ (c[x] = Pruned \/ (c[x].outs # {} /\ c[x].height > 0))
  BY DEF Canonical
<1>4. h \in Nat /\ S \in SUBSET Nat
  BY <1>2, <1>3, OutsAssumption DEF CoinsType
<1>5. S # {} => h > 0
  <2>1. CASE x \in TxsOf(b)
    BY <1>2, <2>1
  <2>2. CASE x \notin TxsOf(b)
    <3>1. S # {} => c[x].outs # {}
      BY <2>2
    <3> QED BY <1>3, <2>2, <3>1 DEF Pruned
  <2> QED BY <2>1, <2>2
<1> HIDE DEF h, S
<1> QED BY <1>1, <1>4, <1>5, CoinType, CoinParts

LEMMA CoinsOfCanonical ==
    ASSUME NEW b \in Blocks
    PROVE  Canonical(CoinsOf[b])
<1> DEFINE Bad == {a \in Blocks : ~Canonical(CoinsOf[a])}
<1> SUFFICES ASSUME Bad # {} PROVE FALSE
  OBVIOUS
<1>1. PICK a \in Bad : \A y \in Bad : Height[a] <= Height[y]
  <2>1. Bad \in SUBSET Blocks
    OBVIOUS
  <2> HIDE DEF Bad
  <2> QED BY <2>1, LowestBlock
<1>2. a # Genesis
  <2>1. Canonical(NoCoins)
    BY PrunedType DEF Canonical, NoCoins
  <2> QED BY <2>1, CoinsOfBlock
<1>3. Parent[a] \in Blocks /\ a \in Blocks \ {Genesis}
  BY <1>2, AncestorsParent
<1>4. Height[a] = Height[Parent[a]] + 1 /\ Height[Parent[a]] \in Nat
  BY <1>3, HeightAssumption
<1>5. Canonical(CoinsOf[Parent[a]])
  BY <1>1, <1>3, <1>4
<1> QED BY <1>3, <1>5, EffectCanonical, CoinsOfBlock

-----------------------------------------------------------------------------
(* The inductive invariant: the view is always the coins of the chain below    *)
(* the block, changed by what ConnectBlock has done or DisconnectBlock has not  *)
(* yet undone.                                                                   *)

\* The undo data of an input, as it was when the input was spent
UndoAt(b, k, m) ==
    LET o == Vin[Vtx[b][k]][m] IN UndoHeight(Midway(CoinsOf[Parent[b]], b, k, m, o[1]), o[2])
UndoFits(u, b, k, m) ==
    \A l \in DOMAIN Vtx[b] : \A r \in DOMAIN Vin[Vtx[b][l]] :
        (l < k \/ (l = k /\ r < m)) => u[Vin[Vtx[b][l]][r]] = UndoAt(b, l, r)

Below == CoinsOf[Parent[block]]

\* The view is in the middle of the block.
At(k, m) == \A x \in Txs : ViewCoins(x) = Midway(Below, block, k, m, x)

\* ConnectBlock has accepted the block up to this point.
Reached(k, m) ==
    /\ At(k, m)
    /\ NothingOverwritten(Below, block)
    /\ FitBefore(Below, block, k, m)
    /\ UndoFits(blockundo, block, k, m)

ConnectInv ==
    /\ pc \in Connecting => Parent[block] = tipBest
    /\ pc = "bip30"     => At(1, 1)
    /\ pc = "inputs"    => Reached(i, 1)
    /\ pc = "spend"     => Reached(i, j)
    /\ pc = "outputs"   => Reached(i, Len(Vin[Tx]) + 1)
    /\ pc = "connected" => Reached(Len(Vtx[block]) + 1, 1)

Disconnecting == {"remove", "restore", "disconnected"}

DisconnectInv ==
    /\ fClean
    /\ pc \in Disconnecting  => block = tipBest
    /\ pc = "remove"         => At(i + 1, 1)
    /\ pc = "restore"        => At(i, j + 1)
    /\ pc = "disconnected"   => At(1, 1)

\* Every block of the chain that ends in t was acceptable and can be undone.
ChainFits(t) ==
    \A b \in Ancestors[t] \ {Genesis} : Acceptable(CoinsOf[Parent[b]], b) /\ undo[b] # NoUndo

ChainsInv ==
    /\ \A x \in Txs : TipCoins(x) = CoinsOf[tipBest][x]
    /\ DbMatchesBest
    /\ ChainFits(tipBest) /\ ChainFits(dbBest)
    /\ \A b \in Blocks \ {Genesis} :
          undo[b] # NoUndo => UndoFits(undo[b], b, Len(Vtx[b]) + 1, 1)

CachedIfDirty(e)  == e.dirty => e.cached
DirtyInv == \A x \in Txs : CachedIfDirty(tip[x]) /\ CachedIfDirty(view[x])

RInv == IInv /\ DirtyInv /\ ChainsInv /\ ConnectInv /\ DisconnectInv

-----------------------------------------------------------------------------
(* Dirty entries are cached. *)

LEMMA DirtyFetched ==
    ASSUME DirtyInv, NEW S
    PROVE  \A x \in Txs : CachedIfDirty(TipFetched(S)[x]) /\ CachedIfDirty(Filled(S)[x])
                          /\ CachedIfDirty(ViewFetched(S)[x])
BY DEF DirtyInv, CachedIfDirty, TipFetched, Filled, ViewFetched

LEMMA DirtyModified ==
    ASSUME DirtyInv, TypeOK, NEW x \in Txs, NEW c, NEW f
    PROVE  \A y \in Txs : CachedIfDirty([view EXCEPT ![x] = Modified(c, f)][y])
<1>1. CachedIfDirty(Modified(c, f))
  BY DEF CachedIfDirty, Modified, Absent
<1>2. view \in [Txs -> Entry]
  BY DEF TypeOK
<1> QED BY <1>1, <1>2 DEF DirtyInv

LEMMA DirtyEmpty == \A x \in Txs : CachedIfDirty(Empty[x])
BY EmptyType DEF CachedIfDirty, Absent

LEMMA DirtyMerged ==
    ASSUME DirtyInv
    PROVE  \A x \in Txs : CachedIfDirty(Merged(view[x], tip[x]))
BY DEF DirtyInv, CachedIfDirty, Merged, Absent

\* Flushing the view makes its coins those of pcoinsTip.
LEMMA FlushViewCoins ==
    ASSUME IInv, DirtyInv, NEW b, FlushView(b), db' = db
    PROVE  /\ \A x \in Txs : TipCoins(x)' = ViewCoins(x)
           /\ DirtyInv'
<1>1. ASSUME NEW x \in Txs PROVE TipCoins(x)' = ViewCoins(x)
  <2>1. view[x] \in Entry /\ tip[x] \in Entry
    BY DEF IInv, Types, TypeOK
  <2>2. EntrySound(view[x], TipCoins(x)) /\ EntrySound(tip[x], db[x])
    BY DEF IInv, LayersSound
  <2>3. CachedIfDirty(view[x])
    BY DEF DirtyInv
  <2>4. tip'[x] = Merged(view[x], tip[x])
    BY DEF FlushView
  <2>5. CASE ~view[x].dirty
    BY <2>2, <2>4, <2>5 DEF Merged, TipCoins, ViewCoins, EntrySound
  <2>6. CASE view[x].dirty /\ ~tip[x].cached
    BY <2>2, <2>3, <2>4, <2>6 DEF Merged, TipCoins, ViewCoins, EntrySound, CachedIfDirty, Absent
  <2>7. CASE view[x].dirty /\ tip[x].cached
    BY <2>2, <2>3, <2>4, <2>7 DEF Merged, TipCoins, ViewCoins, EntrySound, CachedIfDirty, Absent
  <2> QED BY <2>1, <2>5, <2>6, <2>7 DEF Entry
<1>2. DirtyInv'
  BY DirtyMerged, DirtyEmpty DEF FlushView, DirtyInv
<1> QED BY <1>1, <1>2

-----------------------------------------------------------------------------
(* Between blocks and inside a block *)

\* A step that leaves what pcoinsTip shows, the database and the undo data alone
LEMMA ChainsKept ==
    ASSUME ChainsInv, UNCHANGED <<db, dbBest, tipBest, undo>>,
           \A x \in Txs : TipCoins(x)' = TipCoins(x)
    PROVE  ChainsInv'
BY DEF ChainsInv, DbMatchesBest, ChainFits

LEMMA IdleRInv ==
    ASSUME IInv', DirtyInv', ChainsInv', fClean', pc' = "idle"
    PROVE  RInv'
BY DEF RInv, ConnectInv, DisconnectInv, Connecting, Disconnecting

LEMMA RInvFacts ==
    ASSUME RInv
    PROVE  /\ IInv /\ DirtyInv /\ ChainsInv /\ fClean
           /\ TypeOK /\ LayersSound
           /\ block \in Blocks /\ tipBest \in Blocks /\ dbBest \in Blocks
           /\ pc # "idle" => block # Genesis /\ Parent[block] \in Blocks
           /\ pc = "idle" => \A x \in Txs : ViewCoins(x) = TipCoins(x)
           /\ \A x \in Txs : TipCoins(x) = CoinsOf[tipBest][x]
<1>1. /\ IInv /\ DirtyInv /\ ChainsInv /\ fClean /\ TypeOK /\ LayersSound
      /\ block \in Blocks /\ tipBest \in Blocks /\ dbBest \in Blocks
      /\ pc # "idle" => block # Genesis
      /\ \A x \in Txs : TipCoins(x) = CoinsOf[tipBest][x]
  BY DEF RInv, IInv, Types, TypeOK, ChainsInv, DisconnectInv
<1>2. pc = "idle" => \A x \in Txs : ViewCoins(x) = TipCoins(x)
  BY <1>1, EmptyType DEF IInv, ViewCoins, Absent
<1> QED BY <1>1, <1>2, ParentAssumption

\* ConnectBlock returns false.
LEMMA RejectRInv ==
    ASSUME RInv, NEW S, Reject(S), IInv',
           UNCHANGED <<db, dbBest, tipBest, undo, fClean>>
    PROVE  RInv' /\ \A x \in Txs : TipCoins(x)' = TipCoins(x)
<1>1. \A x \in Txs : TipCoins(x)' = TipCoins(x)
  BY RInvFacts, TipFetchSound DEF Reject, Filled
<1>2. ChainsInv'
  BY <1>1, RInvFacts, ChainsKept
<1>3. DirtyInv'
  BY RInvFacts, DirtyFetched, DirtyEmpty DEF Reject, DirtyInv
<1> QED BY <1>1, <1>2, <1>3, RInvFacts, IdleRInv DEF Reject, Goto

LEMMA BeginConnectRInv ==
    ASSUME RInv, NEW b \in Blocks, BeginConnect(b)
    PROVE  RInv' /\ \A x \in Txs : TipCoins(x)' = TipCoins(x)
<1>1. IInv'
  BY RInvFacts, BeginConnectKeeps
<1>2. /\ UNCHANGED <<db, dbBest, tip, tipBest, view, undo, fClean>>
      /\ pc = "idle" /\ pc' = "bip30" /\ block' = b /\ Parent[b] = tipBest /\ b # Genesis
  BY DEF BeginConnect, layers
<1>3. \A x \in Txs : TipCoins(x)' = TipCoins(x) /\ ViewCoins(x)' = ViewCoins(x)
  BY <1>2 DEF TipCoins, ViewCoins
<1>4. ChainsInv' /\ DirtyInv'
  BY <1>2, <1>3, RInvFacts, ChainsKept DEF DirtyInv
<1>5. At(1, 1)'
  <2>1. \A x \in Txs : ViewCoins(x)' = CoinsOf[tipBest][x]
    BY <1>2, <1>3, RInvFacts
  <2>2. \A x \in Txs : Midway(CoinsOf[tipBest], b, 1, 1, x) = CoinsOf[tipBest][x]
    BY RInvFacts, CoinsOfCanonical, MidwayEnds
  <2> QED BY <1>2, <2>1, <2>2 DEF At, Below
<1>6. ConnectInv' /\ DisconnectInv'
  BY <1>2, <1>5, RInvFacts DEF ConnectInv, DisconnectInv, Disconnecting, Connecting
<1> QED BY <1>1, <1>3, <1>4, <1>6 DEF RInv

\* The loops of ConnectBlock only fetch.
LEMMA FetchRInv ==
    ASSUME RInv, NEW S, tip' = Filled(S), view' = ViewFetched(S),
           UNCHANGED <<db, dbBest, tipBest, undo, fClean>>
    PROVE  /\ ChainsInv' /\ DirtyInv'
           /\ \A x \in Txs : TipCoins(x)' = TipCoins(x) /\ ViewCoins(x)' = ViewCoins(x)
<1>1. \A x \in Txs : TipCoins(x)' = TipCoins(x) /\ ViewCoins(x)' = ViewCoins(x)
  BY RInvFacts, ViewFetchSound
<1>2. ChainsInv'
  BY <1>1, RInvFacts, ChainsKept
<1>3. DirtyInv'
  BY RInvFacts, DirtyFetched DEF DirtyInv
<1> QED BY <1>1, <1>2, <1>3

LEMMA CheckBIP30RInv ==
    ASSUME RInv, CheckBIP30
    PROVE  RInv' /\ \A x \in Txs : TipCoins(x)' = TipCoins(x)
<1>1. IInv'
  BY RInvFacts, CheckBIP30Keeps
<1>2. CASE Reject({Tx})
  BY <1>1, <1>2, RejectRInv DEF CheckBIP30
<1>3. CASE /\ tip' = Filled({Tx})
           /\ view' = ViewFetched({Tx})
           /\ IF MoreTxs THEN Goto("bip30", i + 1, 1) ELSE Goto("inputs", 1, 1)
  <2>1. /\ ChainsInv' /\ DirtyInv'
        /\ \A x \in Txs : TipCoins(x)' = TipCoins(x) /\ ViewCoins(x)' = ViewCoins(x)
    BY <1>3, FetchRInv DEF CheckBIP30
  <2>2. /\ pc = "bip30" /\ block' = block /\ tipBest' = tipBest /\ blockundo' = blockundo
        /\ Parent[block] = tipBest
        /\ pc' = "bip30" \/ (pc' = "inputs" /\ i' = 1)
    BY <1>3 DEF CheckBIP30, Goto, RInv, ConnectInv, Connecting
  <2>3. At(1, 1)'
    BY <2>1, <2>2 DEF RInv, ConnectInv, At, Below
  <2>4. ASSUME pc' = "inputs" PROVE Reached(1, 1)'
    <3>1. \A k \in DOMAIN Vtx[block] : TipCoins(Vtx[block][k])' = Pruned
      BY <1>1, <2>2, <2>4 DEF IInv, ChecksPassed
    <3>2. \A k \in DOMAIN Vtx[block] : Vtx[block][k] \in Txs
      BY RInvFacts, SeqOfBlock
    <3>3. NothingOverwritten(CoinsOf[Parent[block]], block)
      BY <2>1, <2>2, <3>1, <3>2, RInvFacts DEF NothingOverwritten
    <3>4. \A l \in DOMAIN Vtx[block] : \A r \in DOMAIN Vin[Vtx[block][l]] : ~(l < 1 \/ (l = 1 /\ r < 1))
      BY RInvFacts, SeqOfBlock
    <3> QED BY <2>2, <2>3, <3>3, <3>4 DEF Reached, Below, FitBefore, UndoFits
  <2>5. ConnectInv' /\ DisconnectInv'
    BY <2>2, <2>3, <2>4, RInvFacts DEF ConnectInv, DisconnectInv, Disconnecting, Connecting, CheckBIP30
  <2> QED BY <1>1, <2>1, <2>5 DEF RInv
<1> QED BY <1>2, <1>3 DEF CheckBIP30

LEMMA CheckInputsRInv ==
    ASSUME RInv, CheckInputs
    PROVE  RInv' /\ \A x \in Txs : TipCoins(x)' = TipCoins(x)
<1>1. IInv'
  BY RInvFacts, CheckInputsKeeps
<1>2. ASSUME NEW S, Reject(S) PROVE RInv' /\ \A x \in Txs : TipCoins(x)' = TipCoins(x)
  BY <1>1, <1>2, RejectRInv DEF CheckInputs
<1>3. ASSUME NEW S, tip' = Filled(S), view' = ViewFetched(S),
             Goto(IF i = 1 THEN "outputs" ELSE "spend", i, 1)
      PROVE  RInv' /\ \A x \in Txs : TipCoins(x)' = TipCoins(x)
  <2>1. /\ ChainsInv' /\ DirtyInv'
        /\ \A x \in Txs : TipCoins(x)' = TipCoins(x) /\ ViewCoins(x)' = ViewCoins(x)
    BY <1>3, FetchRInv DEF CheckInputs
  <2>2. /\ pc = "inputs" /\ block' = block /\ tipBest' = tipBest /\ blockundo' = blockundo
        /\ Parent[block] = tipBest /\ i' = i /\ j' = 1
        /\ (pc' = "outputs" /\ i = 1) \/ pc' = "spend"
        /\ i \in DOMAIN Vtx[block]
    BY <1>3 DEF CheckInputs, Goto, RInv, ConnectInv, Connecting, IInv, Types, TypeOK
  <2>3. Reached(i, 1)'
    BY <2>1, <2>2 DEF RInv, ConnectInv, Reached, At, Below
  <2>4. i = 1 => Len(Vin[Tx]) = 0
    <3>1. i = 1 => Vin[Tx] = <<>>
      BY <2>2, RInvFacts, VinAssumption DEF Tx
    <3> QED BY <3>1
  <2>5. Tx' = Tx
    BY <2>2 DEF Tx
  <2>6. ConnectInv' /\ DisconnectInv'
    BY <2>2, <2>3, <2>4, <2>5, RInvFacts
       DEF ConnectInv, DisconnectInv, Disconnecting, Connecting, CheckInputs
  <2> QED BY <1>1, <2>1, <2>6 DEF RInv
<1> QED BY <1>2, <1>3 DEF CheckInputs

\* A step that changes the coins of one txid in the view
LEMMA ModifyRInv ==
    ASSUME RInv, NEW x \in Txs, NEW c \in CoinsType,
           ModifyCoins(x, c) \/ (ModifyNewCoins(x, c) /\ TipCoins(x) = Pruned),
           UNCHANGED <<db, dbBest, tipBest, undo>>
    PROVE  /\ ChainsInv' /\ DirtyInv'
           /\ \A y \in Txs : /\ TipCoins(y)' = TipCoins(y)
                             /\ ViewCoins(y)' = IF y = x THEN c ELSE ViewCoins(y)
<1>1. \A y \in Txs : /\ TipCoins(y)' = TipCoins(y)
                     /\ ViewCoins(y)' = IF y = x THEN c ELSE ViewCoins(y)
  BY RInvFacts, ModifySound, ModifyNewSound
<1>2. ChainsInv'
  BY <1>1, RInvFacts, ChainsKept
<1>3. DirtyInv'
  <2>1. CASE ModifyCoins(x, c)
    BY <2>1, RInvFacts, DirtyFetched, DirtyModified DEF ModifyCoins, DirtyInv
  <2>2. CASE ModifyNewCoins(x, c)
    BY <2>2, RInvFacts, DirtyModified DEF ModifyNewCoins, DirtyInv
  <2> QED BY <2>1, <2>2
<1> QED BY <1>1, <1>2, <1>3

\* The coins before an input is spent, and after.
\* Input m of transaction k can be spent, and what it changes
Available(c, b, k, m) == LET o == Vin[Vtx[b][k]][m] IN o[2] \in Left(c, b, k, m, o[1])
AfterInput(c, b, k, m, x) ==
    LET o == Vin[Vtx[b][k]][m]
        v == Midway(c, b, k, m, x)
    IN  /\ x = o[1] => Midway(c, b, k, m + 1, x) = Coin(v.height, v.outs \ {o[2]})
        /\ x # o[1] => Midway(c, b, k, m + 1, x) = v

LEMMA BeforeSpent ==
    ASSUME NEW c, NEW b, NEW k, NEW m, NEW x, NEW n \in Left(c, b, k, m, x)
    PROVE  /\ Midway(c, b, k, m, x).outs = Left(c, b, k, m, x)
           /\ Midway(c, b, k, m, x).height = HeightAt(c, b, k, x)
BY CoinParts DEF Midway

LEMMA InputSpent ==
    ASSUME NEW c, NEW b \in Blocks, NEW k \in DOMAIN Vtx[b], NEW m \in DOMAIN Vin[Vtx[b][k]],
           Available(c, b, k, m), NEW x \in Txs
    PROVE  AfterInput(c, b, k, m, x)
<1> DEFINE o == Vin[Vtx[b][k]][m]
<1>1. /\ x = o[1] => Left(c, b, k, m + 1, x) = Left(c, b, k, m, x) \ {o[2]}
      /\ x # o[1] => Left(c, b, k, m + 1, x) = Left(c, b, k, m, x)
  <2>1. ASSUME NEW z \in Nat, z = m + 1
        PROVE  /\ x = o[1] => Left(c, b, k, z, x) = Left(c, b, k, m, x) \ {o[2]}
               /\ x # o[1] => Left(c, b, k, z, x) = Left(c, b, k, m, x)
    <3>1. m \in Nat
      BY SeqOfBlock
    <3> QED BY <2>1, <3>1, MidwayInput
  <2>2. m + 1 \in Nat
    BY SeqOfBlock
  <2> QED BY <2>1, <2>2
<1>2. CASE x = o[1]
  <2> HIDE DEF o
  <2>1. o[2] \in Left(c, b, k, m, x)
    BY <1>2 DEF o, Available
  <2>2. /\ Midway(c, b, k, m, x).outs = Left(c, b, k, m, x)
        /\ Midway(c, b, k, m, x).height = HeightAt(c, b, k, x)
    BY <2>1, BeforeSpent
  <2>3. Midway(c, b, k, m + 1, x) = Coin(HeightAt(c, b, k, x), Left(c, b, k, m, x) \ {o[2]})
    BY <1>1, <1>2 DEF Midway
  <2> QED BY <1>2, <2>2, <2>3 DEF o, AfterInput
<1>3. CASE x # o[1]
  BY <1>1, <1>3 DEF Midway, AfterInput
<1> QED BY <1>2, <1>3

LEMMA SpendInputRInv ==
    ASSUME RInv, SpendInput
    PROVE  RInv' /\ \A x \in Txs : TipCoins(x)' = TipCoins(x)
<1> DEFINE o == Vin[Tx][j]
           c == ViewCoins(o[1])
           d == Coin(c.height, c.outs \ {o[2]})
<1>1. IInv'
  BY RInvFacts, SpendInputKeeps
<1>2. /\ pc = "spend" /\ block \in Blocks /\ i \in DOMAIN Vtx[block] /\ i \in Nat /\ j \in Nat
      /\ j \in DOMAIN Vin[Tx] /\ Parent[block] = tipBest /\ Reached(i, j)
      /\ IsAvailable(o)
      /\ blockundo \in [Outpoints -> Nat]
  <2>1. /\ pc = "spend" /\ block \in Blocks /\ i \in DOMAIN Vtx[block] /\ i \in Nat /\ j \in Nat
        /\ j \in DOMAIN Vin[Tx] /\ blockundo \in [Outpoints -> Nat]
    BY DEF RInv, IInv, Types, TypeOK, SpendInput, Connecting
  <2>2. Parent[block] = tipBest /\ Reached(i, j)
    BY <2>1 DEF RInv, ConnectInv, Connecting
  <2>3. IsAvailable(o)
    BY <2>1 DEF RInv, IInv, ChecksPassed, InputsLeft
  <2> QED BY <2>1, <2>2, <2>3
<1>3. Tx \in Txs /\ Tx = Vtx[block][i] /\ Vin[Tx] \in Seq(Txs \X Nat)
  BY <1>2, SeqOfBlock DEF Tx
<1>4. o[1] \in Txs /\ o[2] \in Nat /\ o \in Outpoints
  BY <1>2, <1>3, InputType
<1>5. c \in CoinsType /\ d \in CoinsType
  <2>1. c \in CoinsType
    BY <1>4, RInvFacts, CoinsSeen
  <2>2. c.height \in Nat /\ c.outs \ {o[2]} \in SUBSET Nat
    BY <2>1 DEF CoinsType
  <2> QED BY <2>1, <2>2, CoinType
<1>6. /\ ChainsInv' /\ DirtyInv'
      /\ \A y \in Txs : /\ TipCoins(y)' = TipCoins(y)
                        /\ ViewCoins(y)' = IF y = o[1] THEN d ELSE ViewCoins(y)
  BY <1>4, <1>5, ModifyRInv DEF SpendInput
<1>7. /\ block' = block /\ i' = i /\ tipBest' = tipBest
      /\ \/ pc' = "spend" /\ j' = j + 1
         \/ pc' = "outputs" /\ j = Len(Vin[Tx])
  <2>1. Len(Vin[Tx]) \in Nat /\ j <= Len(Vin[Tx])
    BY <1>2, <1>3
  <2> QED BY <1>2, <2>1 DEF SpendInput, Goto
<1>8. c = Midway(Below, block, i, j, o[1])
  BY <1>2, <1>4 DEF Reached, At
<1>9. o[2] \in Left(Below, block, i, j, o[1])
  BY <1>2, <1>8, CoinParts DEF IsAvailable, Midway
<1>10. /\ Fits(Below, block, i, j) /\ ~SpentBefore(block, i, j, o)
  BY <1>2, <1>3, <1>9, AvailableFits
<1>11. \A y \in Txs : ViewCoins(y)' = Midway(Below, block, i, j + 1, y)
  <2>1. \A x \in Txs : Midway(Below, block, i, j + 1, x) =
                    IF x = o[1] THEN d ELSE Midway(Below, block, i, j, x)
    <3> HIDE DEF o, c
    <3>1. o = Vin[Vtx[block][i]][j] /\ j \in DOMAIN Vin[Vtx[block][i]]
      BY <1>2, <1>3 DEF o
    <3>2. block \in Blocks /\ i \in DOMAIN Vtx[block]
      BY <1>2
    <3>3. Available(Below, block, i, j)
      BY <1>9, <3>1 DEF Available
    <3>4. \A x \in Txs : AfterInput(Below, block, i, j, x)
      BY <3>1, <3>2, <3>3, InputSpent
    <3> QED BY <1>8, <3>1, <3>4 DEF AfterInput
  <2> HIDE DEF d, o
  <2> QED BY <1>2, <1>6, <2>1 DEF Reached, At
<1>12. \A l \in DOMAIN Vtx[block] : \A r \in DOMAIN Vin[Vtx[block][l]] :
          (l < i \/ (l = i /\ r < j + 1)) <=> (l < i \/ (l = i /\ r < j)) \/ (l = i /\ r = j)
  <2>1. \A l \in DOMAIN Vtx[block] : l \in Nat /\ \A r \in DOMAIN Vin[Vtx[block][l]] : r \in Nat
    BY RInvFacts, SeqOfBlock
  <2>2. i \in Nat /\ j \in Nat
    BY <1>2
  <2>3. \A l, r \in Nat : (l < i \/ (l = i /\ r < j + 1)) <=> (l < i \/ (l = i /\ r < j)) \/ (l = i /\ r = j)
    BY <2>2
  <2> QED BY <2>1, <2>3
<1>13. FitBefore(Below, block, i, j + 1)
  BY <1>2, <1>10, <1>12 DEF FitBefore, Reached
<1>14. UndoFits(blockundo', block, i, j + 1)
  <2> SUFFICES ASSUME NEW l \in DOMAIN Vtx[block], NEW r \in DOMAIN Vin[Vtx[block][l]],
                      (l < i \/ (l = i /\ r < j)) \/ (l = i /\ r = j)
               PROVE  blockundo'[Vin[Vtx[block][l]][r]] = UndoAt(block, l, r)
    BY <1>12 DEF UndoFits
  <2>1. blockundo' = [blockundo EXCEPT ![o] = UndoHeight(c, o[2])]
    BY DEF SpendInput
  <2>2. CASE l = i /\ r = j
    BY <1>2, <1>3, <1>4, <1>8, <2>1, <2>2 DEF UndoAt, Below
  <2>3. CASE l < i \/ (l = i /\ r < j)
    <3>1. Vin[Vtx[block][l]][r] # o
      BY <1>10, <2>3 DEF SpentBefore
    <3>2. Vin[Vtx[block][l]][r] \in Outpoints
      BY RInvFacts, SeqOfBlock, InputType
    <3>3. blockundo[Vin[Vtx[block][l]][r]] = UndoAt(block, l, r)
      BY <1>2, <2>3 DEF Reached, UndoFits
    <3> HIDE DEF o
    <3> QED BY <1>2, <2>1, <3>1, <3>2, <3>3
  <2> QED BY <2>2, <2>3
<1>15. ASSUME NEW k, NEW m, k = i, m = j + 1 PROVE Reached(k, m)'
  BY <1>2, <1>7, <1>11, <1>13, <1>14, <1>15 DEF Reached, At, Below
<1>16. Tx' = Tx
  BY <1>7 DEF Tx
<1>17. ConnectInv'
  <2>1. CASE pc' = "spend" /\ j' = j + 1
    BY <1>2, <1>7, <1>15, <2>1 DEF ConnectInv, Connecting
  <2>2. CASE pc' = "outputs" /\ j = Len(Vin[Tx])
    BY <1>2, <1>7, <1>15, <1>16, <2>2 DEF ConnectInv, Connecting
  <2> QED BY <1>7, <2>1, <2>2
<1>18. DisconnectInv'
  BY <1>7, RInvFacts DEF DisconnectInv, Disconnecting, SpendInput
<1> QED BY <1>1, <1>6, <1>17, <1>18 DEF RInv

LEMMA AddOutputsRInv ==
    ASSUME RInv, AddOutputs
    PROVE  RInv' /\ \A x \in Txs : TipCoins(x)' = TipCoins(x)
<1>1. IInv'
  BY RInvFacts, AddOutputsKeeps
<1>2. /\ pc = "outputs" /\ block \in Blocks /\ i \in DOMAIN Vtx[block] /\ i \in Nat
      /\ Parent[block] = tipBest /\ Reached(i, Len(Vin[Tx]) + 1)
      /\ Parent[block] \in Blocks
  BY RInvFacts DEF RInv, IInv, Types, TypeOK, AddOutputs, ConnectInv, Connecting
<1>3. Tx \in Txs /\ Tx = Vtx[block][i] /\ FromTx(Tx, block) \in CoinsType
  BY <1>2, TxType DEF Tx
<1>4. TipCoins(Tx) = Pruned
  BY <1>2 DEF RInv, IInv, ChecksPassed, Tx
<1>5. /\ ChainsInv' /\ DirtyInv'
      /\ \A y \in Txs : /\ TipCoins(y)' = TipCoins(y)
                        /\ ViewCoins(y)' = IF y = Tx THEN FromTx(Tx, block) ELSE ViewCoins(y)
  <2>1. ModifyCoins(Tx, FromTx(Tx, block)) \/ (ModifyNewCoins(Tx, FromTx(Tx, block)) /\ TipCoins(Tx) = Pruned)
    BY <1>4 DEF AddOutputs
  <2> QED BY <1>3, <2>1, ModifyRInv DEF AddOutputs
<1>6. /\ block' = block /\ tipBest' = tipBest /\ blockundo' = blockundo /\ fClean' = fClean
      /\ \/ pc' = "inputs" /\ i' = i + 1
         \/ pc' = "connected" /\ i = Len(Vtx[block])
  <2>1. Len(Vtx[block]) \in Nat /\ i <= Len(Vtx[block])
    BY <1>2, SeqOfBlock
  <2> QED BY <1>2, <2>1 DEF AddOutputs, Goto, MoreTxs
<1>7. \A l \in DOMAIN Vtx[block] : \A r \in DOMAIN Vin[Vtx[block][l]] :
          (l < i + 1 \/ (l = i + 1 /\ r < 1)) <=> (l < i \/ (l = i /\ r < Len(Vin[Tx]) + 1))
  <2>1. \A l \in DOMAIN Vtx[block] :
            /\ l \in Nat /\ Len(Vin[Vtx[block][l]]) \in Nat
            /\ DOMAIN Vin[Vtx[block][l]] = 1..Len(Vin[Vtx[block][l]])
    BY RInvFacts, SeqOfBlock
  <2> QED BY <1>2, <1>3, <2>1
<1>8. FitBefore(Below, block, i + 1, 1) /\ UndoFits(blockundo, block, i + 1, 1)
  BY <1>2, <1>7 DEF Reached, FitBefore, UndoFits
<1>9. \A y \in Txs : ViewCoins(y)' = Midway(Below, block, i + 1, 1, y)
  <2>1. Canonical(Below)
    BY <1>2, CoinsOfCanonical DEF Below
  <2>2. \A x \in Txs :
           /\ x = Tx => Midway(Below, block, i + 1, 1, x) = FromTx(x, block)
           /\ x # Tx => Midway(Below, block, i + 1, 1, x) = Midway(Below, block, i, Len(Vin[Tx]) + 1, x)
    <3>1. \A x \in Txs : AfterOutputs(Below, block, i, x)
      BY <1>2, <1>8, <2>1, MidwayOutputs DEF Reached
    <3> QED BY <1>3, <3>1 DEF AfterOutputs
  <2> QED BY <1>2, <1>5, <2>2 DEF Reached, At
<1>10. ASSUME NEW k, k = i + 1 PROVE Reached(k, 1)'
  BY <1>2, <1>6, <1>8, <1>9, <1>10 DEF Reached, At, Below
<1>11. ConnectInv' /\ DisconnectInv'
  <2>1. CASE pc' = "inputs" /\ i' = i + 1
    BY <1>2, <1>6, <1>10, <2>1, RInvFacts DEF ConnectInv, Connecting, DisconnectInv, Disconnecting
  <2>2. CASE pc' = "connected" /\ i = Len(Vtx[block])
    BY <1>2, <1>6, <1>10, <2>2, RInvFacts DEF ConnectInv, Connecting, DisconnectInv, Disconnecting
  <2> QED BY <1>6, <2>1, <2>2
<1> QED BY <1>1, <1>5, <1>11 DEF RInv

-----------------------------------------------------------------------------
(* The ends of ConnectBlock *)

LEMMA UndoIsData == ASSUME NEW u \in [Outpoints -> Nat] PROVE u # NoUndo
<1>1. DOMAIN u = Outpoints /\ DOMAIN NoUndo = {}
  BY DEF NoUndo
<1> QED BY <1>1, OutpointsAssumption

\* Undo data is written once, and right.
LEMMA UndoWritten ==
    ASSUME RInv, pc = "connected",
           undo' = [undo EXCEPT ![block] = IF @ = NoUndo THEN blockundo ELSE @]
    PROVE  /\ \A b \in Blocks : undo[b] # NoUndo => undo'[b] = undo[b]
           /\ undo'[block] # NoUndo
           /\ \A b \in Blocks \ {Genesis} :
                 undo'[b] # NoUndo => UndoFits(undo'[b], b, Len(Vtx[b]) + 1, 1)
           /\ undo' \in [Blocks -> {NoUndo} \cup [Outpoints -> Nat]]
<1>1. /\ undo \in [Blocks -> {NoUndo} \cup [Outpoints -> Nat]]
      /\ blockundo \in [Outpoints -> Nat] /\ block \in Blocks
  BY RInvFacts DEF IInv, Types, Connecting
<1>2. blockundo # NoUndo
  BY <1>1, UndoIsData
<1>3. \A b \in Blocks : undo'[b] = IF b = block /\ undo[b] = NoUndo THEN blockundo ELSE undo[b]
  BY <1>1
<1>4. UndoFits(blockundo, block, Len(Vtx[block]) + 1, 1)
  BY DEF RInv, ConnectInv, Reached
<1>5. \A b \in Blocks \ {Genesis} : undo[b] # NoUndo => UndoFits(undo[b], b, Len(Vtx[b]) + 1, 1)
  BY RInvFacts DEF ChainsInv
<1>6. ASSUME NEW b \in Blocks \ {Genesis}, undo'[b] # NoUndo
      PROVE  UndoFits(undo'[b], b, Len(Vtx[b]) + 1, 1)
  <2>1. CASE b = block /\ undo[b] = NoUndo
    BY <1>3, <1>4, <2>1
  <2>2. CASE ~(b = block /\ undo[b] = NoUndo)
    <3>1. undo'[b] = undo[b]
      BY <1>3, <2>2
    <3> QED BY <1>5, <1>6, <3>1
  <2> QED BY <2>1, <2>2
<1>7. undo' \in [Blocks -> {NoUndo} \cup [Outpoints -> Nat]]
  BY <1>1
<1> QED BY <1>1, <1>2, <1>3, <1>6, <1>7

LEMMA ConnectedAcceptable ==
    ASSUME RInv, pc = "connected"
    PROVE  /\ Acceptable(CoinsOf[tipBest], block) /\ Parent[block] = tipBest
           /\ \A x \in Txs : /\ ViewCoins(x) = Effect(CoinsOf[tipBest], block)[x]
                             /\ ViewCoins(x) = CoinsOf[block][x]
<1>1. /\ Reached(Len(Vtx[block]) + 1, 1) /\ Parent[block] = tipBest
      /\ block \in Blocks \ {Genesis} /\ tipBest \in Blocks
  BY RInvFacts DEF RInv, ConnectInv, Connecting
<1>2. Acceptable(CoinsOf[tipBest], block)
  BY <1>1, AcceptableParts DEF Reached, Below
<1>3. \A x \in Txs : Midway(Below, block, Len(Vtx[block]) + 1, 1, x) = Effect(Below, block)[x]
  BY <1>1, CoinsOfCanonical, MidwayEnds DEF Below
<1> QED BY <1>1, <1>2, <1>3, CoinsOfBlock DEF Reached, At, Below

LEMMA EndConnectRInv ==
    ASSUME RInv, EndConnect
    PROVE  RInv'
<1>1. IInv' /\ pc = "connected"
  BY RInvFacts, EndConnectKeeps DEF EndConnect
<1>2. CASE /\ undo' = [undo EXCEPT ![block] = IF @ = NoUndo THEN blockundo ELSE @]
           /\ FlushView(block)
           /\ Goto("idle", 1, 1)
  <2>1. (\A x \in Txs : TipCoins(x)' = ViewCoins(x)) /\ DirtyInv'
    BY <1>2, RInvFacts, FlushViewCoins DEF EndConnect
  <2>2. /\ \A b \in Blocks : undo[b] # NoUndo => undo'[b] = undo[b]
        /\ undo'[block] # NoUndo
        /\ \A b \in Blocks \ {Genesis} :
              undo'[b] # NoUndo => UndoFits(undo'[b], b, Len(Vtx[b]) + 1, 1)
    BY <1>1, <1>2, UndoWritten
  <2>3. tipBest' = block /\ db' = db /\ dbBest' = dbBest /\ fClean' = fClean /\ pc' = "idle"
    BY <1>2 DEF FlushView, EndConnect, Goto
  <2>4. /\ Acceptable(CoinsOf[Parent[block]], block)
        /\ \A x \in Txs : ViewCoins(x) = CoinsOf[block][x]
        /\ Parent[block] = tipBest
    BY <1>1, ConnectedAcceptable
  <2>5. block \in Blocks \ {Genesis} /\ dbBest \in Blocks /\ tipBest \in Blocks
    BY <1>1, RInvFacts
  <2>6. Ancestors[block] = Ancestors[tipBest] \cup {block}
    BY <2>4, <2>5, AncestorsParent
  <2>7. ChainFits(tipBest)'
    <3> SUFFICES ASSUME NEW b \in Ancestors[block] \ {Genesis}
                 PROVE  Acceptable(CoinsOf[Parent[b]], b) /\ undo'[b] # NoUndo
      BY <2>3 DEF ChainFits
    <3>1. CASE b = block
      BY <2>2, <2>4, <3>1
    <3>2. CASE b # block
      <4>1. b \in Ancestors[tipBest] \ {Genesis} /\ b \in Blocks
        BY <2>5, <2>6, <3>2, AncestorsType
      <4>2. Acceptable(CoinsOf[Parent[b]], b) /\ undo[b] # NoUndo
        BY <4>1, RInvFacts DEF ChainsInv, ChainFits
      <4> QED BY <2>2, <4>1, <4>2
    <3> QED BY <3>1, <3>2
  <2>8. ChainFits(dbBest)'
    <3>1. \A b \in Ancestors[dbBest] \ {Genesis} : b \in Blocks
      BY <2>5, AncestorsType
    <3> QED BY <2>2, <2>3, <3>1, RInvFacts DEF ChainsInv, ChainFits
  <2>9. ChainsInv'
    BY <2>1, <2>2, <2>3, <2>4, <2>7, <2>8, RInvFacts DEF ChainsInv, DbMatchesBest
  <2> QED BY <1>1, <2>1, <2>3, <2>9, RInvFacts, IdleRInv
<1>3. CASE Reject({}) /\ UNCHANGED <<undo, tipBest>>
  BY <1>1, <1>3, RejectRInv DEF EndConnect
<1> QED BY <1>2, <1>3 DEF EndConnect

-----------------------------------------------------------------------------
(* DisconnectBlock *)

LEMMA BeginDisconnectRInv ==
    ASSUME RInv, BeginDisconnect
    PROVE  RInv' /\ \A x \in Txs : TipCoins(x)' = TipCoins(x)
<1>1. IInv'
  BY RInvFacts, BeginDisconnectKeeps
<1>2. /\ UNCHANGED <<db, dbBest, tip, tipBest, view, undo>>
      /\ pc = "idle" /\ pc' = "remove" /\ block' = tipBest /\ tipBest # Genesis
      /\ i' = Len(Vtx[tipBest]) /\ fClean'
  BY DEF BeginDisconnect, layers
<1>3. \A x \in Txs : TipCoins(x)' = TipCoins(x) /\ ViewCoins(x)' = ViewCoins(x)
  BY <1>2 DEF TipCoins, ViewCoins
<1>4. ChainsInv' /\ DirtyInv'
  BY <1>2, <1>3, RInvFacts, ChainsKept DEF DirtyInv
<1>5. tipBest \in Blocks \ {Genesis} /\ Parent[tipBest] \in Blocks
  BY <1>2, RInvFacts, ParentAssumption
<1>6. \A x \in Txs : ViewCoins(x)' = Midway(CoinsOf[Parent[tipBest]], tipBest, Len(Vtx[tipBest]) + 1, 1, x)
  <2>1. \A x \in Txs : ViewCoins(x)' = CoinsOf[tipBest][x]
    BY <1>2, <1>3, RInvFacts
  <2> QED BY <1>5, <2>1, CoinsOfCanonical, CoinsOfBlock, MidwayEnds
<1>7. ConnectInv' /\ DisconnectInv'
  BY <1>2, <1>6 DEF ConnectInv, DisconnectInv, Disconnecting, Connecting, At, Below
<1> QED BY <1>1, <1>3, <1>4, <1>7 DEF RInv

\* The block at hand was acceptable and its undo data is right.
LEMMA DisconnectFacts ==
    ASSUME RInv, pc \in Disconnecting
    PROVE  /\ block \in Blocks \ {Genesis} /\ Parent[block] \in Blocks /\ tipBest = block
           /\ Canonical(Below)
           /\ NothingOverwritten(Below, block)
           /\ FitBefore(Below, block, Len(Vtx[block]) + 1, 1)
           /\ UndoFits(undo[block], block, Len(Vtx[block]) + 1, 1)
<1>1. block \in Blocks \ {Genesis} /\ Parent[block] \in Blocks /\ tipBest = block
  BY RInvFacts DEF RInv, DisconnectInv, Disconnecting
<1>2. block \in Ancestors[tipBest] \ {Genesis}
  BY <1>1, AncestorsType
<1>3. Acceptable(Below, block) /\ undo[block] # NoUndo
  BY <1>2, RInvFacts DEF ChainsInv, ChainFits, Below
<1>4. UndoFits(undo[block], block, Len(Vtx[block]) + 1, 1)
  BY <1>1, <1>3, RInvFacts DEF ChainsInv
<1> QED BY <1>1, <1>3, <1>4, AcceptableParts, CoinsOfCanonical DEF Below

LEMMA RemoveOutputsRInv ==
    ASSUME RInv, RemoveOutputs
    PROVE  RInv' /\ \A x \in Txs : TipCoins(x)' = TipCoins(x)
<1>1. IInv'
  BY RInvFacts, RemoveOutputsKeeps
<1>2. /\ pc = "remove" /\ i \in DOMAIN Vtx[block] /\ i \in Nat /\ At(i + 1, 1) /\ block \in Blocks
  BY DEF RInv, IInv, Types, TypeOK, RemoveOutputs, DisconnectInv
<1>3. /\ block \in Blocks \ {Genesis} /\ Parent[block] \in Blocks /\ tipBest = block
      /\ Canonical(Below)
      /\ NothingOverwritten(Below, block)
      /\ FitBefore(Below, block, Len(Vtx[block]) + 1, 1)
  BY <1>2, DisconnectFacts DEF Disconnecting
<1>4. FitBefore(Below, block, i + 1, 1)
  <2>1. \A l \in DOMAIN Vtx[block] : l < Len(Vtx[block]) + 1
    BY <1>2, SeqOfBlock
  <2> QED BY <1>3, <2>1 DEF FitBefore
<1>5. Tx \in Txs /\ Tx = Vtx[block][i] /\ Vin[Tx] \in Seq(Txs \X Nat) /\ Len(Vin[Tx]) \in Nat
  BY <1>2, SeqOfBlock DEF Tx
<1>6. \A x \in Txs :
          /\ x = Tx => /\ Midway(Below, block, i, Len(Vin[Tx]) + 1, x) = Pruned
                       /\ Midway(Below, block, i + 1, 1, x) = FromTx(x, block)
          /\ x # Tx => Midway(Below, block, i + 1, 1, x) = Midway(Below, block, i, Len(Vin[Tx]) + 1, x)
  <2>1. \A x \in Txs : AfterOutputs(Below, block, i, x)
    BY <1>2, <1>3, <1>4, MidwayOutputs
  <2> QED BY <1>5, <2>1 DEF AfterOutputs
<1>7. /\ ChainsInv' /\ DirtyInv'
      /\ \A y \in Txs : /\ TipCoins(y)' = TipCoins(y)
                        /\ ViewCoins(y)' = IF y = Tx THEN Pruned ELSE ViewCoins(y)
  BY <1>5, PrunedType, ModifyRInv DEF RemoveOutputs
<1>8. fClean'
  BY <1>2, <1>5, <1>6, RInvFacts DEF RemoveOutputs, At
<1>9. \A y \in Txs : ViewCoins(y)' = Midway(Below, block, i, Len(Vin[Tx]) + 1, y)
  BY <1>2, <1>6, <1>7 DEF At
<1>10. /\ block' = block /\ tipBest' = tipBest
       /\ \/ pc' = "restore" /\ i' = i /\ j' = Len(Vin[Tx])
          \/ pc' = "disconnected" /\ i = 1
  <2>1. i > 0
    BY <1>2, SeqOfBlock
  <2> QED BY <1>2, <2>1 DEF RemoveOutputs, Goto
<1>11. i = 1 => Len(Vin[Tx]) = 0
  <2>1. i = 1 => Vin[Tx] = <<>>
    BY <1>2, VinAssumption DEF Tx
  <2> QED BY <2>1
<1>12. ConnectInv' /\ DisconnectInv'
  <2>1. CASE pc' = "restore" /\ i' = i /\ j' = Len(Vin[Tx])
    BY <1>3, <1>8, <1>9, <1>10, <2>1 DEF ConnectInv, DisconnectInv, Disconnecting, Connecting, At, Below
  <2>2. CASE pc' = "disconnected" /\ i = 1
    <3>1. \A y \in Txs : ViewCoins(y)' = Midway(Below, block, 1, 1, y)
      BY <1>9, <1>11, <2>2
    <3> QED BY <1>3, <1>8, <1>10, <2>2, <3>1 DEF ConnectInv, DisconnectInv, Disconnecting, Connecting, At, Below
  <2> QED BY <1>10, <2>1, <2>2
<1> QED BY <1>1, <1>7, <1>12 DEF RInv

\* ApplyTxInUndo gives back the coins v that spending output n of them took.
Restores(v, n) ==
    LET c == Coin(v.height, v.outs \ {n})
        u == UndoHeight(v, n)
    IN  /\ u # 0 <=> c = Pruned
        /\ u = 0 => n \notin c.outs
        /\ u # 0 => Coin(u, {n}) = v
        /\ u = 0 => Coin(c.height, c.outs \cup {n}) = v

LEMMA UndoRestores ==
    ASSUME NEW v, v.height \in Nat, v.height > 0, v = Coin(v.height, v.outs), NEW n \in v.outs
    PROVE  Restores(v, n)
<1> DEFINE S == v.outs
           R == S \ {n}
           c == Coin(v.height, R)
<1>1. CASE R = {}
  <2>1. S = {n} /\ c = Pruned /\ UndoHeight(v, n) = v.height
    BY <1>1, CoinParts DEF UndoHeight
  <2> QED BY <2>1 DEF Restores
<1>2. CASE R # {}
  <2>1. R \cup {n} = S /\ n \notin R /\ UndoHeight(v, n) = 0
    BY <1>2 DEF UndoHeight
  <2> HIDE DEF S, R
  <2>2. c.outs = R /\ c.height = v.height /\ c # Pruned
    BY <1>2, CoinParts
  <2> HIDE DEF c
  <2>3. Coin(c.height, c.outs \cup {n}) = v
    BY <2>1, <2>2 DEF S
  <2> QED BY <2>1, <2>2, <2>3 DEF Restores, c, R, S
<1> QED BY <1>1, <1>2

LEMMA ApplyTxInUndoRInv ==
    ASSUME RInv, ApplyTxInUndo
    PROVE  RInv' /\ \A x \in Txs : TipCoins(x)' = TipCoins(x)
<1> DEFINE o == Vin[Tx][j]
           c == ViewCoins(o[1])
           h == undo[block][o]
           new == IF h # 0 THEN Coin(h, {o[2]}) ELSE Coin(c.height, c.outs \cup {o[2]})
           v == Midway(Below, block, i, j, o[1])
<1>1. IInv'
  BY RInvFacts, ApplyTxInUndoKeeps
<1>2. /\ pc = "restore" /\ i \in DOMAIN Vtx[block] /\ i \in Nat /\ i > 1 /\ At(i, j + 1) /\ block \in Blocks
      /\ j \in DOMAIN Vin[Tx] /\ j \in Nat /\ undo[block] \in [Outpoints -> Nat]
  BY DEF RInv, IInv, Types, TypeOK, ApplyTxInUndo, DisconnectInv
<1>3. /\ block \in Blocks \ {Genesis} /\ Parent[block] \in Blocks /\ tipBest = block
      /\ Canonical(Below)
      /\ NothingOverwritten(Below, block)
      /\ FitBefore(Below, block, Len(Vtx[block]) + 1, 1)
      /\ UndoFits(undo[block], block, Len(Vtx[block]) + 1, 1)
  BY <1>2, DisconnectFacts DEF Disconnecting
<1>4. /\ Tx \in Txs /\ Tx = Vtx[block][i] /\ Vin[Tx] \in Seq(Txs \X Nat) /\ Len(Vin[Tx]) \in Nat
      /\ j > 0 /\ j <= Len(Vin[Tx]) /\ i < Len(Vtx[block]) + 1
      /\ o[1] \in Txs /\ o[2] \in Nat /\ o \in Outpoints
  <2>1. Tx \in Txs /\ Tx = Vtx[block][i] /\ Vin[Tx] \in Seq(Txs \X Nat) /\ Len(Vin[Tx]) \in Nat
    BY <1>2, SeqOfBlock DEF Tx
  <2>2. i < Len(Vtx[block]) + 1
    BY <1>2, SeqOfBlock
  <2>3. j > 0 /\ j <= Len(Vin[Tx])
    BY <1>2, <2>1
  <2> QED BY <1>2, <2>1, <2>2, <2>3, InputType
<1>5. Fits(Below, block, i, j) /\ h = UndoAt(block, i, j)
  BY <1>2, <1>3, <1>4 DEF FitBefore, UndoFits
<1>6. o[2] \in Left(Below, block, i, j, o[1]) /\ Available(Below, block, i, j)
  <2>1. o = Vin[Vtx[block][i]][j] /\ j \in DOMAIN Vin[Vtx[block][i]]
    BY <1>2, <1>4
  <2>2. o[2] \in Left(Below, block, i, j, o[1])
    BY <1>2, <1>3, <1>5, <2>1, FitsAvailable
  <2> QED BY <2>1, <2>2 DEF Available
<1>7. \A x \in Txs : AfterInput(Below, block, i, j, x)
  BY <1>2, <1>4, <1>6, InputSpent
<1>8. /\ v.outs = Left(Below, block, i, j, o[1]) /\ v.height = HeightAt(Below, block, i, o[1])
      /\ v = Coin(v.height, v.outs) /\ o[2] \in v.outs
  <2>1. v.outs = Left(Below, block, i, j, o[1]) /\ v.height = HeightAt(Below, block, i, o[1])
    BY <1>6, BeforeSpent
  <2> QED BY <1>6, <2>1 DEF Midway
<1>9. /\ c = Coin(v.height, v.outs \ {o[2]})
      /\ \A x \in Txs : x # o[1] => ViewCoins(x) = Midway(Below, block, i, j, x)
  BY <1>2, <1>4, <1>7 DEF AfterInput, At
<1>10. h = UndoHeight(v, o[2])
  BY <1>4, <1>5 DEF UndoAt, Below
<1>11. v.height \in Nat /\ v.height > 0
  <2>1. CASE AddedBefore(block, i, o[1])
    <3>1. Height[block] \in Nat /\ Height[block] > 0
      BY <1>3, HeightAssumption
    <3> QED BY <1>8, <2>1, <3>1 DEF HeightAt
  <2>2. CASE ~AddedBefore(block, i, o[1])
    <3>1. Below[o[1]].outs # {}
      BY <1>6, <2>2 DEF Left, Made
    <3>2. Below[o[1]].height \in Nat /\ Below[o[1]].height > 0
      <4>1. /\ Below[o[1]] \in CoinsType
            /\ Below[o[1]] = Pruned \/ Below[o[1]].height > 0
        BY <1>3, <1>4 DEF Canonical
      <4>2. Below[o[1]] # Pruned
        BY <3>1 DEF Pruned
      <4> QED BY <4>1, <4>2 DEF CoinsType
    <3> QED BY <1>8, <2>2, <3>2 DEF HeightAt
  <2> QED BY <2>1, <2>2
<1>12. /\ h # 0 <=> c = Pruned
       /\ h = 0 => o[2] \notin c.outs
       /\ new = v
  <2> HIDE DEF v, c, h, o
  <2>1. Restores(v, o[2])
    BY <1>8, <1>11, UndoRestores
  <2> QED BY <1>9, <1>10, <2>1 DEF Restores
<1>13. fClean'
  BY <1>12, RInvFacts DEF ApplyTxInUndo
<1>14. new \in CoinsType
  <2>1. c \in CoinsType /\ h \in Nat
    BY <1>2, <1>4, RInvFacts, CoinsSeen
  <2>2. {o[2]} \in SUBSET Nat /\ c.outs \cup {o[2]} \in SUBSET Nat /\ c.height \in Nat
    BY <1>4, <2>1 DEF CoinsType
  <2> QED BY <2>1, <2>2, CoinType
<1>15. /\ ChainsInv' /\ DirtyInv'
       /\ \A y \in Txs : /\ TipCoins(y)' = TipCoins(y)
                         /\ ViewCoins(y)' = IF y = o[1] THEN new ELSE ViewCoins(y)
  BY <1>4, <1>14, ModifyRInv DEF ApplyTxInUndo
<1>16. \A y \in Txs : ViewCoins(y)' = Midway(Below, block, i, j, y)
  <2> HIDE DEF new
  <2> QED BY <1>9, <1>12, <1>15
<1>17. /\ block' = block /\ tipBest' = tipBest
       /\ \/ pc' = "restore" /\ i' = i /\ j' + 1 = j
          \/ pc' = "remove" /\ i' + 1 = i /\ j = 1
  <2>1. CASE j > 1
    BY <1>2, <2>1 DEF ApplyTxInUndo, Goto
  <2>2. CASE ~(j > 1)
    <3>1. j = 1
      BY <1>2, <1>4, <2>2
    <3>2. pc' = "remove" /\ i' = i - 1 /\ block' = block /\ tipBest' = tipBest
      BY <2>2 DEF ApplyTxInUndo, Goto
    <3> QED BY <1>2, <3>1, <3>2
  <2> QED BY <2>1, <2>2
<1>18. ConnectInv' /\ DisconnectInv'
  BY <1>3, <1>13, <1>16, <1>17 DEF ConnectInv, DisconnectInv, Disconnecting, Connecting, At, Below
<1> QED BY <1>1, <1>15, <1>18 DEF RInv

LEMMA EndDisconnectRInv ==
    ASSUME RInv, EndDisconnect
    PROVE  RInv' /\ tipBest' = Parent[block] /\ tipBest = block /\ block # Genesis
<1>1. IInv'
  BY RInvFacts, EndDisconnectKeeps
<1>2. /\ pc = "disconnected" /\ At(1, 1)
      /\ FlushView(Parent[block]) /\ pc' = "idle" /\ UNCHANGED <<db, dbBest, undo, fClean>>
  BY RInvFacts DEF EndDisconnect, Goto, RInv, DisconnectInv
<1>3. /\ block \in Blocks \ {Genesis} /\ Parent[block] \in Blocks /\ tipBest = block
      /\ Canonical(Below)
  BY <1>2, DisconnectFacts DEF Disconnecting
<1>4. (\A x \in Txs : TipCoins(x)' = ViewCoins(x)) /\ DirtyInv' /\ tipBest' = Parent[block]
  BY <1>2, RInvFacts, FlushViewCoins DEF FlushView
<1>5. \A x \in Txs : TipCoins(x)' = CoinsOf[Parent[block]][x]
  BY <1>2, <1>3, <1>4, MidwayEnds DEF At, Below
<1>6. ChainFits(tipBest)'
  <2>1. Ancestors[Parent[block]] \subseteq Ancestors[tipBest]
    BY <1>3, AncestorsParent
  <2> QED BY <1>2, <1>4, <2>1, RInvFacts DEF ChainsInv, ChainFits
<1>7. ChainsInv'
  BY <1>2, <1>4, <1>5, <1>6, RInvFacts DEF ChainsInv, DbMatchesBest, ChainFits
<1> QED BY <1>1, <1>2, <1>3, <1>4, <1>7, RInvFacts, IdleRInv

-----------------------------------------------------------------------------
(* The refinement *)

LEMMA SameReference ==
    /\ \A c, b : Utxo!Acceptable(c, b) <=> Acceptable(c, b)
    /\ \A c, b : Utxo!Effect(c, b) = Effect(c, b)
    /\ Utxo!CoinsOf = CoinsOf
<1>1. \A h, S : Utxo!Coin(h, S) = Coin(h, S)
  BY DEF Utxo!Coin, Coin, Utxo!Pruned, Pruned
<1>2. \A b : Utxo!TxsOf(b) = TxsOf(b) /\ Utxo!SpentIn(b) = SpentIn(b)
  BY DEF Utxo!TxsOf, TxsOf, Utxo!SpentIn, SpentIn, Utxo!Items, Items
<1>3. ASSUME NEW c, NEW b PROVE Utxo!Effect(c, b) = Effect(c, b)
  BY <1>1, <1>2 DEF Utxo!Effect, Effect
<1>4. ASSUME NEW c, NEW b PROVE Utxo!Acceptable(c, b) <=> Acceptable(c, b)
  BY <1>1, <1>2 DEF Utxo!Acceptable, Acceptable, Utxo!Pruned, Pruned
<1>5. Utxo!CoinsOf = CoinsOf
  BY <1>3, Zenon DEF Utxo!CoinsOf, CoinsOf, Utxo!Pruned, Pruned
<1> QED BY <1>3, <1>4, <1>5

LEMMA CoinsOfIsFunction ==
    ASSUME NEW b \in Blocks
    PROVE  CoinsOf[b] = [x \in Txs |-> CoinsOf[b][x]]
<1>1. CASE b = Genesis
  BY <1>1, CoinsOfBlock DEF NoCoins
<1>2. CASE b # Genesis
  BY <1>2, CoinsOfBlock DEF Effect
<1> QED BY <1>1, <1>2

LEMMA StepStutters ==
    ASSUME \A x \in Txs : TipCoins(x)' = TipCoins(x), UNCHANGED <<db, dbBest, tipBest>>
    PROVE  UNCHANGED Utxo!vars
BY DEF Utxo!vars

\* What pcoinsTip shows is the unspent outputs of its chain.
LEMMA TipShows ==
    ASSUME RInv
    PROVE  /\ [x \in Txs |-> TipCoins(x)] = CoinsOf[tipBest]
           /\ db = CoinsOf[dbBest]
<1>1. tipBest \in Blocks /\ dbBest \in Blocks /\ db \in [Txs -> CoinsType]
  BY RInvFacts DEF TypeOK
<1>2. \A x \in Txs : TipCoins(x) = CoinsOf[tipBest][x] /\ db[x] = CoinsOf[dbBest][x]
  BY RInvFacts DEF ChainsInv, DbMatchesBest
<1>3. [x \in Txs |-> TipCoins(x)] = [x \in Txs |-> CoinsOf[tipBest][x]]
  BY <1>2
<1>4. db = [x \in Txs |-> CoinsOf[dbBest][x]]
  BY <1>1, <1>2
<1> QED BY <1>1, <1>3, <1>4, CoinsOfIsFunction

LEMMA TipShowsNext ==
    ASSUME RInv'
    PROVE  [x \in Txs |-> TipCoins(x)]' = CoinsOf[tipBest']
<1>1. tipBest' \in Blocks /\ \A x \in Txs : TipCoins(x)' = CoinsOf[tipBest'][x]
  BY DEF RInv, IInv, Types, TypeOK, ChainsInv
<1> QED BY <1>1, CoinsOfIsFunction

Implements == [Utxo!Next]_(Utxo!vars)

LEMMA EndConnectImplements ==
    ASSUME RInv, RInv', EndConnect
    PROVE  Implements
<1>1. CASE FlushView(block)
  <2>1. /\ pc = "connected" /\ tipBest' = block /\ UNCHANGED <<db, dbBest>>
    BY <1>1 DEF EndConnect, FlushView
  <2>2. /\ Acceptable(CoinsOf[tipBest], block) /\ Parent[block] = tipBest
        /\ block \in Blocks \ {Genesis}
    BY <2>1, RInvFacts, ConnectedAcceptable
  <2>3. CoinsOf[block] = Effect(CoinsOf[tipBest], block)
    BY <2>2, CoinsOfBlock
  <2>4. [x \in Txs |-> TipCoins(x)] = CoinsOf[tipBest]
    BY TipShows
  <2>5. [x \in Txs |-> TipCoins(x)]' = CoinsOf[block]
    <3>1. [x \in Txs |-> TipCoins(x)]' = CoinsOf[tipBest']
      BY TipShowsNext
    <3> QED BY <2>1, <3>1
  <2>6. Utxo!Connect(block)
    BY <2>1, <2>2, <2>3, <2>4, <2>5, SameReference DEF Utxo!Connect
  <2> QED BY <2>2, <2>6 DEF Utxo!Next, Implements
<1>2. CASE Reject({}) /\ UNCHANGED <<undo, tipBest>>
  <2>1. \A x \in Txs : TipCoins(x)' = TipCoins(x)
    BY <1>2, RInvFacts, TipFetchSound DEF Reject, Filled, EndConnect
  <2> QED BY <1>2, <2>1, StepStutters DEF EndConnect, Implements
<1> QED BY <1>1, <1>2 DEF EndConnect

LEMMA EndDisconnectImplements ==
    ASSUME RInv, RInv', EndDisconnect
    PROVE  Implements
<1>1. tipBest' = Parent[tipBest] /\ tipBest # Genesis /\ UNCHANGED <<db, dbBest>>
  BY EndDisconnectRInv DEF EndDisconnect
<1>2. [x \in Txs |-> TipCoins(x)]' = CoinsOf[tipBest']
  BY TipShowsNext
<1>3. Utxo!Disconnect
  BY <1>1, <1>2, SameReference DEF Utxo!Disconnect
<1> QED BY <1>3 DEF Utxo!Next, Implements

\* Reads, evictions, flushes and restarts
LEMMA ReadRInv ==
    ASSUME RInv, NEW x \in Txs, Read(x) \/ Uncache(x)
    PROVE  RInv' /\ Implements
<1>1. IInv'
  BY RInvFacts, OutsideKeeps
<1>2. UNCHANGED <<db, dbBest, tipBest, view, undo, fClean>> /\ pc = "idle" /\ pc' = "idle"
  BY DEF Read, Uncache, position
<1>3. \A y \in Txs : TipCoins(y)' = TipCoins(y)
  <2>1. CASE Read(x)
    BY <2>1, RInvFacts, TipFetchSound DEF Read
  <2>2. CASE Uncache(x)
    <3>1. tip' = [tip EXCEPT ![x] = Absent] /\ tip \in [Txs -> Entry] /\ tip[x].cached /\ ~tip[x].dirty
      BY <2>2, RInvFacts DEF Uncache, Unmodified, TypeOK
    <3>2. tip[x].coins = db[x]
      BY <3>1, RInvFacts DEF LayersSound, EntrySound
    <3> QED BY <1>2, <3>1, <3>2 DEF TipCoins, Absent
  <2> QED BY <2>1, <2>2
<1>4. DirtyInv'
  <2>1. CASE Read(x)
    BY <1>2, <2>1, RInvFacts, DirtyFetched DEF Read, DirtyInv
  <2>2. CASE Uncache(x)
    <3>1. CachedIfDirty(Absent)
      BY DEF CachedIfDirty, Absent
    <3> QED BY <1>2, <2>2, <3>1, RInvFacts DEF Uncache, DirtyInv, TypeOK
  <2> QED BY <2>1, <2>2
<1>5. ChainsInv'
  BY <1>2, <1>3, RInvFacts, ChainsKept
<1> QED BY <1>1, <1>2, <1>3, <1>4, <1>5, RInvFacts, IdleRInv, StepStutters DEF Implements

LEMMA FlushTipRInv ==
    ASSUME RInv, FlushTip
    PROVE  RInv' /\ Implements
<1>1. IInv'
  BY RInvFacts, OutsideKeeps
<1>2. /\ UNCHANGED <<tipBest, view, undo, fClean>> /\ pc' = "idle" /\ dbBest' = tipBest
      /\ tip' = Empty /\ db' = [x \in Txs |-> IF tip[x].dirty THEN tip[x].coins ELSE db[x]]
  BY DEF FlushTip, position
<1>3. ASSUME NEW x \in Txs PROVE db'[x] = TipCoins(x) /\ TipCoins(x)' = TipCoins(x)
  <2>1. CachedIfDirty(tip[x]) /\ EntrySound(tip[x], db[x])
    BY RInvFacts DEF DirtyInv, LayersSound
  <2>2. db'[x] = TipCoins(x)
    BY <1>2, <2>1 DEF CachedIfDirty, EntrySound, TipCoins
  <2>3. TipCoins(x)' = db'[x]
    BY <1>2, EmptyType DEF TipCoins, Absent
  <2> QED BY <2>2, <2>3
<1>4. DirtyInv'
  BY <1>2, DirtyEmpty, RInvFacts DEF DirtyInv
<1>5. ChainsInv'
  BY <1>2, <1>3, RInvFacts DEF ChainsInv, DbMatchesBest, ChainFits
<1>6. db' = [x \in Txs |-> TipCoins(x)] /\ [x \in Txs |-> TipCoins(x)]' = [x \in Txs |-> TipCoins(x)]
  BY <1>2, <1>3
<1>7. Utxo!Save
  BY <1>2, <1>6 DEF Utxo!Save
<1> QED BY <1>1, <1>2, <1>4, <1>5, <1>7, RInvFacts, IdleRInv DEF Utxo!Next, Implements

LEMMA RestartRInv ==
    ASSUME RInv, Restart
    PROVE  RInv' /\ Implements
<1>1. IInv'
  BY RInvFacts, OutsideKeeps
<1>2. /\ UNCHANGED <<db, dbBest>> /\ tip' = Empty /\ view' = Empty /\ tipBest' = dbBest
      /\ pc' = "idle" /\ fClean'
  BY DEF Restart
<1>3. \A x \in Txs : TipCoins(x)' = db[x]
  BY <1>2, EmptyType DEF TipCoins, Absent
<1>4. DirtyInv'
  BY <1>2, DirtyEmpty DEF DirtyInv
<1>5. \A b \in Blocks : undo'[b] # NoUndo => undo'[b] = undo[b]
  BY DEF Restart
<1>6. \A b \in Ancestors[dbBest] : undo'[b] = undo[b]
  <2>1. \A b \in Ancestors[dbBest] : b \in Blocks
    BY RInvFacts, AncestorsType
  <2> QED BY <2>1 DEF Restart
<1>7. ChainsInv'
  <2>1. ChainFits(dbBest)'
    BY <1>2, <1>6, RInvFacts DEF ChainsInv, ChainFits
  <2>2. ChainFits(tipBest)'
    BY <1>2, <2>1 DEF ChainFits
  <2> QED BY <1>2, <1>3, <1>5, <2>1, <2>2, RInvFacts DEF ChainsInv, DbMatchesBest
<1>8. Utxo!Restart
  <2>1. db \in [Txs -> CoinsType]
    BY RInvFacts DEF TypeOK
  <2>2. [x \in Txs |-> TipCoins(x)]' = db
    BY <1>3, <2>1
  <2> QED BY <1>2, <2>2 DEF Utxo!Restart
<1> QED BY <1>1, <1>2, <1>4, <1>7, <1>8, IdleRInv DEF Utxo!Next, Implements

\* A write of an index fails.
LEMMA IndexWriteFailsRInv ==
    ASSUME RInv, IndexWriteFails
    PROVE  RInv' /\ Implements
<1>1. /\ pc = "connected" /\ Reject({}) /\ UNCHANGED <<db, dbBest, tipBest, fClean, aborted>>
      /\ undo' = [undo EXCEPT ![block] = IF @ = NoUndo THEN blockundo ELSE @]
  BY DEF IndexWriteFails
<1>2. /\ \A b \in Blocks : undo[b] # NoUndo => undo'[b] = undo[b]
      /\ \A b \in Blocks \ {Genesis} :
            undo'[b] # NoUndo => UndoFits(undo'[b], b, Len(Vtx[b]) + 1, 1)
      /\ undo' \in [Blocks -> {NoUndo} \cup [Outpoints -> Nat]]
  BY <1>1, UndoWritten
<1>3. /\ tip' \in [Txs -> Entry]
      /\ \A x \in Txs : TipCoins(x)' = TipCoins(x) /\ EntrySound(tip'[x], db'[x])
  BY <1>1, RInvFacts, TipFetchSound DEF Reject, Filled
<1>4. view' \in [Txs -> Entry] /\ LayersSound'
  BY <1>1, <1>3, EmptyView DEF Reject
<1>5. TypeOK'
  BY <1>1, <1>3, <1>4, RInvFacts DEF TypeOK, Reject, Goto, PC
<1>6. IInv'
  BY <1>1, <1>2, <1>4, <1>5, IdleKeeps DEF Reject, Goto
<1>7. DirtyInv'
  BY <1>1, RInvFacts, DirtyFetched, DirtyEmpty DEF Reject, DirtyInv
<1>8. ASSUME NEW b \in Blocks, ChainFits(b) PROVE ChainFits(b)'
  <2>1. \A a \in Ancestors[b] : a \in Blocks
    BY AncestorsType
  <2> QED BY <1>2, <1>8, <2>1 DEF ChainFits
<1>9. ChainFits(tipBest)' /\ ChainFits(dbBest)'
  <2>1. tipBest \in Blocks /\ dbBest \in Blocks /\ ChainFits(tipBest) /\ ChainFits(dbBest)
    BY RInvFacts DEF ChainsInv
  <2> QED BY <1>1, <1>8, <2>1 DEF ChainFits
<1>10. ChainsInv'
  BY <1>1, <1>2, <1>3, <1>9, RInvFacts DEF ChainsInv, DbMatchesBest
<1> QED BY <1>1, <1>3, <1>6, <1>7, <1>10, RInvFacts, IdleRInv, StepStutters DEF Reject, Goto, Implements

LEMMA IndexEraseFailsRInv ==
    ASSUME RInv, IndexEraseFails
    PROVE  RInv' /\ Implements
<1>1. /\ pc' = "idle" /\ i' = 1 /\ j' = 1 /\ view' = Empty
      /\ UNCHANGED <<db, dbBest, tip, tipBest, undo, fClean, aborted, block>>
  BY DEF IndexEraseFails, Goto
<1>2. \A x \in Txs : TipCoins(x)' = TipCoins(x)
  BY <1>1 DEF TipCoins
<1>3. view' \in [Txs -> Entry] /\ LayersSound'
  BY <1>1, RInvFacts, EmptyView DEF TypeOK, LayersSound
<1>4. TypeOK'
  BY <1>1, <1>3, RInvFacts DEF TypeOK, PC
<1>5. IInv'
  BY <1>1, <1>3, <1>4, RInvFacts, IdleKeeps DEF IInv, Types
<1>6. DirtyInv' /\ ChainsInv'
  BY <1>1, <1>2, DirtyEmpty, RInvFacts, ChainsKept DEF DirtyInv
<1> QED BY <1>1, <1>2, <1>5, <1>6, RInvFacts, IdleRInv, StepStutters DEF Implements

-----------------------------------------------------------------------------
(* All steps *)

LEMMA InitRInv == Init => RInv /\ Utxo!Init
<1> SUFFICES ASSUME Init PROVE RInv /\ Utxo!Init
  OBVIOUS
<1>1. IInv
  BY InitIInv
<1>2. /\ db = NoCoins /\ dbBest = Genesis /\ tip = Empty /\ tipBest = Genesis /\ view = Empty
      /\ pc = "idle" /\ fClean /\ undo = [b \in Blocks |-> NoUndo]
  BY DEF Init, NoCoins
<1>3. DirtyInv
  BY <1>2, DirtyEmpty DEF DirtyInv
<1>4. \A x \in Txs : TipCoins(x) = Pruned /\ db[x] = Pruned
  BY <1>2, EmptyType DEF TipCoins, Absent, NoCoins
<1>5. ChainsInv
  <2>1. Ancestors[Genesis] \ {Genesis} = {}
    BY AncestorsGenesis
  <2> QED BY <1>2, <1>4, <2>1, CoinsOfBlock DEF ChainsInv, DbMatchesBest, ChainFits, NoCoins
<1>6. RInv
  BY <1>1, <1>2, <1>3, <1>5 DEF RInv, ConnectInv, DisconnectInv, Connecting, Disconnecting
<1>7. Utxo!Init
  BY <1>2, <1>6, TipShows, CoinsOfBlock, SameReference DEF Utxo!Init
<1> QED BY <1>6, <1>7

\* A step of the coins, with the indexes or without
CoinsStep == Next \/ IndexWriteFails \/ IndexEraseFails

LEMMA IndexedIsCoinsStep == [IndexedNext]_<<vars, indexes>> => [CoinsStep]_vars
BY DEF IndexedNext, CoinsStep, Next, OtherStep, IndexedRestart, IndexedEndConnect, IndexedEndDisconnect

LEMMA NextRInv == RInv /\ [CoinsStep]_vars => RInv' /\ Implements
<1> SUFFICES ASSUME RInv, [CoinsStep]_vars PROVE RInv' /\ Implements
  OBVIOUS
<1>1. ASSUME NEW b \in Blocks, BeginConnect(b) PROVE RInv' /\ Implements
  BY <1>1, BeginConnectRInv, StepStutters DEF BeginConnect, layers, Implements
<1>2. CASE CheckBIP30 \/ CheckInputs
  BY <1>2, CheckBIP30RInv, CheckInputsRInv, StepStutters DEF CheckBIP30, CheckInputs, Implements
<1>3. CASE SpendInput \/ AddOutputs
  BY <1>3, SpendInputRInv, AddOutputsRInv, StepStutters DEF SpendInput, AddOutputs, Implements
<1>4. CASE EndConnect
  BY <1>4, EndConnectRInv, EndConnectImplements
<1>5. CASE BeginDisconnect
  BY <1>5, BeginDisconnectRInv, StepStutters DEF BeginDisconnect, layers, Implements
<1>6. CASE RemoveOutputs \/ ApplyTxInUndo
  BY <1>6, RemoveOutputsRInv, ApplyTxInUndoRInv, StepStutters
     DEF RemoveOutputs, ApplyTxInUndo, Implements
<1>7. CASE EndDisconnect
  BY <1>7, EndDisconnectRInv, EndDisconnectImplements
<1>8. ASSUME NEW x \in Txs, Read(x) \/ Uncache(x) PROVE RInv' /\ Implements
  BY <1>8, ReadRInv
<1>9. CASE FlushTip \/ Restart
  BY <1>9, FlushTipRInv, RestartRInv
<1>10. CASE IndexWriteFails \/ IndexEraseFails
  BY <1>10, IndexWriteFailsRInv, IndexEraseFailsRInv
<1>11. CASE UNCHANGED vars
  <2>1. UNCHANGED <<db, dbBest, tip, tipBest, view, pc, block, i, j, blockundo, undo, fClean, aborted>>
    BY <1>11 DEF vars, layers, position
  <2>2. \A x \in Txs : TipCoins(x)' = TipCoins(x) /\ ViewCoins(x)' = ViewCoins(x)
    BY <2>1 DEF TipCoins, ViewCoins
  <2>3. IInv'
    BY <1>11, RInvFacts, NextKeeps
  <2>4. ChainsInv' /\ DirtyInv'
    BY <2>1, <2>2, RInvFacts, ChainsKept DEF DirtyInv
  <2>5. ConnectInv' /\ DisconnectInv'
    BY <2>1, <2>2 DEF RInv, ConnectInv, DisconnectInv, Reached, At, Below, Tx
  <2> QED BY <2>1, <2>2, <2>3, <2>4, <2>5, StepStutters DEF RInv, Implements
<1> QED BY <1>1, <1>2, <1>3, <1>4, <1>5, <1>6, <1>7, <1>8, <1>9, <1>10, <1>11 DEF CoinsStep, Next

\* ConnectBlock turns a block down only if the chain does not admit it.
LEMMA OverwriteRejected ==
    ASSUME RInv, pc = "bip30", Overwrites(Tx)
    PROVE  ~Acceptable(CoinsOf[tipBest], block)
<1>1. /\ block \in Blocks /\ tipBest \in Blocks /\ i \in DOMAIN Vtx[block] /\ Parent[block] = tipBest /\ At(1, 1)
  BY RInvFacts DEF TypeOK, RInv, ConnectInv, Connecting
<1>2. Tx \in Txs /\ Tx = Vtx[block][i]
  BY <1>1, SeqOfBlock DEF Tx
<1>3. ViewCoins(Tx) = CoinsOf[tipBest][Tx]
  BY <1>1, <1>2, CoinsOfCanonical, MidwayEnds DEF At, Below
<1> QED BY <1>1, <1>2, <1>3, AcceptableParts DEF Overwrites, NothingOverwritten

LEMMA MissingRejected ==
    ASSUME RInv, pc = "inputs", NEW k \in DOMAIN Vin[Tx], ~IsAvailable(Vin[Tx][k])
    PROVE  ~Acceptable(CoinsOf[tipBest], block)
<1> DEFINE o == Vin[Tx][k]
<1>1. /\ block \in Blocks /\ i \in DOMAIN Vtx[block] /\ Below = CoinsOf[tipBest] /\ Reached(i, 1)
  BY RInvFacts DEF TypeOK, RInv, ConnectInv, Connecting, Below
<1>2. Tx \in Txs /\ Tx = Vtx[block][i] /\ o[1] \in Txs /\ i < Len(Vtx[block]) + 1
  <2>1. Tx \in Txs /\ Tx = Vtx[block][i]
    BY <1>1, SeqOfBlock DEF Tx
  <2>2. i < Len(Vtx[block]) + 1
    BY <1>1, SeqOfBlock
  <2> QED BY <2>1, <2>2, InputType
<1> SUFFICES ASSUME Acceptable(Below, block) PROVE FALSE
  BY <1>1
<1>3. Fits(Below, block, i, k)
  BY <1>1, <1>2, AcceptableParts DEF FitBefore
<1>4. o[2] \in Left(Below, block, i, 1, o[1])
  BY <1>1, <1>2, <1>3, FitsAvailable DEF Reached
<1>5. ViewCoins(o[1]) = Midway(Below, block, i, 1, o[1])
  BY <1>1, <1>2 DEF Reached, At
<1>6. o[2] \in ViewCoins(o[1]).outs
  BY <1>4, <1>5, CoinParts DEF Midway
<1> QED BY <1>6 DEF IsAvailable

LEMMA StepJustified ==
    RInv /\ [CoinsStep]_vars =>
        [(pc = "bip30" \/ pc = "inputs") /\ pc' = "idle" /\ block' = block
             => ~Acceptable(CoinsOf[tipBest], block)]_vars
<1> SUFFICES ASSUME RInv, [CoinsStep]_vars,
                    pc = "bip30" \/ pc = "inputs", pc' = "idle", block' = block
             PROVE  ~Acceptable(CoinsOf[tipBest], block)
  OBVIOUS
<1>1. CASE CheckBIP30
  <2>1. pc = "bip30" /\ Overwrites(Tx)
    BY <1>1 DEF CheckBIP30, Goto
  <2> QED BY <2>1, OverwriteRejected
<1>2. CASE CheckInputs
  <2>1. pc = "inputs" /\ \E k \in DOMAIN Vin[Tx] : ~IsAvailable(Vin[Tx][k])
    BY <1>2 DEF CheckInputs, Goto
  <2> QED BY <2>1, MissingRejected
<1>3. CASE Restart
  BY <1>3, RInvFacts DEF Restart
<1>4. CASE \/ \E b \in Blocks : BeginConnect(b)
           \/ SpendInput \/ AddOutputs \/ EndConnect
           \/ BeginDisconnect \/ RemoveOutputs \/ ApplyTxInUndo \/ EndDisconnect
           \/ \E x \in Txs : Read(x) \/ Uncache(x)
           \/ FlushTip \/ IndexWriteFails \/ IndexEraseFails
  BY <1>4 DEF BeginConnect, SpendInput, AddOutputs, EndConnect, BeginDisconnect, RemoveOutputs,
              ApplyTxInUndo, EndDisconnect, Read, Uncache, FlushTip, IndexWriteFails, IndexEraseFails
<1>5. CASE UNCHANGED vars
  BY <1>5 DEF vars, position
<1> QED BY <1>1, <1>2, <1>3, <1>4, <1>5 DEF CoinsStep, Next

-----------------------------------------------------------------------------
(* The indexes.  Between a crash or a failed write and the moment they are in   *)
(* step again, each output's records are right if the blocks that touch it are.  *)

Touches(b, o) == o \in SpentIn(b) \/ o[1] \in TxsOf(b)

\* The blocks of S are indexed as the chain that ends in t wants it.
InStepOn(S, t) == \A b \in S \ {Genesis} : indexed[b] = IF b \in Ancestors[t] THEN "whole" ELSE "none"

Touching(o) == {b \in Blocks : Touches(b, o)}
Spending(o) == {b \in Blocks : o \in SpentIn(b)}

IndexTypes ==
    /\ indexed \in [Blocks -> {"none", "part", "whole"}]
    /\ timestampBlock \in [Blocks -> Nat] /\ timestampBlock[Genesis] = 0

\* Since the coins were last written, each block of their chain that was taken
\* off was taken off the indexes, and each new one put on.
Moved ==
    /\ \A b \in Ancestors[dbBest] \ Ancestors[tipBest] : indexed[b] # "whole"
    /\ \A b \in Ancestors[tipBest] \ Ancestors[dbBest] : indexed[b] # "none"

ActivityInv ==
    /\ \A b \in Active : indexed[b] = "whole" => ActivityOf(b) \subseteq addressIndex
    /\ addressIndex \subseteq UNION {ActivityOf(b) : b \in {d \in Blocks \ {Genesis} : indexed[d] # "none"}}

\* The record of output o tells of the coins c.
Tells(o, c) ==
    IF o[2] \in c.outs THEN addressUnspent[o] \in {0, c.height} ELSE addressUnspent[o] = Erased

UnspentInv ==
    \A o \in AddressedOutpoints :
        InStepOn(Touching(o), tipBest) => Tells(o, CoinsOf[tipBest][o[1]])

SpentInv ==
    \A o \in Outpoints :
        InStepOn(Spending(o), tipBest) /\ ~Respent(o) =>
            \A b \in Active : \A x \in TxsOf(b) : \A k \in DOMAIN Vin[x] :
                Vin[x][k] = o => spentIndex[o] = <<x, k, Height[b]>>

\* Logical times are never changed once given, since those of the parent are not.
HasTime(b) == b = Genesis \/ timestampBlock[b] # 0
TimeRecords ==
    /\ \A b \in Blocks \ {Genesis} :
          timestampBlock[b] # 0 => /\ timestampBlock[b] = LogicalTS(b)
                                   /\ HasTime(Parent[b])
                                   /\ <<timestampBlock[b], b>> \in timestampIndex
    /\ \A e \in timestampIndex : \E b \in Blocks \ {Genesis} :
          e = <<LogicalTS(b), b>> /\ HasTime(Parent[b])
TimeInv == TimeRecords /\ \A b \in Ancestors[tipBest] \cup Ancestors[dbBest] : HasTime(b)

XInv == RInv /\ IndexTypes /\ Moved /\ ActivityInv /\ UnspentInv /\ SpentInv /\ TimeInv

-----------------------------------------------------------------------------
(* Blocks that touch an output *)

LEMMA ForkPoint ==
    ASSUME NEW s \in Blocks, NEW t \in Blocks
    PROVE  \E a \in Blocks : Ancestors[a] = Ancestors[s] \cap Ancestors[t]
<1> DEFINE C == Ancestors[s] \cap Ancestors[t]
<1>1. C # {} /\ C \in SUBSET Ancestors[s]
  BY GenesisIsAncestor
<1>2. PICK a \in C : \A y \in C : Height[y] <= Height[a]
  <2> HIDE DEF C
  <2> QED BY <1>1, HighestOfBranch
<1>3. a \in Blocks /\ Ancestors[a] \subseteq C
  BY AncestorsOfAncestor
<1>4. ASSUME NEW y \in C PROVE y \in Ancestors[a]
  <2>1. y \in Blocks /\ (y \in Ancestors[a] \/ a \in Ancestors[y])
    BY BranchIsChain, AncestorsType
  <2>2. a \in Ancestors[y] /\ a # y => Height[a] < Height[y]
    BY <2>1, AncestorIsLower
  <2>3. Height[y] <= Height[a] /\ Height[y] \in Nat /\ Height[a] \in Nat
    BY <1>2, <1>3, <2>1, HeightAssumption
  <2>4. a \in Ancestors[a]
    BY <1>3, AncestorsType
  <2> QED BY <2>1, <2>2, <2>3, <2>4
<1> QED BY <1>3, <1>4

\* The coins c and d say the same of output o.
SameFor(o, c, d) == (o[2] \in c.outs <=> o[2] \in d.outs) /\ (o[2] \in c.outs => c.height = d.height)

LEMMA AddressedType ==
    ASSUME NEW o \in AddressedOutpoints
    PROVE  o[1] \in Txs /\ o[2] \in Nat /\ o = <<o[1], o[2]>> /\ o[2] \in Outs[o[1]]
<1>1. o \in Outpoints \/ o \in Txs \X UNION {Outs[x] : x \in Txs}
  BY DEF AddressedOutpoints
<1>2. o \in Txs \X Nat
  <2>1. CASE o \in Outpoints
    <3>1. PICK x \in Txs : o \in Items(Vin[x])
      BY <2>1 DEF Outpoints
    <3>2. Vin[x] \in Seq(Txs \X Nat)
      BY VinAssumption
    <3> QED BY <3>1, <3>2 DEF Items
  <2>2. CASE o \in Txs \X UNION {Outs[x] : x \in Txs}
    BY <2>2, OutsAssumption
  <2> QED BY <1>1, <2>1, <2>2
<1>3. o[2] \in Addressed[o[1]]
  BY DEF AddressedOutpoints
<1> QED BY <1>2, <1>3, AddressedAssumption

\* The coins of a transaction after block b
LEMMA EffectOn ==
    ASSUME NEW c, NEW b, NEW o, o[1] \in Txs, o = <<o[1], o[2]>>
    PROVE  LET d == Effect(c, b)[o[1]] IN
           /\ o \in SpentIn(b) => o[2] \notin d.outs
           /\ o \notin SpentIn(b) /\ o[1] \in TxsOf(b) =>
                 (o[2] \in d.outs <=> o[2] \in Outs[o[1]]) /\ (o[2] \in d.outs => d.height = Height[b])
           /\ ~Touches(b, o) => SameFor(o, c[o[1]], d)
<1> DEFINE x == o[1]
           S == {n \in IF x \in TxsOf(b) THEN Outs[x] ELSE c[x].outs : <<x, n>> \notin SpentIn(b)}
           h == IF x \in TxsOf(b) THEN Height[b] ELSE c[x].height
<1>1. Effect(c, b)[x] = Coin(h, S)
  BY DEF Effect
<1>2. Coin(h, S).outs = S /\ (S # {} => Coin(h, S).height = h)
  <2> HIDE DEF S, h
  <2> QED BY CoinParts
<1>3. o[2] \in S <=> o[2] \in (IF x \in TxsOf(b) THEN Outs[x] ELSE c[x].outs) /\ o \notin SpentIn(b)
  OBVIOUS
<1>4. o[2] \in S => S # {}
  OBVIOUS
<1> HIDE DEF S
<1> QED BY <1>1, <1>2, <1>3, <1>4 DEF Touches, SameFor

LEMMA Untouched ==
    ASSUME NEW t \in Blocks, NEW a \in Ancestors[t], NEW o \in AddressedOutpoints,
           \A b \in Ancestors[t] \ Ancestors[a] : ~Touches(b, o)
    PROVE  SameFor(o, CoinsOf[a][o[1]], CoinsOf[t][o[1]])
<1> DEFINE Bad == {d \in Ancestors[t] : a \in Ancestors[d] /\ ~SameFor(o, CoinsOf[a][o[1]], CoinsOf[d][o[1]])}
<1> SUFFICES ASSUME Bad # {} PROVE FALSE
  BY AncestorsType
<1>1. PICK d \in Bad : \A y \in Bad : Height[d] <= Height[y]
  <2>1. Bad \in SUBSET Blocks
    BY AncestorsType
  <2> HIDE DEF Bad
  <2> QED BY <2>1, LowestBlock
<1>2. d \in Blocks /\ a \in Blocks /\ d # a
  BY AncestorsType DEF SameFor
<1>3. Height[a] < Height[d] /\ d # Genesis /\ d \notin Ancestors[a]
  <2>1. Height[a] < Height[d] /\ Height[a] \in Nat /\ Height[d] \in Nat
    BY <1>2, AncestorIsLower, HeightAssumption
  <2>2. d # Genesis
    BY <2>1, HeightAssumption
  <2>3. d \in Ancestors[a] => Height[d] < Height[a]
    BY <1>2, AncestorIsLower
  <2> QED BY <2>1, <2>2, <2>3
<1>4. /\ Parent[d] \in Blocks /\ Parent[d] \in Ancestors[t] /\ a \in Ancestors[Parent[d]]
      /\ Height[Parent[d]] < Height[d]
  <2>1. Parent[d] \in Blocks /\ Ancestors[d] = Ancestors[Parent[d]] \cup {d}
    BY <1>2, <1>3, AncestorsParent
  <2>2. Parent[d] \in Ancestors[t]
    BY <1>3, AncestorsType DEF ParentClosed
  <2>3. Height[d] = Height[Parent[d]] + 1 /\ Height[Parent[d]] \in Nat
    BY <1>2, <1>3, <2>1, HeightAssumption
  <2> QED BY <1>2, <2>1, <2>2, <2>3
<1>5. SameFor(o, CoinsOf[a][o[1]], CoinsOf[Parent[d]][o[1]])
  <2>1. Height[Parent[d]] \in Nat /\ Height[d] \in Nat
    BY <1>2, <1>4, HeightAssumption
  <2> QED BY <1>1, <1>4, <2>1
<1>6. SameFor(o, CoinsOf[Parent[d]][o[1]], CoinsOf[d][o[1]])
  <2>1. ~Touches(d, o)
    BY <1>3
  <2>2. CoinsOf[d] = Effect(CoinsOf[Parent[d]], d)
    BY <1>2, <1>3, CoinsOfBlock
  <2> QED BY <2>1, <2>2, AddressedType, EffectOn
<1> QED BY <1>5, <1>6 DEF SameFor

\* Two chains whose blocks that touch o are the same
LEMMA SameTouchers ==
    ASSUME NEW s \in Blocks, NEW t \in Blocks, NEW o \in AddressedOutpoints,
           \A b \in Touching(o) : b \in Ancestors[s] <=> b \in Ancestors[t]
    PROVE  SameFor(o, CoinsOf[s][o[1]], CoinsOf[t][o[1]])
<1>1. PICK a \in Blocks : Ancestors[a] = Ancestors[s] \cap Ancestors[t]
  BY ForkPoint
<1>2. a \in Ancestors[s] /\ a \in Ancestors[t]
  BY <1>1, AncestorsType
<1>3. \A b \in Ancestors[s] \ Ancestors[a] : ~Touches(b, o)
  BY <1>1, AncestorsType DEF Touching
<1>4. \A b \in Ancestors[t] \ Ancestors[a] : ~Touches(b, o)
  BY <1>1, AncestorsType DEF Touching
<1>5. SameFor(o, CoinsOf[a][o[1]], CoinsOf[s][o[1]]) /\ SameFor(o, CoinsOf[a][o[1]], CoinsOf[t][o[1]])
  BY <1>2, <1>3, <1>4, Untouched
<1> QED BY <1>5 DEF SameFor

\* The spend of an output in an acceptable block, as the spent index records it
LEMMA OneSpender ==
    ASSUME NEW c, NEW b \in Blocks, Acceptable(c, b),
           NEW x \in TxsOf(b), NEW k \in DOMAIN Vin[x], NEW y \in TxsOf(b), NEW m \in DOMAIN Vin[y],
           Vin[x][k] = Vin[y][m]
    PROVE  x = y /\ k = m
<1>1. PICK l \in DOMAIN Vtx[b] : Vtx[b][l] = x
  BY DEF TxsOf, Items
<1>2. PICK r \in DOMAIN Vtx[b] : Vtx[b][r] = y
  BY DEF TxsOf, Items
<1>3. l \in Nat /\ r \in Nat /\ l > 0 /\ r > 0 /\ x \in Txs
  BY <1>1, SeqOfBlock
<1>4. ASSUME NEW p \in DOMAIN Vtx[b], NEW q \in DOMAIN Vtx[b], p < q,
             NEW f \in DOMAIN Vin[Vtx[b][p]], NEW g \in DOMAIN Vin[Vtx[b][q]]
      PROVE  Vin[Vtx[b][p]][f] # Vin[Vtx[b][q]][g]
  <2>1. p \in 1..(q - 1)
    <3>1. p \in Nat /\ q \in Nat /\ p > 0
      BY SeqOfBlock
    <3> QED BY <1>4, <3>1
  <2>2. \A u \in 1..(q - 1) : \A w \in DOMAIN Vin[Vtx[b][u]] : Vin[Vtx[b][u]][w] # Vin[Vtx[b][q]][g]
    BY DEF Acceptable
  <2> QED BY <2>1, <2>2
<1>5. ~(l < r) /\ ~(r < l)
  BY <1>1, <1>2, <1>4
<1>6. l = r
  BY <1>3, <1>5
<1> QED BY <1>1, <1>2, <1>3, <1>6, VinAssumption

LEMMA SpendRecord ==
    ASSUME NEW c, NEW b \in Blocks, Acceptable(c, b), NEW o \in Outpoints,
           NEW x \in TxsOf(b), NEW k \in DOMAIN Vin[x], Vin[x][k] = o
    PROVE  SpentAfter(b)[o] = <<x, k, Height[b]>>
<1> DEFINE V == UNION {{<<y, m, Height[b]>> : m \in DOMAIN Vin[y]} : y \in TxsOf(b)}
<1>1. o \in SpentIn(b)
  BY DEF SpentIn, Items
<1>2. <<x, k, Height[b]>> \in V
  OBVIOUS
<1>3. ASSUME NEW v \in V, Vin[v[1]][v[2]] = o PROVE v = <<x, k, Height[b]>>
  <2>1. PICK y \in TxsOf(b) : \E m \in DOMAIN Vin[y] : v = <<y, m, Height[b]>>
    OBVIOUS
  <2>2. PICK m \in DOMAIN Vin[y] : v = <<y, m, Height[b]>>
    BY <2>1
  <2>3. Vin[y][m] = Vin[x][k]
    BY <1>3, <2>2
  <2>4. x = y /\ k = m
    BY <2>3, OneSpender
  <2> QED BY <2>2, <2>4
<1>4. SpentAfter(b)[o] = CHOOSE v \in V : Vin[v[1]][v[2]] = o
  BY <1>1 DEF SpentAfter
<1> HIDE DEF V
<1> QED BY <1>2, <1>3, <1>4

-----------------------------------------------------------------------------
(* Steps of the indexes *)

records == <<addressIndex, addressUnspent, spentIndex, timestampIndex, timestampBlock, indexed>>

LEMMA QuietX ==
    ASSUME XInv, RInv', UNCHANGED <<dbBest, tipBest, records>>
    PROVE  XInv'
<1>1. UNCHANGED <<addressIndex, addressUnspent, spentIndex, timestampIndex, timestampBlock, indexed>>
  BY DEF records
<1>2. IndexTypes' /\ Moved' /\ ActivityInv'
  BY <1>1 DEF XInv, IndexTypes, Moved, ActivityInv, Active
<1>3. UnspentInv' /\ SpentInv'
  BY <1>1 DEF XInv, UnspentInv, SpentInv, InStepOn, Tells, Active
<1>4. TimeInv'
  BY <1>1 DEF XInv, TimeInv, TimeRecords, HasTime, LogicalTS
<1> QED BY <1>2, <1>3, <1>4 DEF XInv

LEMMA FlushX ==
    ASSUME XInv, RInv', dbBest' = tipBest, UNCHANGED <<tipBest, records>>
    PROVE  XInv'
<1>1. UNCHANGED <<addressIndex, addressUnspent, spentIndex, timestampIndex, timestampBlock, indexed>>
  BY DEF records
<1>2. IndexTypes' /\ Moved' /\ ActivityInv'
  BY <1>1 DEF XInv, IndexTypes, Moved, ActivityInv, Active
<1>3. UnspentInv' /\ SpentInv'
  BY <1>1 DEF XInv, UnspentInv, SpentInv, InStepOn, Tells, Active
<1>4. TimeInv'
  BY <1>1 DEF XInv, TimeInv, TimeRecords, HasTime, LogicalTS
<1> QED BY <1>2, <1>3, <1>4 DEF XInv

\* In step with the chain of the database is in step with that of pcoinsTip.
LEMMA InStepBoth ==
    ASSUME Moved, tipBest \in Blocks, dbBest \in Blocks, NEW S \in SUBSET Blocks, InStepOn(S, dbBest)
    PROVE  /\ InStepOn(S, tipBest)
           /\ \A b \in S : b \in Ancestors[dbBest] <=> b \in Ancestors[tipBest]
<1>1. Genesis \in Ancestors[dbBest] /\ Genesis \in Ancestors[tipBest]
  BY GenesisIsAncestor
<1>2. \A b \in S : b \in Ancestors[dbBest] <=> b \in Ancestors[tipBest]
  BY <1>1 DEF Moved, InStepOn
<1> QED BY <1>2 DEF InStepOn

LEMMA RestartX ==
    ASSUME XInv, RInv', tipBest' = dbBest, UNCHANGED <<dbBest, records>>
    PROVE  XInv'
<1>1. UNCHANGED <<addressIndex, addressUnspent, spentIndex, timestampIndex, timestampBlock, indexed>>
  BY DEF records
<1>2. Moved /\ tipBest \in Blocks /\ dbBest \in Blocks
  BY RInvFacts DEF XInv
<1>3. IndexTypes' /\ Moved'
  BY <1>1 DEF XInv, IndexTypes, Moved
<1>4. ActivityInv'
  BY <1>1, <1>2 DEF XInv, Moved, ActivityInv, Active
<1>5. UnspentInv'
  <2> SUFFICES ASSUME NEW o \in AddressedOutpoints, InStepOn(Touching(o), dbBest)
               PROVE  Tells(o, CoinsOf[dbBest][o[1]])
    BY <1>1 DEF UnspentInv, InStepOn, Tells
  <2>1. Touching(o) \in SUBSET Blocks
    BY DEF Touching
  <2>2. /\ InStepOn(Touching(o), tipBest)
        /\ \A b \in Touching(o) : b \in Ancestors[dbBest] <=> b \in Ancestors[tipBest]
    BY <1>2, <2>1, InStepBoth
  <2>3. SameFor(o, CoinsOf[dbBest][o[1]], CoinsOf[tipBest][o[1]])
    BY <1>2, <2>2, SameTouchers
  <2>4. Tells(o, CoinsOf[tipBest][o[1]])
    BY <2>2 DEF XInv, UnspentInv
  <2> QED BY <2>3, <2>4 DEF Tells, SameFor
<1>6. SpentInv'
  <2> SUFFICES ASSUME NEW o \in Outpoints, InStepOn(Spending(o), dbBest), ~Respent(o),
                      NEW b \in Ancestors[dbBest] \ {Genesis}, NEW x \in TxsOf(b), NEW k \in DOMAIN Vin[x],
                      Vin[x][k] = o
               PROVE  spentIndex[o] = <<x, k, Height[b]>>
    BY <1>1 DEF SpentInv, InStepOn, Active
  <2>1. Spending(o) \in SUBSET Blocks
    BY DEF Spending
  <2>2. /\ InStepOn(Spending(o), tipBest)
        /\ \A d \in Spending(o) : d \in Ancestors[dbBest] <=> d \in Ancestors[tipBest]
    BY <1>2, <2>1, InStepBoth
  <2>3. b \in Spending(o)
    BY <1>2, AncestorsType DEF Spending, SpentIn, Items
  <2> QED BY <2>2, <2>3 DEF XInv, SpentInv, Active
<1>7. TimeInv'
  BY <1>1 DEF XInv, TimeInv, TimeRecords, HasTime, LogicalTS
<1> QED BY <1>3, <1>4, <1>5, <1>6, <1>7 DEF XInv

LEMMA LogicalTSType ==
    ASSUME IndexTypes, NEW b \in Blocks \ {Genesis}
    PROVE  /\ LogicalTS(b) \in Nat /\ LogicalTS(b) # 0
           /\ LogicalTS(b) > timestampBlock[Parent[b]] /\ LogicalTS(b) >= Time[b]
<1>1. /\ timestampBlock[Parent[b]] \in Nat
      /\ Time[b] \in Nat /\ Time[b] # 0
  BY ParentAssumption, TimeAssumption DEF IndexTypes
<1> QED BY <1>1 DEF LogicalTS

\* Logical times stay as they are.
LEMMA TimeWritten ==
    ASSUME IndexTypes, TimeRecords, NEW b \in Blocks \ {Genesis}, HasTime(Parent[b]),
           NEW n \in 0..5, Written(n, b)
    PROVE  /\ TimeRecords'
           /\ timestampBlock' \in [Blocks -> Nat] /\ timestampBlock'[Genesis] = 0
           /\ \A d \in Blocks : HasTime(d) => HasTime(d)'
           /\ n = 5 => HasTime(b)'
<1>1. LogicalTS(b) \in Nat /\ LogicalTS(b) # 0 /\ timestampBlock \in [Blocks -> Nat] /\ timestampBlock[Genesis] = 0
  BY LogicalTSType DEF IndexTypes
<1>2. timestampBlock[b] # 0 => timestampBlock[b] = LogicalTS(b)
  BY DEF TimeRecords
<1>3. /\ n < 5 => timestampBlock' = timestampBlock
      /\ n = 5 => /\ timestampBlock' = [timestampBlock EXCEPT ![b] = LogicalTS(b)]
                  /\ <<LogicalTS(b), b>> \in timestampIndex'
      /\ \A e \in timestampIndex' : e \in timestampIndex \/ e = <<LogicalTS(b), b>>
      /\ timestampIndex \subseteq timestampIndex'
      /\ n < 5 \/ n = 5
  BY DEF Written
<1>4. ASSUME NEW d \in Blocks
      PROVE  timestampBlock'[d] = timestampBlock[d] \/
             (d = b /\ timestampBlock[d] = 0 /\ timestampBlock'[d] = LogicalTS(b) /\ n = 5)
  BY <1>1, <1>2, <1>3
<1>5. \A d \in Blocks : HasTime(d) => HasTime(d)' /\ timestampBlock'[d] = timestampBlock[d]
  BY <1>1, <1>4 DEF HasTime
<1>6. ASSUME NEW d \in Blocks \ {Genesis}, HasTime(Parent[d]) PROVE LogicalTS(d)' = LogicalTS(d) /\ HasTime(Parent[d])'
  <2>1. Parent[d] \in Blocks
    BY ParentAssumption
  <2>2. timestampBlock'[Parent[d]] = timestampBlock[Parent[d]]
    BY <1>5, <1>6, <2>1
  <2>3. HasTime(Parent[d])'
    BY <1>6, <2>2 DEF HasTime
  <2> QED BY <2>2, <2>3 DEF LogicalTS
<1>7. ASSUME NEW d \in Blocks \ {Genesis}, timestampBlock'[d] # 0
      PROVE  /\ timestampBlock'[d] = LogicalTS(d)'
             /\ HasTime(Parent[d])'
             /\ <<timestampBlock'[d], d>> \in timestampIndex'
  <2>1. CASE timestampBlock'[d] = timestampBlock[d]
    <3>1. timestampBlock[d] = LogicalTS(d) /\ HasTime(Parent[d]) /\ <<timestampBlock[d], d>> \in timestampIndex
      BY <1>7, <2>1 DEF TimeRecords
    <3> QED BY <1>3, <1>6, <2>1, <3>1
  <2>2. CASE d = b /\ timestampBlock'[d] = LogicalTS(b) /\ n = 5
    BY <1>3, <1>6, <2>2
  <2> QED BY <1>4, <2>1, <2>2
<1>8. ASSUME NEW e \in timestampIndex'
      PROVE  \E d \in Blocks \ {Genesis} : e = <<LogicalTS(d)', d>> /\ HasTime(Parent[d])'
  <2>1. \E d \in Blocks \ {Genesis} : e = <<LogicalTS(d), d>> /\ HasTime(Parent[d])
    BY <1>3 DEF TimeRecords
  <2> QED BY <1>6, <2>1
<1>9. TimeRecords'
  BY <1>7, <1>8 DEF TimeRecords
<1>10. n = 5 => HasTime(b)'
  BY <1>1, <1>3 DEF HasTime
<1>11. timestampBlock' \in [Blocks -> Nat] /\ timestampBlock'[Genesis] = 0
  BY <1>1, <1>3, BlocksAssumption
<1> QED BY <1>5, <1>9, <1>10, <1>11

LEMMA ActivityAtHeight ==
    ASSUME NEW b, NEW e \in ActivityOf(b)
    PROVE  e[1] = Height[b]
<1> DEFINE R(k) == {<<Height[b], k, Vtx[b][k], n, FALSE>> : n \in Addressed[Vtx[b][k]]}
           D(k) == {l \in DOMAIN Vin[Vtx[b][k]] : LET o == Vin[Vtx[b][k]][l] IN o[2] \in Addressed[o[1]]}
           S(k) == {<<Height[b], k, Vtx[b][k], m, TRUE>> : m \in D(k)}
<1>1. PICK k \in DOMAIN Vtx[b] : e \in R(k) \/ e \in S(k)
  <2>1. e \in ReceivingActivity(b) \/ e \in SpendingActivity(b)
    BY DEF ActivityOf
  <2>2. CASE e \in ReceivingActivity(b)
    BY <2>2, Zenon DEF ReceivingActivity
  <2>3. CASE e \in SpendingActivity(b)
    BY <2>3, Zenon DEF SpendingActivity
  <2> QED BY <2>1, <2>2, <2>3
<1>2. \E m, v : e = <<Height[b], k, Vtx[b][k], m, v>>
  <2>1. CASE e \in R(k)
    <3>1. \E n : e = <<Height[b], k, Vtx[b][k], n, FALSE>>
      BY <2>1, Zenon
    <3> QED BY <3>1, Zenon
  <2>2. CASE e \in S(k)
    <3>1. \E n : e = <<Height[b], k, Vtx[b][k], n, TRUE>>
      BY <2>2, Zenon
    <3> QED BY <3>1, Zenon
  <2> QED BY <1>1, <2>1, <2>2
<1> QED BY <1>2

\* Blocks of one chain have different heights, so no activity in common.
LEMMA ActivityApart ==
    ASSUME NEW t \in Blocks, NEW a \in Ancestors[t], NEW b \in Ancestors[t], a # b
    PROVE  ActivityOf(a) \cap ActivityOf(b) = {}
<1>1. Height[a] # Height[b]
  BY BranchIsChain
<1> QED BY <1>1, ActivityAtHeight

\* What a written block does to one output
LEMMA WrittenFor ==
    ASSUME NEW b, NEW n \in 0..5, Written(n, b)
    PROVE  /\ \A o \in AddressedOutpoints : ~Touches(b, o) => addressUnspent'[o] = addressUnspent[o]
           /\ \A o \in Outpoints : o \notin SpentIn(b) => spentIndex'[o] = spentIndex[o]
           /\ addressIndex \subseteq addressIndex' /\ addressIndex' \subseteq addressIndex \cup ActivityOf(b)
BY DEF Written, UnspentAfter, SpentAfter, Touches

LEMMA ConnectX ==
    ASSUME XInv, RInv', NEW b \in Blocks \ {Genesis}, Parent[b] = tipBest, tipBest' = b, dbBest' = dbBest,
           Acceptable(CoinsOf[tipBest], b), Written(5, b), indexed' = [indexed EXCEPT ![b] = "whole"]
    PROVE  XInv'
<1>1. /\ tipBest \in Blocks /\ dbBest \in Blocks /\ IndexTypes
      /\ Ancestors[b] = Ancestors[tipBest] \cup {b} /\ b \notin Ancestors[tipBest]
      /\ Ancestors[tipBest] \subseteq Blocks /\ Ancestors[dbBest] \subseteq Blocks
      /\ CoinsOf[b] = Effect(CoinsOf[tipBest], b)
  <2>1. tipBest \in Blocks /\ dbBest \in Blocks /\ IndexTypes
    BY RInvFacts DEF XInv
  <2>2. Ancestors[b] = Ancestors[tipBest] \cup {b}
    BY AncestorsParent
  <2>3. Height[tipBest] < Height[b] /\ {Height[tipBest], Height[b]} \subseteq Nat
    BY <2>1, HeightAssumption
  <2>4. b \notin Ancestors[tipBest]
    BY <2>1, <2>3, AncestorIsLower
  <2> QED BY <2>1, <2>2, <2>4, AncestorsType, CoinsOfBlock
<1>2. \A d \in Blocks : indexed'[d] = IF d = b THEN "whole" ELSE indexed[d]
  BY <1>1 DEF IndexTypes
<1>3. 5 \in 0..5
  OBVIOUS
<1>4. /\ TimeRecords'
      /\ timestampBlock' \in [Blocks -> Nat] /\ timestampBlock'[Genesis] = 0
      /\ \A d \in Blocks : HasTime(d) => HasTime(d)'
      /\ HasTime(b)'
  <2>1. HasTime(Parent[b]) /\ TimeRecords
    BY <1>1, AncestorsType DEF XInv, TimeInv
  <2> QED BY <1>1, <1>3, <2>1, TimeWritten
<1>5. TimeInv' /\ IndexTypes'
  <2>1. \A d \in Ancestors[b] \cup Ancestors[dbBest] : HasTime(d)'
    BY <1>1, <1>4 DEF XInv, TimeInv
  <2>2. indexed' \in [Blocks -> {"none", "part", "whole"}]
    BY <1>1 DEF IndexTypes
  <2> QED BY <1>4, <2>1, <2>2 DEF TimeInv, IndexTypes
<1>6. Moved'
  BY <1>1, <1>2 DEF XInv, Moved
<1>7. ActivityInv'
  <2>1. addressIndex' = addressIndex \cup ActivityOf(b)
    BY DEF Written
  <2>2. ASSUME NEW d \in Ancestors[b] \ {Genesis}, indexed'[d] = "whole" PROVE ActivityOf(d) \subseteq addressIndex'
    <3>1. CASE d = b
      BY <2>1, <3>1
    <3>2. CASE d # b
      BY <1>1, <1>2, <2>1, <2>2, <3>2 DEF XInv, ActivityInv, Active
    <3> QED BY <3>1, <3>2
  <2>3. ASSUME NEW e \in addressIndex' PROVE \E d \in Blocks \ {Genesis} : indexed'[d] # "none" /\ e \in ActivityOf(d)
    <3>1. CASE e \in ActivityOf(b)
      BY <1>2, <3>1
    <3>2. CASE e \in addressIndex
      <4>1. PICK d \in Blocks \ {Genesis} : indexed[d] # "none" /\ e \in ActivityOf(d)
        BY <3>2 DEF XInv, ActivityInv
      <4> QED BY <1>2, <4>1
    <3> QED BY <2>1, <3>1, <3>2
  <2> QED BY <2>2, <2>3 DEF ActivityInv, Active
<1>8. UnspentInv'
  <2> SUFFICES ASSUME NEW o \in AddressedOutpoints, InStepOn(Touching(o), tipBest)'
               PROVE  Tells(o, CoinsOf[b][o[1]])'
    BY DEF UnspentInv
  <2>1. o[1] \in Txs /\ o = <<o[1], o[2]>> /\ o[2] \in Outs[o[1]]
    BY AddressedType
  <2>2. LET d == CoinsOf[b][o[1]] IN
        /\ o \in SpentIn(b) => o[2] \notin d.outs
        /\ o \notin SpentIn(b) /\ o[1] \in TxsOf(b) =>
              (o[2] \in d.outs <=> o[2] \in Outs[o[1]]) /\ (o[2] \in d.outs => d.height = Height[b])
        /\ ~Touches(b, o) => SameFor(o, CoinsOf[tipBest][o[1]], d)
    BY <1>1, <2>1, EffectOn
  <2>3. CASE Touches(b, o)
    <3>1. addressUnspent'[o] = IF o \in SpentIn(b) THEN Erased ELSE Height[b]
      BY <2>3 DEF Written, UnspentAfter, Touches
    <3> QED BY <2>1, <2>2, <2>3, <3>1 DEF Touches, Tells
  <2>4. CASE ~Touches(b, o)
    <3>1. addressUnspent'[o] = addressUnspent[o]
      BY <1>3, <2>4, WrittenFor
    <3>2. InStepOn(Touching(o), tipBest)
      <4>1. Touching(o) \in SUBSET Blocks /\ b \notin Touching(o)
        BY <2>4 DEF Touching
      <4> QED BY <1>1, <1>2, <4>1 DEF InStepOn
    <3>3. Tells(o, CoinsOf[tipBest][o[1]])
      BY <3>2 DEF XInv, UnspentInv
    <3> QED BY <2>2, <2>4, <3>1, <3>3 DEF Tells, SameFor
  <2> QED BY <2>3, <2>4
<1>9. SpentInv'
  <2> SUFFICES ASSUME NEW o \in Outpoints, InStepOn(Spending(o), tipBest)', ~Respent(o),
                      NEW d \in Ancestors[b] \ {Genesis}, NEW x \in TxsOf(d), NEW k \in DOMAIN Vin[x],
                      Vin[x][k] = o
               PROVE  spentIndex'[o] = <<x, k, Height[d]>>
    BY DEF SpentInv, Active
  <2>1. CASE d = b
    <3>1. SpentAfter(b)[o] = <<x, k, Height[b]>>
      BY <2>1, SpendRecord
    <3> QED BY <2>1, <3>1 DEF Written
  <2>2. CASE d # b
    <3>1. d \in Ancestors[tipBest] /\ o \in SpentIn(d)
      BY <1>1, <2>2 DEF SpentIn, Items
    <3>2. o \notin SpentIn(b)
      BY <3>1 DEF Respent
    <3>3. spentIndex'[o] = spentIndex[o]
      BY <1>3, <3>2, WrittenFor
    <3>4. InStepOn(Spending(o), tipBest)
      <4>1. Spending(o) \in SUBSET Blocks /\ b \notin Spending(o)
        BY <3>2 DEF Spending
      <4> QED BY <1>1, <1>2, <4>1 DEF InStepOn
    <3> QED BY <3>1, <3>3, <3>4 DEF XInv, SpentInv, Active
  <2> QED BY <2>1, <2>2
<1> QED BY <1>5, <1>6, <1>7, <1>8, <1>9 DEF XInv

LEMMA WriteFailsX ==
    ASSUME XInv, RInv', NEW b \in Blocks \ {Genesis}, Parent[b] = tipBest, UNCHANGED <<tipBest, dbBest>>,
           NEW n \in 0..5, Written(n, b), indexed' = [indexed EXCEPT ![b] = "part"]
    PROVE  XInv'
<1>1. /\ tipBest \in Blocks /\ dbBest \in Blocks /\ IndexTypes
      /\ b \notin Ancestors[tipBest]
      /\ Ancestors[tipBest] \subseteq Blocks /\ Ancestors[dbBest] \subseteq Blocks
  <2>1. tipBest \in Blocks /\ dbBest \in Blocks /\ IndexTypes
    BY RInvFacts DEF XInv
  <2>2. Height[tipBest] < Height[b] /\ {Height[tipBest], Height[b]} \subseteq Nat
    BY <2>1, HeightAssumption
  <2>3. b \notin Ancestors[tipBest]
    BY <2>1, <2>2, AncestorIsLower
  <2> QED BY <2>1, <2>3, AncestorsType
<1>2. \A d \in Blocks : indexed'[d] = IF d = b THEN "part" ELSE indexed[d]
  BY <1>1 DEF IndexTypes
<1>3. /\ TimeRecords'
      /\ timestampBlock' \in [Blocks -> Nat] /\ timestampBlock'[Genesis] = 0
      /\ \A d \in Blocks : HasTime(d) => HasTime(d)'
  <2>1. HasTime(Parent[b]) /\ TimeRecords
    BY <1>1, AncestorsType DEF XInv, TimeInv
  <2> QED BY <1>1, <2>1, TimeWritten
<1>4. TimeInv' /\ IndexTypes'
  <2>1. \A d \in Ancestors[tipBest] \cup Ancestors[dbBest] : HasTime(d)'
    BY <1>1, <1>3 DEF XInv, TimeInv
  <2>2. indexed' \in [Blocks -> {"none", "part", "whole"}]
    BY <1>1 DEF IndexTypes
  <2> QED BY <1>3, <2>1, <2>2 DEF TimeInv, IndexTypes
<1>5. Moved'
  BY <1>1, <1>2 DEF XInv, Moved
<1>6. ActivityInv'
  <2>1. addressIndex \subseteq addressIndex' /\ addressIndex' \subseteq addressIndex \cup ActivityOf(b)
    BY WrittenFor
  <2>2. ASSUME NEW d \in Ancestors[tipBest] \ {Genesis}, indexed'[d] = "whole" PROVE ActivityOf(d) \subseteq addressIndex'
    <3>1. d \in Blocks /\ d # b /\ indexed[d] = "whole"
      BY <1>1, <1>2, <2>2
    <3> QED BY <2>1, <3>1 DEF XInv, ActivityInv, Active
  <2>3. ASSUME NEW e \in addressIndex' PROVE \E d \in Blocks \ {Genesis} : indexed'[d] # "none" /\ e \in ActivityOf(d)
    <3>1. CASE e \in ActivityOf(b)
      BY <1>2, <3>1
    <3>2. CASE e \in addressIndex
      <4>1. PICK d \in Blocks \ {Genesis} : indexed[d] # "none" /\ e \in ActivityOf(d)
        BY <3>2 DEF XInv, ActivityInv
      <4> QED BY <1>2, <4>1
    <3> QED BY <2>1, <3>1, <3>2
  <2> QED BY <2>2, <2>3 DEF ActivityInv, Active
<1>7. ASSUME NEW S \in SUBSET Blocks, InStepOn(S, tipBest)' PROVE b \notin S /\ InStepOn(S, tipBest)
  <2>1. b \notin S
    BY <1>1, <1>2, <1>7 DEF InStepOn
  <2> QED BY <1>1, <1>2, <1>7, <2>1 DEF InStepOn
<1>8. UnspentInv'
  <2> SUFFICES ASSUME NEW o \in AddressedOutpoints, InStepOn(Touching(o), tipBest)'
               PROVE  Tells(o, CoinsOf[tipBest][o[1]])'
    BY DEF UnspentInv
  <2>1. b \notin Touching(o) /\ InStepOn(Touching(o), tipBest)
    BY <1>7 DEF Touching
  <2>2. addressUnspent'[o] = addressUnspent[o]
    BY <2>1, WrittenFor DEF Touching
  <2>3. Tells(o, CoinsOf[tipBest][o[1]])
    BY <2>1 DEF XInv, UnspentInv
  <2> QED BY <2>2, <2>3 DEF Tells
<1>9. SpentInv'
  <2> SUFFICES ASSUME NEW o \in Outpoints, InStepOn(Spending(o), tipBest)', ~Respent(o),
                      NEW d \in Ancestors[tipBest] \ {Genesis}, NEW x \in TxsOf(d), NEW k \in DOMAIN Vin[x],
                      Vin[x][k] = o
               PROVE  spentIndex'[o] = <<x, k, Height[d]>>
    BY DEF SpentInv, Active
  <2>1. b \notin Spending(o) /\ InStepOn(Spending(o), tipBest)
    BY <1>7 DEF Spending
  <2>2. spentIndex'[o] = spentIndex[o]
    BY <2>1, WrittenFor DEF Spending
  <2> QED BY <2>1, <2>2 DEF XInv, SpentInv, Active
<1> QED BY <1>4, <1>5, <1>6, <1>8, <1>9 DEF XInv

\* The height that DisconnectBlock gives back to an output
LEMMA UndoTells ==
    ASSUME RInv, pc = "disconnected", NEW o \in AddressedOutpoints, o \in SpentIn(block), o[1] \notin TxsOf(block)
    PROVE  /\ o[2] \in CoinsOf[Parent[block]][o[1]].outs
           /\ undo[block][o] \in {0, CoinsOf[Parent[block]][o[1]].height}
<1>1. /\ block \in Blocks \ {Genesis}
      /\ NothingOverwritten(Below, block)
      /\ FitBefore(Below, block, Len(Vtx[block]) + 1, 1)
      /\ UndoFits(undo[block], block, Len(Vtx[block]) + 1, 1)
  BY DisconnectFacts DEF Disconnecting
<1>2. PICK x \in TxsOf(block) : o \in Items(Vin[x])
  BY DEF SpentIn
<1>3. PICK l \in DOMAIN Vtx[block] : Vtx[block][l] = x
  BY DEF TxsOf, Items
<1>4. PICK r \in DOMAIN Vin[Vtx[block][l]] : Vin[Vtx[block][l]][r] = o
  BY <1>2, <1>3 DEF Items
<1>5. l < Len(Vtx[block]) + 1
  BY <1>1, SeqOfBlock
<1>6. Fits(Below, block, l, r) /\ undo[block][o] = UndoAt(block, l, r)
  BY <1>1, <1>4, <1>5 DEF FitBefore, UndoFits
<1>7. \A q \in DOMAIN Vtx[block] : Vtx[block][q] # o[1]
  BY DEF TxsOf, Items
<1>8. o[2] \in Below[o[1]].outs
  <2>1. \A q \in 1..(l - 1) : q \in DOMAIN Vtx[block]
    BY <1>1, SeqOfBlock
  <2> QED BY <1>4, <1>6, <1>7, <2>1 DEF Fits
<1>9. o[2] \in Left(Below, block, l, r, o[1])
  BY <1>1, <1>4, <1>6, FitsAvailable
<1>10. HeightAt(Below, block, l, o[1]) = Below[o[1]].height
  BY <1>7 DEF HeightAt, AddedBefore
<1>11. Midway(Below, block, l, r, o[1]).height = Below[o[1]].height
  BY <1>9, <1>10, BeforeSpent
<1> QED BY <1>4, <1>6, <1>8, <1>11 DEF UndoAt, UndoHeight, Below

LEMMA TakenBackFor ==
    ASSUME NEW b, NEW n \in 0..2, TakenBack(n, b)
    PROVE  /\ addressIndex' \subseteq addressIndex
           /\ addressIndex \subseteq addressIndex' \cup ActivityOf(b)
           /\ n > 0 => addressIndex' \cap ActivityOf(b) = {}
           /\ \A o \in AddressedOutpoints : ~Touches(b, o) => addressUnspent'[o] = addressUnspent[o]
           /\ UNCHANGED <<spentIndex, timestampIndex, timestampBlock>>
BY DEF TakenBack, ActivityUndone, UnspentBefore, Touches

LEMMA TimeKept ==
    ASSUME XInv, UNCHANGED <<timestampIndex, timestampBlock, dbBest>>,
           Ancestors[tipBest'] \subseteq Ancestors[tipBest],
           NEW b \in Blocks, NEW v \in {"none", "part"}, indexed' = [indexed EXCEPT ![b] = v]
    PROVE  TimeInv' /\ IndexTypes'
BY DEF XInv, TimeInv, TimeRecords, HasTime, LogicalTS, IndexTypes

\* The block at the tip is taken back, its activity first.
LEMMA ActivityBack ==
    ASSUME XInv, tipBest \in Blocks \ {Genesis}, NEW n \in 0..2, TakenBack(n, tipBest),
           NEW v \in {"none", "part"}, v = "none" => n > 0, indexed' = [indexed EXCEPT ![tipBest] = v],
           Ancestors[tipBest'] \subseteq Ancestors[tipBest]
    PROVE  ActivityInv'
<1>1. \A d \in Blocks : indexed'[d] = IF d = tipBest THEN v ELSE indexed[d]
  BY DEF XInv, IndexTypes
<1>2. /\ addressIndex' \subseteq addressIndex
      /\ addressIndex \subseteq addressIndex' \cup ActivityOf(tipBest)
      /\ n > 0 => addressIndex' \cap ActivityOf(tipBest) = {}
  BY TakenBackFor
<1>3. ASSUME NEW d \in Ancestors[tipBest'] \ {Genesis}, indexed'[d] = "whole" PROVE ActivityOf(d) \subseteq addressIndex'
  <2>1. d \in Ancestors[tipBest] \ {Genesis} /\ d \in Blocks /\ tipBest \in Ancestors[tipBest]
    BY AncestorsType
  <2>2. d # tipBest /\ indexed[d] = "whole"
    BY <1>1, <1>3, <2>1
  <2>3. ActivityOf(d) \cap ActivityOf(tipBest) = {}
    BY <2>1, <2>2, ActivityApart
  <2>4. ActivityOf(d) \subseteq addressIndex
    BY <2>1, <2>2 DEF XInv, ActivityInv, Active
  <2> QED BY <1>2, <2>3, <2>4
<1>4. ASSUME NEW e \in addressIndex' PROVE \E d \in Blocks \ {Genesis} : indexed'[d] # "none" /\ e \in ActivityOf(d)
  <2>1. PICK d \in Blocks \ {Genesis} : indexed[d] # "none" /\ e \in ActivityOf(d)
    BY <1>2 DEF XInv, ActivityInv
  <2>2. CASE d # tipBest
    BY <1>1, <2>1, <2>2
  <2>3. CASE d = tipBest
    <3>1. v # "none"
      BY <1>2, <2>1, <2>3
    <3> QED BY <1>1, <2>1, <2>3, <3>1
  <2> QED BY <2>2, <2>3
<1> QED BY <1>3, <1>4 DEF ActivityInv, Active

LEMMA DisconnectX ==
    ASSUME XInv, RInv', pc = "disconnected", block = tipBest, tipBest' = Parent[block], dbBest' = dbBest,
           TakenBack(2, block), indexed' = [indexed EXCEPT ![block] = "none"]
    PROVE  XInv'
<1>0. PICK p : p = Parent[tipBest]
  OBVIOUS
<1>1. /\ RInv /\ block = tipBest /\ tipBest \in Blocks \ {Genesis} /\ dbBest \in Blocks /\ p \in Blocks
      /\ Acceptable(CoinsOf[p], tipBest)
      /\ \A x \in TxsOf(tipBest) : CoinsOf[p][x] = Pruned
  <2>1. RInv /\ dbBest \in Blocks
    BY RInvFacts DEF XInv
  <2>2. /\ block \in Blocks \ {Genesis} /\ Parent[block] \in Blocks
        /\ NothingOverwritten(Below, block)
        /\ FitBefore(Below, block, Len(Vtx[block]) + 1, 1)
    BY <2>1, DisconnectFacts DEF Disconnecting
  <2>3. Acceptable(Below, block)
    BY <2>2, AcceptableParts
  <2>4. Below = CoinsOf[p]
    BY <1>0 DEF Below
  <2>5. \A x \in TxsOf(block) : Below[x] = Pruned
    BY <2>3 DEF Acceptable
  <2> QED BY <1>0, <2>1, <2>2, <2>3, <2>4, <2>5
<1>2. /\ Ancestors[tipBest] = Ancestors[p] \cup {tipBest} /\ tipBest \notin Ancestors[p]
      /\ Ancestors[p] \subseteq Blocks /\ Ancestors[dbBest] \subseteq Blocks
      /\ CoinsOf[tipBest] = Effect(CoinsOf[p], tipBest)
  <2>1. Ancestors[tipBest] = Ancestors[p] \cup {tipBest}
    BY <1>0, <1>1, AncestorsParent
  <2>2. Height[p] < Height[tipBest] /\ {Height[p], Height[tipBest]} \subseteq Nat
    BY <1>0, <1>1, HeightAssumption
  <2>3. tipBest \notin Ancestors[p]
    BY <1>1, <2>2, AncestorIsLower
  <2> QED BY <1>0, <1>1, <2>1, <2>3, AncestorsType, CoinsOfBlock
<1>3. \A d \in Blocks : indexed'[d] = IF d = tipBest THEN "none" ELSE indexed[d]
  BY <1>1 DEF XInv, IndexTypes
<1>4. /\ \A o \in AddressedOutpoints : ~Touches(tipBest, o) => addressUnspent'[o] = addressUnspent[o]
      /\ UNCHANGED <<spentIndex, timestampIndex, timestampBlock>>
  <2>1. 2 \in 0..2
    OBVIOUS
  <2> QED BY <2>1, TakenBackFor
<1>5. TimeInv' /\ IndexTypes'
  <2>1. Ancestors[tipBest'] \subseteq Ancestors[tipBest]
    BY <1>0, <1>2
  <2> QED BY <1>1, <1>4, <2>1, TimeKept
<1>6. Moved'
  BY <1>0, <1>1, <1>2, <1>3 DEF XInv, Moved
<1>7. ActivityInv'
  <2>1. 2 \in 0..2 /\ 2 > 0 /\ Ancestors[tipBest'] \subseteq Ancestors[tipBest]
    BY <1>0, <1>2
  <2> QED BY <1>1, <2>1, ActivityBack
<1>8. ASSUME NEW S \in SUBSET Blocks, tipBest \notin S, InStepOn(S, tipBest)' PROVE InStepOn(S, tipBest)
  BY <1>0, <1>2, <1>3, <1>8 DEF InStepOn
<1>9. UnspentInv'
  <2> SUFFICES ASSUME NEW o \in AddressedOutpoints, InStepOn(Touching(o), tipBest)'
               PROVE  Tells(o, CoinsOf[p][o[1]])'
    BY <1>0 DEF UnspentInv
  <2>1. o[1] \in Txs /\ o = <<o[1], o[2]>> /\ o[2] \in Outs[o[1]]
    BY AddressedType
  <2>2. CASE o[1] \in TxsOf(tipBest)
    <3>1. addressUnspent'[o] = Erased
      BY <2>2 DEF TakenBack, UnspentBefore
    <3>2. o[2] \notin CoinsOf[p][o[1]].outs
      BY <1>0, <1>1, <2>2 DEF Pruned
    <3> QED BY <3>1, <3>2 DEF Tells
  <2>3. CASE o[1] \notin TxsOf(tipBest) /\ o \in SpentIn(tipBest)
    <3>1. addressUnspent'[o] = undo[tipBest][o]
      BY <2>3 DEF TakenBack, UnspentBefore
    <3>2. o[2] \in CoinsOf[p][o[1]].outs /\ undo[tipBest][o] \in {0, CoinsOf[p][o[1]].height}
      BY <1>0, <1>1, <2>3, UndoTells
    <3> QED BY <3>1, <3>2 DEF Tells
  <2>4. CASE ~Touches(tipBest, o)
    <3>1. addressUnspent'[o] = addressUnspent[o]
      BY <1>4, <2>4
    <3>2. InStepOn(Touching(o), tipBest)
      <4>1. Touching(o) \in SUBSET Blocks /\ tipBest \notin Touching(o)
        BY <2>4 DEF Touching
      <4> QED BY <1>8, <4>1
    <3>3. Tells(o, CoinsOf[tipBest][o[1]])
      BY <3>2 DEF XInv, UnspentInv
    <3>4. SameFor(o, CoinsOf[p][o[1]], CoinsOf[tipBest][o[1]])
      BY <1>2, <2>1, <2>4, EffectOn
    <3> QED BY <3>1, <3>3, <3>4 DEF Tells, SameFor
  <2> QED BY <2>2, <2>3, <2>4 DEF Touches
<1>10. SpentInv'
  <2> SUFFICES ASSUME NEW o \in Outpoints, InStepOn(Spending(o), tipBest)', ~Respent(o),
                      NEW d \in Ancestors[p] \ {Genesis}, NEW x \in TxsOf(d), NEW k \in DOMAIN Vin[x],
                      Vin[x][k] = o
               PROVE  spentIndex'[o] = <<x, k, Height[d]>>
    BY <1>0 DEF SpentInv, Active
  <2>1. o \in SpentIn(d)
    BY DEF SpentIn, Items
  <2>2. o \notin SpentIn(tipBest)
    BY <1>0, <1>1, <2>1 DEF Respent
  <2>3. InStepOn(Spending(o), tipBest)
    <3>1. Spending(o) \in SUBSET Blocks /\ tipBest \notin Spending(o)
      BY <2>2 DEF Spending
    <3> QED BY <1>8, <3>1
  <2> QED BY <1>2, <1>4, <2>3 DEF XInv, SpentInv, Active
<1> QED BY <1>5, <1>6, <1>7, <1>9, <1>10 DEF XInv

LEMMA EraseFailsX ==
    ASSUME XInv, RInv', tipBest \in Blocks \ {Genesis}, UNCHANGED <<tipBest, dbBest>>,
           NEW n \in 0..1, TakenBack(n, tipBest), indexed' = [indexed EXCEPT ![tipBest] = "part"]
    PROVE  XInv'
<1>1. \A d \in Blocks : indexed'[d] = IF d = tipBest THEN "part" ELSE indexed[d]
  BY DEF XInv, IndexTypes
<1>2. /\ n \in 0..2 /\ dbBest \in Blocks /\ Ancestors[tipBest] \subseteq Blocks /\ Ancestors[dbBest] \subseteq Blocks
      /\ tipBest \in Ancestors[tipBest]
  BY RInvFacts, AncestorsType DEF XInv
<1>3. UNCHANGED <<addressUnspent, spentIndex, timestampIndex, timestampBlock>>
  BY DEF TakenBack
<1>4. TimeInv' /\ IndexTypes'
  BY <1>3, TimeKept
<1>5. Moved'
  BY <1>1, <1>2 DEF XInv, Moved
<1>6. ActivityInv'
  BY <1>2, ActivityBack
<1>7. ASSUME NEW S \in SUBSET Blocks, InStepOn(S, tipBest)' PROVE InStepOn(S, tipBest)
  <2>1. tipBest \notin S
    BY <1>1, <1>2, <1>7 DEF InStepOn
  <2> QED BY <1>1, <1>7, <2>1 DEF InStepOn
<1>8. UnspentInv'
  <2> SUFFICES ASSUME NEW o \in AddressedOutpoints, InStepOn(Touching(o), tipBest)'
               PROVE  Tells(o, CoinsOf[tipBest][o[1]])'
    BY DEF UnspentInv
  <2>1. InStepOn(Touching(o), tipBest)
    BY <1>7 DEF Touching
  <2>2. Tells(o, CoinsOf[tipBest][o[1]])
    BY <2>1 DEF XInv, UnspentInv
  <2> QED BY <1>3, <2>2 DEF Tells
<1>9. SpentInv'
  <2> SUFFICES ASSUME NEW o \in Outpoints, InStepOn(Spending(o), tipBest)', ~Respent(o),
                      NEW d \in Ancestors[tipBest] \ {Genesis}, NEW x \in TxsOf(d), NEW k \in DOMAIN Vin[x],
                      Vin[x][k] = o
               PROVE  spentIndex'[o] = <<x, k, Height[d]>>
    BY DEF SpentInv, Active
  <2>1. InStepOn(Spending(o), tipBest)
    BY <1>7 DEF Spending
  <2> QED BY <1>3, <2>1 DEF XInv, SpentInv, Active
<1> QED BY <1>4, <1>5, <1>6, <1>8, <1>9 DEF XInv

LEMMA InitXInv == IndexedInit => XInv
<1> SUFFICES ASSUME IndexedInit PROVE XInv
  OBVIOUS
<1>1. /\ RInv /\ tipBest = Genesis /\ dbBest = Genesis
      /\ addressIndex = {} /\ timestampIndex = {}
      /\ addressUnspent = [o \in AddressedOutpoints |-> Erased]
      /\ timestampBlock = [b \in Blocks |-> 0] /\ indexed = [b \in Blocks |-> "none"]
  BY InitRInv DEF IndexedInit, Init
<1>2. Ancestors[Genesis] = {Genesis} /\ Genesis \in Blocks
  BY AncestorsGenesis, BlocksAssumption
<1>3. IndexTypes /\ Moved /\ ActivityInv /\ SpentInv
  BY <1>1, <1>2 DEF IndexTypes, Moved, ActivityInv, SpentInv, Active
<1>4. UnspentInv
  <2> SUFFICES ASSUME NEW o \in AddressedOutpoints PROVE Tells(o, CoinsOf[Genesis][o[1]])
    BY <1>1 DEF UnspentInv
  <2>1. o[1] \in Txs
    BY AddressedType
  <2>2. CoinsOf[Genesis][o[1]].outs = {}
    BY <1>2, <2>1, CoinsOfBlock DEF Pruned, NoCoins
  <2> QED BY <1>1, <2>2 DEF Tells
<1>5. TimeInv
  BY <1>1, <1>2 DEF TimeInv, TimeRecords, HasTime
<1> QED BY <1>1, <1>3, <1>4, <1>5 DEF XInv

LEMMA NextXInv == XInv /\ [IndexedNext]_<<vars, indexes>> => XInv'
<1> SUFFICES ASSUME XInv, [IndexedNext]_<<vars, indexes>> PROVE XInv'
  OBVIOUS
<1>1. RInv /\ RInv'
  BY NextRInv, IndexedIsCoinsStep DEF XInv
<1>2. CASE OtherStep /\ UNCHANGED indexes
  <2>1. UNCHANGED records
    BY <1>2 DEF indexes, records
  <2>2. CASE FlushTip
    BY <1>1, <2>1, <2>2, FlushX DEF FlushTip
  <2>3. CASE ~FlushTip
    <3>1. UNCHANGED <<dbBest, tipBest>>
      BY <1>2, <2>3 DEF OtherStep, BeginConnect, CheckBIP30, CheckInputs, SpendInput, AddOutputs,
                        BeginDisconnect, RemoveOutputs, ApplyTxInUndo, Read, Uncache, layers
    <3> QED BY <1>1, <2>1, <3>1, QuietX
  <2> QED BY <2>2, <2>3
<1>3. CASE IndexedRestart
  <2>1. tipBest' = dbBest /\ UNCHANGED <<dbBest, records>>
    BY <1>3 DEF IndexedRestart, Restart, records
  <2> QED BY <1>1, <2>1, RestartX
<1>4. CASE IndexedEndConnect
  <2>1. EndConnect /\ pc = "connected" /\ UNCHANGED dbBest /\ block \in Blocks \ {Genesis}
    BY <1>1, <1>4, RInvFacts DEF IndexedEndConnect, EndConnect
  <2>2. Parent[block] = tipBest /\ Acceptable(CoinsOf[tipBest], block)
    BY <1>1, <2>1, ConnectedAcceptable
  <2>3. CASE tipBest' = block
    <3>1. Written(5, block) /\ indexed' = [indexed EXCEPT ![block] = "whole"]
      BY <1>4, <2>3 DEF IndexedEndConnect
    <3> QED BY <1>1, <2>1, <2>2, <2>3, <3>1, ConnectX
  <2>4. CASE tipBest' # block
    <3>1. UNCHANGED <<dbBest, tipBest, records>>
      BY <1>4, <2>1, <2>4 DEF IndexedEndConnect, EndConnect, FlushView, indexes, records
    <3> QED BY <1>1, <3>1, QuietX
  <2> QED BY <2>3, <2>4
<1>5. CASE IndexWriteFails
  <2>1. /\ pc = "connected" /\ UNCHANGED <<tipBest, dbBest>>
        /\ indexed' = [indexed EXCEPT ![block] = "part"]
    BY <1>5 DEF IndexWriteFails
  <2>2. PICK n \in 0..5 : Written(n, block)
    <3>1. PICK n \in 0..4 : Written(n, block)
      BY <1>5 DEF IndexWriteFails
    <3>2. n \in 0..5
      OBVIOUS
    <3> QED BY <3>1, <3>2
  <2>3. block \in Blocks \ {Genesis} /\ Parent[block] = tipBest
    BY <1>1, <2>1, RInvFacts, ConnectedAcceptable
  <2> QED BY <1>1, <2>1, <2>2, <2>3, WriteFailsX
<1>6. CASE IndexedEndDisconnect
  <2>1. /\ EndDisconnect /\ pc = "disconnected" /\ dbBest' = dbBest
        /\ TakenBack(2, block) /\ indexed' = [indexed EXCEPT ![block] = "none"]
    BY <1>6 DEF IndexedEndDisconnect, EndDisconnect
  <2>2. tipBest' = Parent[block] /\ block = tipBest
    BY <1>1, <2>1, EndDisconnectRInv
  <2> QED BY <1>1, <2>1, <2>2, DisconnectX
<1>7. CASE IndexEraseFails
  <2>1. /\ pc = "disconnected" /\ UNCHANGED <<tipBest, dbBest>>
        /\ indexed' = [indexed EXCEPT ![block] = "part"]
    BY <1>7 DEF IndexEraseFails
  <2>2. PICK n \in 0..1 : TakenBack(n, block)
    BY <1>7 DEF IndexEraseFails
  <2>3. tipBest \in Blocks \ {Genesis} /\ block = tipBest
    BY <1>1, <2>1, DisconnectFacts DEF Disconnecting
  <2> QED BY <1>1, <2>1, <2>2, <2>3, EraseFailsX
<1>8. CASE UNCHANGED <<vars, indexes>>
  <2>1. UNCHANGED <<dbBest, tipBest, records>>
    BY <1>8 DEF vars, layers, indexes, records
  <2> QED BY <1>1, <2>1, QuietX
<1> QED BY <1>2, <1>3, <1>4, <1>5, <1>6, <1>7, <1>8 DEF IndexedNext

LEMMA XInvExact == XInv => IndexesExact
<1> SUFFICES ASSUME XInv PROVE IndexesExact
  OBVIOUS
<1>1. tipBest \in Blocks /\ IndexTypes /\ Active \subseteq Blocks \ {Genesis}
  BY RInvFacts, AncestorsType DEF XInv, Active
<1>2. AddressIndexExact
  <2> SUFFICES ASSUME InStep PROVE addressIndex = UNION {ActivityOf(b) : b \in Active}
    BY DEF AddressIndexExact
  <2>1. \A b \in Active : ActivityOf(b) \subseteq addressIndex
    BY <1>1 DEF XInv, ActivityInv, InStep
  <2>2. ASSUME NEW e \in addressIndex PROVE \E b \in Active : e \in ActivityOf(b)
    <3>1. PICK b \in Blocks \ {Genesis} : indexed[b] # "none" /\ e \in ActivityOf(b)
      BY DEF XInv, ActivityInv
    <3> QED BY <3>1 DEF InStep
  <2> QED BY <2>1, <2>2
<1>3. ASSUME InStep, NEW S \in SUBSET Blocks PROVE InStepOn(S, tipBest)
  BY <1>3 DEF InStep, InStepOn, Active
<1>4. UnspentIndexExact
  <2> SUFFICES ASSUME InStep, NEW o \in AddressedOutpoints
               PROVE  addressUnspent[o] # Erased <=> o[2] \in CoinsOf[tipBest][o[1]].outs
    BY DEF UnspentIndexExact
  <2>1. InStepOn(Touching(o), tipBest)
    BY <1>3 DEF Touching
  <2>2. Tells(o, CoinsOf[tipBest][o[1]])
    BY <2>1 DEF XInv, UnspentInv
  <2>3. CoinsOf[tipBest][o[1]].height \in Nat
    BY <1>1, AddressedType, CoinsOfCanonical DEF Canonical, CoinsType
  <2> QED BY <2>2, <2>3 DEF Tells, Erased
<1>5. SpentIndexComplete
  <2> SUFFICES ASSUME InStep, NEW b \in Active, NEW x \in TxsOf(b), NEW k \in DOMAIN Vin[x], ~Respent(Vin[x][k])
               PROVE  spentIndex[Vin[x][k]] = <<x, k, Height[b]>>
    BY DEF SpentIndexComplete
  <2>1. x \in Txs
    BY <1>1, SeqOfBlock DEF TxsOf, Items
  <2>2. Vin[x][k] \in Outpoints
    BY <2>1 DEF Outpoints, Items
  <2>3. InStepOn(Spending(Vin[x][k]), tipBest)
    BY <1>3 DEF Spending
  <2> QED BY <2>2, <2>3 DEF XInv, SpentInv
<1>6. TimestampsOrdered
  <2> SUFFICES ASSUME NEW b \in Active
               PROVE  /\ {e \in timestampIndex : e[2] = b} = {<<timestampBlock[b], b>>}
                      /\ timestampBlock[b] > timestampBlock[Parent[b]]
                      /\ timestampBlock[b] >= Time[b]
    BY DEF TimestampsOrdered
  <2>1. b \in Blocks \ {Genesis} /\ timestampBlock[b] # 0
    BY <1>1 DEF XInv, TimeInv, HasTime, Active
  <2>2. timestampBlock[b] = LogicalTS(b) /\ <<timestampBlock[b], b>> \in timestampIndex
    BY <2>1 DEF XInv, TimeInv, TimeRecords
  <2>3. \A e \in timestampIndex : e[2] = b => e = <<LogicalTS(b), b>>
    BY DEF XInv, TimeInv, TimeRecords
  <2> QED BY <1>1, <2>1, <2>2, <2>3, LogicalTSType
<1> QED BY <1>2, <1>4, <1>5, <1>6 DEF IndexesExact

-----------------------------------------------------------------------------
(* The theorems *)

\* Types of the caches and of the position in ConnectBlock and DisconnectBlock.
\* The loops never run past the transactions or the inputs of a block.
THEOREM TypesHold == ErrorSpec => []TypeOK
<1>1. IInv => TypeOK
  BY DEF IInv, Types
<1> QED BY InitIInv, NextKeeps, <1>1, PTL DEF ErrorSpec

\* DIRTY and FRESH of pcoinsTip and of the views tell the truth, for all blocks
\* and transactions and through every order of connections, disconnections,
\* rejections, evictions, flushes, failed flushes and restarts; in particular
\* ModifyNewCoins, which does not look below, is safe behind the BIP30 check.
THEOREM LayersAreSound == ErrorSpec => []LayersSound
<1>1. IInv => LayersSound
  BY DEF IInv
<1> QED BY InitIInv, NextKeeps, <1>1, PTL DEF ErrorSpec

\* The assertion in UpdateCoins never fires: HaveInputs has seen every output
\* that is spent, and no earlier input of the transaction has taken it.
THEOREM SpendsAreAvailable == ErrorSpec => []SpendsAvailable
<1>1. IInv => SpendsAvailable
  BY DEF IInv, Types, TypeOK, ChecksPassed, InputsLeft, IsAvailable, SpendsAvailable
<1> QED BY InitIInv, NextKeeps, <1>1, PTL DEF ErrorSpec

\* The three layers implement one set of unspent outputs: for all blocks and
\* transactions, every step of the code connects or disconnects a whole block,
\* saves, goes back to what was saved, or shows no change.
THEOREM CachesImplementUtxoSet == IndexedSpec => ImplementsUtxoSet
<1>1. IndexedInit => RInv /\ Utxo!Init
  BY InitRInv DEF IndexedInit
<1>2. RInv /\ [IndexedNext]_<<vars, indexes>> => RInv' /\ [Utxo!Next]_(Utxo!vars)
  BY NextRInv, IndexedIsCoinsStep DEF Implements
<1> QED BY <1>1, <1>2, PTL DEF IndexedSpec, ImplementsUtxoSet, Utxo!Spec

\* Undo data exists for every block of the active chain and always fits: no
\* DisconnectBlock finds the coins unclean, whatever the blocks contain.
THEOREM DisconnectsAreClean == IndexedSpec => []DisconnectClean
<1>1. RInv => DisconnectClean
  BY DEF RInv, DisconnectInv, ChainsInv, ChainFits, DisconnectClean
<1>2. IndexedInit => RInv
  BY InitRInv DEF IndexedInit
<1>3. RInv /\ [IndexedNext]_<<vars, indexes>> => RInv'
  BY NextRInv, IndexedIsCoinsStep
<1> QED BY <1>1, <1>2, <1>3, PTL DEF IndexedSpec

\* A block is rejected by BIP30 or for its inputs only if the unspent outputs of
\* the chain, computed from its blocks alone, do not admit it; acceptance of
\* exactly the others is CachesImplementUtxoSet.
THEOREM RejectionsAreJustified == IndexedSpec => RejectionJustified
<1>1. IndexedInit => RInv
  BY InitRInv DEF IndexedInit
<1>2. RInv /\ [IndexedNext]_<<vars, indexes>> => RInv'
  BY NextRInv, IndexedIsCoinsStep
<1>3. RInv /\ [IndexedNext]_<<vars, indexes>> =>
        [(pc = "bip30" \/ pc = "inputs") /\ pc' = "idle" /\ block' = block
             => ~Acceptable(CoinsOf[tipBest], block)]_vars
  BY StepJustified, IndexedIsCoinsStep
<1> QED BY <1>1, <1>2, <1>3, PTL DEF IndexedSpec, RejectionJustified

\* What the RPCs of all indexes tell is right whenever the indexes are in step
\* with the chain, for all blocks, transactions and times: however many blocks
\* were reorganised away, however often a crash set the coins back below the
\* indexes or an exception left a block half written, once every block is put on
\* or taken off again nothing wrong is left behind.
THEOREM IndexesStayExact == IndexedSpec => []IndexesExact
<1> QED BY InitXInv, NextXInv, XInvExact, PTL DEF IndexedSpec
=============================================================================
