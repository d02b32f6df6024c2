--------------------------- MODULE BlockContents ---------------------------
(***************************************************************************)
(* What blocks contain, as far as the set of unspent outputs depends on it, *)
(* and that set as a function of a chain.  A transaction is its txid.       *)
(*                                                                          *)
(* The coins of a txid (CCoins) are the height of its block, standing also  *)
(* for fCoinBase and nVersion, and its unspent outputs.  All spent coins    *)
(* (IsPruned) are the same value, as in CCoins::operator==.                 *)
(***************************************************************************)
EXTENDS BlockTree, Sequences

CONSTANTS
    Txs,     \* every transaction of some block
    Vtx,     \* the transactions of a block in order, the coinbase first
    Vin,     \* the outpoints <<txid, n>> a transaction spends, in order
    Outs     \* the spendable outputs of a transaction

\* CheckBlock and CheckTransaction: the first transaction and no other is a
\* coinbase, no transaction has an input twice, no block a transaction twice.
ASSUME VtxAssumption ==
    /\ Vtx \in [Blocks -> Seq(Txs)]
    /\ \A b \in Blocks \ {Genesis} : Len(Vtx[b]) > 0
    /\ \A b \in Blocks : \A k, l \in DOMAIN Vtx[b] : k # l => Vtx[b][k] # Vtx[b][l]
ASSUME OutsAssumption == Outs \in [Txs -> SUBSET Nat]
ASSUME VinAssumption ==
    /\ Vin \in [Txs -> Seq(Txs \X Nat)]
    /\ \A x \in Txs : \A k, l \in DOMAIN Vin[x] : k # l => Vin[x][k] # Vin[x][l]
    /\ \A b \in Blocks : \A k \in DOMAIN Vtx[b] : Vin[Vtx[b][k]] = <<>> <=> k = 1

CoinsType == [height : Nat, outs : SUBSET Nat]
Pruned    == [height |-> 0, outs |-> {}]

\* CCoins of height h with the outputs S, after Cleanup
Coin(h, S) == IF S = {} THEN Pruned ELSE [height |-> h, outs |-> S]

\* CCoins::FromTx, including ClearUnspendable
FromTx(x, b) == Coin(Height[b], Outs[x])

-----------------------------------------------------------------------------
(* The reference: what a chain leaves unspent, without looking at the order  *)
(* in which the code visits transactions and inputs.                         *)

Items(s)   == {s[k] : k \in DOMAIN s}
TxsOf(b)   == Items(Vtx[b])
SpentIn(b) == UNION {Items(Vin[x]) : x \in TxsOf(b)}

\* The coins c after block b
Effect(c, b) ==
    [x \in Txs |->
        LET left == {n \in IF x \in TxsOf(b) THEN Outs[x] ELSE c[x].outs : <<x, n>> \notin SpentIn(b)}
        IN  Coin(IF x \in TxsOf(b) THEN Height[b] ELSE c[x].height, left)]

\* Block b may follow coins c: it overwrites nothing unspent (BIP30), and each
\* input is an output of an earlier transaction that no other input spends.
Acceptable(c, b) ==
    /\ \A x \in TxsOf(b) : c[x] = Pruned
    /\ \A k \in DOMAIN Vtx[b] : \A m \in DOMAIN Vin[Vtx[b][k]] :
          LET o == Vin[Vtx[b][k]][m] IN
          /\ \/ o[2] \in c[o[1]].outs
             \/ \E l \in 1..(k - 1) : Vtx[b][l] = o[1] /\ o[2] \in Outs[o[1]]
          /\ \A l \in 1..(k - 1) : \A r \in DOMAIN Vin[Vtx[b][l]] : Vin[Vtx[b][l]][r] # o

\* The unspent outputs of the chain that ends in b
CoinsOf[b \in Blocks] ==
    IF b = Genesis THEN [x \in Txs |-> Pruned] ELSE Effect(CoinsOf[Parent[b]], b)
=============================================================================
