------------------------------- MODULE Mempool -------------------------------
(***************************************************************************)
(* The memory pool (CTxMemPool, txmempool.cpp) and what main.cpp does to it: *)
(* AcceptToMemoryPool with replacement, expiry and trimming, and the blocks  *)
(* that ActivateBestChainStep and InvalidateBlock connect and disconnect.    *)
(*                                                                           *)
(* Everything happens under cs_main.  One action is one accepted             *)
(* transaction, one connected block, or one step of DisconnectTip: a         *)
(* transaction of the block that goes back to the pool, and the repair of    *)
(* the links afterwards.                                                     *)
(*                                                                           *)
(* All transactions have the same size, 1, and a fee.  The coins are those   *)
(* of the chain, which is what CoinsCache promises.  A transaction may be    *)
(* turned down at any time by a rule that is not modelled (standardness,     *)
(* scripts, priority, rolling minimum fee).                                  *)
(***************************************************************************)
EXTENDS BlockContents, FiniteSetsExt, SequencesExt

CONSTANTS
    Fee,                \* nFee
    LockTime,           \* nLockTime, a height
    OptIn,              \* transactions with an nSequence that allows replacement
    Maturity,           \* COINBASE_MATURITY
    LimitAncestors,     \* -limitancestorcount
    LimitDescendants,   \* -limitdescendantcount
    MaxVisit,           \* maxDescendantsToVisit of UpdateForDescendants
    MaxReplace,         \* maxDescendantsToVisit of AcceptToMemoryPoolWorker
    RelayFee,           \* minRelayTxFee for one transaction
    MaxPool,            \* -maxmempool, in transactions
    Prioritised,        \* bound: arguments of prioritisetransaction,
    FeeDelta,           \* each with this fee, once until it is mined
    None

ASSUME FeeAssumption == Fee \in [Txs -> Nat] /\ LockTime \in [Txs -> Nat]
ASSUME LimitsAssumption ==
    /\ {Maturity, LimitAncestors, LimitDescendants, MaxVisit, MaxReplace, RelayFee} \subseteq Nat
    /\ MaxPool \in Nat \ {0} /\ FeeDelta \in Int
ASSUME NoneAssumption == None \notin Txs /\ OptIn \cup Prioritised \subseteq Txs

VARIABLES
    mempool,       \* see EmptyPool
    mapDeltas,     \* the fee part
    tip,           \* chainActive.Tip()
    step,          \* idle, or what ActivateBestChainStep or InvalidateBlock is doing
    next,          \* position in block.vtx, in DisconnectTip
    vHashUpdate,
    cut            \* history: a resurrected transaction left the pool before it was linked

vars == <<mempool, mapDeltas, tip, step, next, vHashUpdate, cut>>

\* idle; resurrect: the loop of DisconnectTip; reorg: after it
Steps == {"idle", "resurrect", "reorg"}

Prevouts(x) == Items(Vin[x])
Prevs(x)    == {o[1] : o \in Prevouts(x)}
IsCoinBase(x) == Vin[x] = <<>>
Outpoint    == UNION {Prevouts(x) : x \in Txs}

\* mapTx as a set; mapLinks; mapNextTx; nCountWithDescendants (0: dirty);
\* nModFeesWithDescendants.  Nothing is kept for a transaction not in mapTx.
EmptyPool ==
    [txs |-> {},
     parents |-> [x \in Txs |-> {}], children |-> [x \in Txs |-> {}],
     mapNextTx |-> [o \in Outpoint |-> None],
     count |-> [x \in Txs |-> 0], fees |-> [x \in Txs |-> 0]]

\* pcoinsTip: DisconnectTip moves chainActive only after its loop.
Coins == CoinsOf[IF step = "resurrect" THEN Parent[tip] ELSE tip]

SpendHeight == IF step = "resurrect" THEN Height[tip] ELSE Height[tip] + 1

-----------------------------------------------------------------------------
(* CTxMemPool *)

\* S and what can be reached from it along one direction of mapLinks
Reach(m, S, links) ==
    {y \in m.txs : \A T \in SUBSET m.txs : S \subseteq T /\ (\A z \in T : links[z] \subseteq T) => y \in T}

CalculateDescendants(m, S) == Reach(m, S, m.children)

\* CalculateMemPoolAncestors, along mapLinks only and with fSearchForParents
LinkedAncestors(m, x) == Reach(m, m.parents[x], m.parents)
PoolParents(m, x)     == Prevs(x) \cap m.txs
PoolAncestors(m, x)   == Reach(m, PoolParents(m, x), m.parents)

ModFee(x) == Fee[x] + mapDeltas[x]

ModFees(S) == MapThenSumSet(ModFee, S)

\* Mutant of WalksBack: only the parents are told.
WalksBackOne(m, x) == m.parents[x]

\* The entries whose descendant state changes when x is removed
WalksBack(m, x) == LinkedAncestors(m, x)

\* UpdateForRemoveFromMempool, then removeUnchecked for each.  UpdateState leaves
\* dirty entries alone.
RemoveStaged(m, S) ==
    LET back    == [x \in S |-> WalksBack(m, x)]
        gone(y) == {x \in S : y \in back[x]}
        left    == m.txs \ S
    IN  [txs |-> left,
         parents   |-> [y \in Txs |-> IF y \in left THEN {p \in m.parents[y] : p \in S => y \notin m.children[p]} ELSE {}],
         children  |-> [y \in Txs |-> IF y \in left THEN {c \in m.children[y] : c \in S => y \notin m.parents[c]} ELSE {}],
         mapNextTx |-> [o \in Outpoint |-> IF \E x \in S : o \in Prevouts(x) THEN None ELSE m.mapNextTx[o]],
         count     |-> [y \in Txs |-> IF y \notin left \/ m.count[y] = 0 THEN 0
                                      ELSE m.count[y] - Cardinality(gone(y))],
         fees      |-> [y \in Txs |-> IF y \notin left THEN 0
                                      ELSE IF m.count[y] = 0 THEN m.fees[y]
                                      ELSE m.fees[y] - ModFees(gone(y))]]

addUnchecked(m, x, ancestors) ==
    LET tracked == {a \in ancestors : m.count[a] # 0}
    IN  [txs |-> m.txs \cup {x},
         parents   |-> [m.parents EXCEPT ![x] = PoolParents(m, x)],
         children  |-> [y \in Txs |-> IF y \in PoolParents(m, x) THEN m.children[y] \cup {x} ELSE m.children[y]],
         mapNextTx |-> [o \in Outpoint |-> IF o \in Prevouts(x) THEN x ELSE m.mapNextTx[o]],
         count     |-> [y \in Txs |-> IF y = x THEN 1 ELSE IF y \in tracked THEN m.count[y] + 1 ELSE m.count[y]],
         fees      |-> [y \in Txs |-> IF y = x THEN ModFee(x)
                                      ELSE IF y \in tracked THEN m.fees[y] + ModFee(x) ELSE m.fees[y]]]

\* Mutant of Doomed: children of a transaction that is not in the pool stay.
DoomedIfPresent(m, x) == {x} \cap m.txs

\* The transactions remove(x, removed, true) starts from
Doomed(m, x) ==
    IF x \in m.txs THEN {x}
    ELSE {m.mapNextTx[o] : o \in {p \in Outpoint : p[1] = x}} \ {None}

removeRecursive(m, x) == RemoveStaged(m, CalculateDescendants(m, Doomed(m, x)))

\* removeConflicts for one input o, with ClearPrioritisation
removeConflict(acc, o) ==
    LET y == acc.m.mapNextTx[o]
    IN  IF y = None THEN acc ELSE [m |-> removeRecursive(acc.m, y), clear |-> acc.clear \cup {y}]

removeConflicts(acc, x) ==
    LET after[n \in 0..Len(Vin[x])] == IF n = 0 THEN acc ELSE removeConflict(after[n - 1], Vin[x][n])
    IN  after[Len(Vin[x])]

\* removeForBlock: each transaction in the order of the block
Mined(acc, x) ==
    removeConflicts([m |-> RemoveStaged(acc.m, {x} \cap acc.m.txs), clear |-> acc.clear \cup {x}], x)

removeForBlock(m, b) ==
    LET after[n \in 0..Len(Vtx[b])] ==
            IF n = 0 THEN [m |-> m, clear |-> {}] ELSE Mined(after[n - 1], Vtx[b][n])
    IN  after[Len(Vtx[b])]

\* CheckFinalTx: chainActive.Height() is behind pcoinsTip in DisconnectTip.
CheckFinalTx(x) == LockTime[x] <= Height[tip]

Immature(o) == IsCoinBase(o[1]) /\ SpendHeight - Coins[o[1]].height < Maturity

\* Mutant of Stale: forgets the height of coinbases.
StaleIfUnspendable(m, x) ==
    ~CheckFinalTx(x) \/ \E o \in Prevouts(x) : o[1] \notin m.txs /\ Coins[o[1]] = Pruned

\* transactionsToRemove of removeForReorg; only spenders of coinbases are looked
\* at again.
Stale(m, x) ==
    \/ ~CheckFinalTx(x)
    \/ /\ \E p \in Prevs(x) : IsCoinBase(p)
       /\ \E o \in Prevouts(x) : o[1] \notin m.txs /\ (Coins[o[1]] = Pruned \/ Immature(o))

\* removeRecursive for each of S
RemoveAll(m, S) ==
    LET after[T \in SUBSET S] ==
            IF T = {} THEN m ELSE LET x == CHOOSE y \in T : TRUE IN removeRecursive(after[T \ {x}], x)
    IN  after[S]

removeForReorg(m) == RemoveAll(m, {x \in m.txs : Stale(m, x)})

\* CompareTxMemPoolEntryByDescendantScore, as fee and size; a dirty entry has its own
\* size.
Score(m, x) ==
    IF m.count[x] # 0 /\ m.fees[x] > ModFee(x) * m.count[x] THEN <<m.fees[x], m.count[x]>> ELSE <<ModFee(x), 1>>

\* What TrimToSize may remove first; entry times, which decide ties, are not kept.
Worst(m) ==
    {x \in m.txs : \A y \in m.txs : Score(m, x)[1] * Score(m, y)[2] <= Score(m, y)[1] * Score(m, x)[2]}

\* TrimToSize.  At most one transaction is above the limit, so one package ends
\* the loop.
TrimToSize(m) ==
    IF Cardinality(m.txs) <= MaxPool THEN {m}
    ELSE {RemoveStaged(m, CalculateDescendants(m, {w})) : w \in Worst(m)}

\* Expire and TrimToSize; the transactions in young entered just now.
LimitMempoolSize(m, young) ==
    UNION {TrimToSize(RemoveStaged(m, CalculateDescendants(m, old))) : old \in SUBSET (m.txs \ young)}

-----------------------------------------------------------------------------
(* AcceptToMemoryPoolWorker *)

\* setConflicts
Conflicts(m, x) == {m.mapNextTx[o] : o \in Prevouts(x)} \ {None}

HaveCoins(m, x) == x \in m.txs \/ Coins[x] # Pruned

\* view.HaveInputs; a transaction of the pool offers all its outputs.
HaveInput(m, o) == o[2] \in IF o[1] \in m.txs THEN Outs[o[1]] ELSE Coins[o[1]].outs

\* The checks before the inputs are looked up
MayLookUp(m, x) ==
    /\ ~IsCoinBase(x) /\ CheckFinalTx(x) /\ x \notin m.txs
    /\ Conflicts(m, x) \subseteq OptIn
    /\ Coins[x] = Pruned

\* pfMissingInputs is set
MissingInputs(m, x) == MayLookUp(m, x) /\ \E p \in Prevs(x) : ~HaveCoins(m, p)

\* Mutant of PaysMore: the transactions that go too are not counted.
PaysMoreThanEach(m, x) == \A y \in Conflicts(m, x) : m.count[y] # 0 /\ ModFee(x) > ModFee(y)

\* The rules of replacement
PaysMore(m, x) ==
    LET direct == Conflicts(m, x)
        all    == CalculateDescendants(m, direct)
    IN  /\ \A y \in direct : m.count[y] # 0 /\ ModFee(x) > ModFee(y)
        /\ MapThenSumSet(LAMBDA y : m.count[y], direct) <= MaxReplace
        /\ \A p \in PoolParents(m, x) : \E y \in direct : p \in Prevs(y)
        /\ ModFee(x) - ModFees(all) >= RelayFee

\* No ancestor would be replaced.
Apart(m, x) == PoolAncestors(m, x) \cap Conflicts(m, x) = {}

\* All modelled checks pass.
Admissible(m, x) ==
    /\ MayLookUp(m, x)
    /\ \A o \in Prevouts(x) : HaveInput(m, o) /\ ~Immature(o)
    /\ Cardinality(PoolAncestors(m, x)) < LimitAncestors
    /\ \A a \in PoolAncestors(m, x) : m.count[a] < LimitDescendants
    /\ Apart(m, x)
    /\ Conflicts(m, x) # {} => PaysMore(m, x)

\* The pool with x, before it is limited
Entered(m, x) ==
    addUnchecked(RemoveStaged(m, CalculateDescendants(m, Conflicts(m, x))), x, PoolAncestors(m, x))

-----------------------------------------------------------------------------
(* Actions *)

\* A transaction from the wallet or sendrawtransaction enters the pool, from
\* which it may be trimmed again at once ("mempool full").
AcceptToMemoryPool(x) ==
    /\ step = "idle"
    /\ Admissible(mempool, x)
    /\ mempool' \in LimitMempoolSize(Entered(mempool, x), {x})
    /\ UNCHANGED <<mapDeltas, tip, step, next, vHashUpdate, cut>>

PrioritiseTransaction(x) ==
    /\ step = "idle" /\ x \in Prioritised /\ mapDeltas[x] = 0
    /\ mapDeltas' = [mapDeltas EXCEPT ![x] = FeeDelta]
    /\ mempool' =
          IF x \notin mempool.txs THEN mempool
          ELSE [mempool EXCEPT !.fees =
                   [y \in Txs |-> IF y = x \/ (y \in LinkedAncestors(mempool, x) /\ mempool.count[y] # 0)
                                   THEN mempool.fees[y] + FeeDelta ELSE mempool.fees[y]]]
    /\ UNCHANGED <<tip, step, next, vHashUpdate, cut>>

ConnectTip(b) ==
    /\ step \in {"idle", "reorg"}
    /\ b # Genesis /\ Parent[b] = tip /\ Acceptable(Coins, b)
    /\ LET r == removeForBlock(mempool, b)
       IN  /\ mempool' = r.m
           /\ mapDeltas' = [x \in Txs |-> IF x \in r.clear THEN 0 ELSE mapDeltas[x]]
    /\ tip' = b
    /\ UNCHANGED <<step, next, vHashUpdate, cut>>

\* DisconnectTip up to its loop
DisconnectTip ==
    /\ step \in {"idle", "reorg"}
    /\ tip # Genesis
    /\ step' = "resurrect" /\ next' = 1 /\ vHashUpdate' = <<>>
    /\ UNCHANGED <<mempool, mapDeltas, tip, cut>>

\* One turn of the loop: the transaction is accepted and stays, is accepted and
\* trimmed, or is turned down.
Resurrect ==
    /\ step = "resurrect" /\ next <= Len(Vtx[tip])
    /\ LET x     == Vtx[tip][next]
           young == {x} \cup ToSet(vHashUpdate)
       IN  \/ /\ Admissible(mempool, x)
              /\ \E m \in LimitMempoolSize(Entered(mempool, x), young) :
                    /\ mempool' = IF x \in m.txs THEN m ELSE removeRecursive(m, x)
                    /\ vHashUpdate' = IF x \in m.txs THEN Append(vHashUpdate, x) ELSE vHashUpdate
           \/ mempool' = removeRecursive(mempool, x) /\ UNCHANGED vHashUpdate
    /\ next' = next + 1
    /\ cut' = (cut \/ ~(ToSet(vHashUpdate) \subseteq mempool'.txs))
    /\ UNCHANGED <<mapDeltas, tip, step>>

\* UpdateChild and UpdateParent for the children of x outside the block
Linked(m, x, block) ==
    LET kids == {m.mapNextTx[o] : o \in {p \in Outpoint : p[1] = x}} \ ({None} \cup block)
    IN  [m EXCEPT !.children[x] = @ \cup kids,
                  !.parents = [y \in Txs |-> IF y \in kids THEN m.parents[y] \cup {x} ELSE m.parents[y]]]

\* Descendants of x that its descendant state does not include
Uncounted(m, x, block) == CalculateDescendants(m, {x}) \ ({x} \cup block)

\* UpdateForDescendants; x becomes dirty if a descendant is, or if there are too
\* many to visit.  The cache of descendants only saves work.
UpdateForDescendants(m, x, block) ==
    LET more  == Uncounted(m, x, block)
        dirty == \/ \E y \in CalculateDescendants(m, {x}) \ {x} : m.count[y] = 0
                 \/ Cardinality(more \ m.children[x]) > MaxVisit
    IN  [m EXCEPT !.count[x] = IF dirty THEN 0 ELSE @ + Cardinality(more),
                  !.fees[x]  = IF dirty THEN ModFee(x) ELSE @ + ModFees(more)]

Updated(m, x, block) == IF x \in m.txs THEN UpdateForDescendants(Linked(m, x, block), x, block) ELSE m

\* Backwards, from the last transaction of the block
UpdateTransactionsFromBlock(m, s) ==
    LET after[n \in 0..Len(s)] == IF n = 0 THEN m ELSE Updated(after[n - 1], s[Len(s) + 1 - n], ToSet(s))
    IN  after[Len(s)]

\* The rest of DisconnectTip
Relink ==
    /\ step = "resurrect" /\ next > Len(Vtx[tip])
    /\ mempool' = UpdateTransactionsFromBlock(mempool, vHashUpdate)
    /\ tip' = Parent[tip]
    /\ step' = "reorg" /\ next' = 1 /\ vHashUpdate' = <<>>
    /\ UNCHANGED <<mapDeltas, cut>>

\* The end of ActivateBestChainStep
AfterReorg(m) == LimitMempoolSize(removeForReorg(m), {})

\* The end of InvalidateBlock
AfterInvalidate(m) == {removeForReorg(l) : l \in LimitMempoolSize(m, {})}

EndReorg ==
    /\ step = "reorg"
    /\ mempool' \in AfterReorg(mempool) \cup AfterInvalidate(mempool)
    /\ step' = "idle"
    /\ UNCHANGED <<mapDeltas, tip, next, vHashUpdate, cut>>

Init ==
    /\ mempool = EmptyPool
    /\ mapDeltas = [x \in Txs |-> 0]
    /\ tip = Genesis
    /\ step = "idle" /\ next = 1 /\ vHashUpdate = <<>>
    /\ cut = FALSE

Next ==
    \/ \E x \in Txs : AcceptToMemoryPool(x) \/ PrioritiseTransaction(x)
    \/ \E b \in Blocks : ConnectTip(b)
    \/ DisconnectTip \/ Resurrect \/ Relink \/ EndReorg

Spec == Init /\ [][Next]_vars

-----------------------------------------------------------------------------
(* Properties *)

\* Types; the pool never holds more than -maxmempool allows, and nothing is kept
\* for a transaction that left.  What an entry says of its descendants is typed by
\* DescendantStateExact.
TypeOK ==
    /\ mempool.txs \subseteq Txs /\ Cardinality(mempool.txs) <= MaxPool
    /\ mempool.parents \in [Txs -> SUBSET mempool.txs]
    /\ mempool.children \in [Txs -> SUBSET mempool.txs]
    /\ mempool.mapNextTx \in [Outpoint -> mempool.txs \cup {None}]
    /\ \A x \in Txs \ mempool.txs :
          mempool.parents[x] = {} /\ mempool.children[x] = {} /\ mempool.count[x] = 0
    /\ mapDeltas \in [Txs -> {0, FeeDelta}]
    /\ tip \in Blocks /\ step \in Steps /\ next \in 1..(Len(Vtx[tip]) + 1)
    /\ cut \in BOOLEAN

\* CTxMemPool::check: every input is an output of a transaction in the pool or
\* an unspent output of the chain, whenever cs_main is free.
InputsAvailable == step = "idle" => \A x \in mempool.txs : \A o \in Prevouts(x) : HaveInput(mempool, o)

\* The same, as long as DisconnectTip has not trimmed a transaction it had put
\* back: children of that one are not yet linked to it and stay.
InputsAvailableUnlessCut == ~cut => InputsAvailable

\* No two transactions of the pool spend the same output, and mapNextTx knows the
\* one that does, also while blocks are disconnected.
SpendersExact ==
    \A o \in Outpoint :
        {x \in mempool.txs : o \in Prevouts(x)} = {mempool.mapNextTx[o]} \ {None}

\* CTxMemPool::check: mapLinks is the relation between the transactions of the
\* pool, after every block that was connected or disconnected.
LinksExact ==
    ~cut /\ step # "resurrect" =>
        \A x \in mempool.txs :
            /\ mempool.parents[x] = PoolParents(mempool, x)
            /\ mempool.children[x] = {y \in mempool.txs : x \in Prevs(y)}

\* What CTxMemPool::check asserts, whenever it could be called.
PoolConsistent == TypeOK /\ InputsAvailableUnlessCut /\ SpendersExact /\ LinksExact

\* All descendants of S, found in the inputs and not along mapLinks
TrueDescendants(S) == Reach(mempool, S, [y \in Txs |-> {z \in mempool.txs : y \in Prevs(z)}])

\* The descendant state by which TrimToSize chooses: exact, or given up (dirty)
\* and then that of the transaction alone.  UpdateState asserts that the count does
\* not fall below zero, also where the links are not complete.
DescendantStateExact ==
    /\ mempool.count \in [Txs -> Nat] /\ mempool.fees \in [Txs -> Int]
    /\ ~cut /\ step # "resurrect" =>
          \A x \in mempool.txs :
              LET all == TrueDescendants({x})
              IN  IF mempool.count[x] = 0 THEN mempool.fees[x] = ModFee(x)
                  ELSE mempool.count[x] = Cardinality(all) /\ mempool.fees[x] = ModFees(all)

\* Whenever cs_main is free, no transaction waits for a height or spends an
\* immature coinbase: all could be in the next block.
PoolMinable ==
    ~cut /\ step = "idle" =>
        \A x \in mempool.txs :
            /\ CheckFinalTx(x)
            /\ \A o \in Prevouts(x) : o[1] \notin mempool.txs => ~Immature(o)

\* A transaction that replaces others pays at least what they and everything that
\* goes with them paid, and its own relay fee, also for conflicts that came back
\* from a disconnected block.
ReplacementPays ==
    [][step = "idle" /\ ~cut =>
        \A x \in mempool'.txs \ mempool.txs :
            LET rivals == {y \in mempool.txs : Prevouts(x) \cap Prevouts(y) # {}}
            IN  rivals # {} => ModFee(x) >= ModFees(TrueDescendants(rivals)) + RelayFee]_vars
=============================================================================
