----------------------------- MODULE ChainState -----------------------------
(***************************************************************************)
(* The block index and the choice of the active chain (main.cpp): headers   *)
(* and blocks arriving in any order, ActivateBestChain run by several        *)
(* threads that release cs_main between its steps, invalidateblock and       *)
(* reconsiderblock, pruning, the flushes of FlushStateToDisk, write errors,  *)
(* crashes, and the reconstruction of the state by LoadBlockIndexDB.         *)
(*                                                                           *)
(* Block contents are reduced to whether they pass ContextualCheckBlock      *)
(* (InvalidBody) and ConnectBlock (InvalidScripts).  Each block is in a      *)
(* block file of its own.  pindexBestInvalid and pindexBestHeader, which     *)
(* steer warnings and header download, are not part of this state.           *)
(***************************************************************************)
EXTENDS BlockTree

CONSTANTS
    Threads,          \* callers of ProcessNewBlock, ActivateBestChain and the RPCs
    NoThread,
    InvalidBody,      \* blocks that fail ContextualCheckBlock
    InvalidScripts,   \* blocks that ConnectBlock rejects
    HeaderFirst,      \* blocks whose header may be announced by a headers message
    InvalidateTargets, ReconsiderTargets,   \* arguments of the two RPCs
    PruneMode,        \* fPruneMode
    MinBlocksToKeep,  \* MIN_BLOCKS_TO_KEEP
    PruneAfterHeight, \* nPruneAfterHeight of the chain parameters
    MaxCalls,         \* bound: invalidateblock and reconsiderblock calls
    MaxRestarts,      \* bound: restarts, clean or after a crash
    MaxErrors,        \* bound: failed database writes
    MaxSeq            \* bound: sequence ids handed out between two restarts

ASSUME ThreadsAssumption == IsFiniteSet(Threads) /\ NoThread \notin Threads
ASSUME InvalidAssumption ==
    /\ InvalidBody \subseteq Blocks \ {Genesis}
    /\ InvalidScripts \subseteq Blocks \ {Genesis}
    /\ HeaderFirst \subseteq Blocks \ {Genesis}
    /\ InvalidateTargets \subseteq Blocks \ {Genesis}
    /\ ReconsiderTargets \subseteq Blocks
ASSUME BoundsAssumption ==
    /\ PruneMode \in BOOLEAN
    /\ MinBlocksToKeep \in Nat /\ PruneAfterHeight \in Nat
    /\ PruneAfterHeight >= MinBlocksToKeep
    /\ MaxCalls \in Nat /\ MaxRestarts \in Nat /\ MaxErrors \in Nat /\ MaxSeq \in Nat

VARIABLES
    status,      \* nStatus of every block, as a set of flags; {}: not in mapBlockIndex
    linked,      \* blocks with nChainTx # 0
    seq,         \* nSequenceId
    nextSeq,     \* nBlockSequenceId
    candidates,  \* setBlockIndexCandidates
    unlinked,    \* b for every pair (pprev of b, b) in mapBlocksUnlinked
    tip,         \* chainActive.Tip()
    coins,       \* pcoinsTip->GetBestBlock()
    dirty,       \* setDirtyBlockIndex
    diskStatus,  \* the block index database
    diskCoins,   \* best block of the coin database
    owner,       \* the thread that holds cs_main between two actions
    pc, target,  \* per thread: position, and pindexMostWork / the RPC's block
    oldTip,      \* the tip when the ActivateBestChainStep or InvalidateBlock
                 \* in progress began (pindexOldTip)
    phase,       \* "stopping" (ShutdownRequested), "down", "up", or "torn": up,
                 \* but moving the tip has failed half-way since the last start
    calls, restarts, errors

memory == <<status, linked, seq, nextSeq, candidates, unlinked, tip, coins, dirty>>
disk   == <<diskStatus, diskCoins>>
local  == <<owner, pc, target, oldTip>>
bounds == <<calls, restarts, errors>>
vars   == <<memory, disk, local, phase, bounds>>

\* The validity levels TREE < TRANSACTIONS < SCRIPTS are cumulative; nTx > 0
\* exactly when TRANSACTIONS is set.
Flags == {"TREE", "TRANSACTIONS", "SCRIPTS", "DATA", "UNDO", "FAILED_VALID", "FAILED_CHILD"}
FailedMask == {"FAILED_VALID", "FAILED_CHILD"}

\* idle -> loop (top of ActivateBestChain's loop) -> lock (LOCK(cs_main), and
\* FindMostWorkChain) -> step (ActivateBestChainStep, holding cs_main) -> check
\* (the loop condition, without cs_main) -> flush; inval: inside InvalidateBlock,
\* holding cs_main; init: AppInit2 after loading
PC == {"idle", "init", "loop", "lock", "step", "check", "flush", "inval"}

Mark(st, S, F)   == [b \in Blocks |-> IF b \in S THEN st[b] \cup F ELSE st[b]]
Unmark(st, S, F) == [b \in Blocks |-> IF b \in S THEN st[b] \ F ELSE st[b]]

Index     == {b \in Blocks : "TREE" \in status[b]}
Failed(b) == status[b] \cap FailedMask # {}
\* IsValid(BLOCK_VALID_TRANSACTIONS) under status st
ValidTx(st, b) == st[b] \cap FailedMask = {} /\ "TRANSACTIONS" \in st[b]
Active    == Ancestors[tip]
CanLock(t) == owner \in {NoThread, t}
Unlocked   == owner = NoThread

\* No shutdown has been requested.
Running == phase \in {"up", "torn"}

-----------------------------------------------------------------------------
(* FlushStateToDisk.  Cache sizes and clocks are not modelled: each mode may *)
(* do whatever some cache size and time make it do.                          *)

\* FindFilesToPrune: files of blocks deep enough below the tip, if the target
\* size is exceeded.
PruneSets(st) ==
    IF PruneMode /\ Height[tip] > PruneAfterHeight
    THEN SUBSET {b \in Blocks : "DATA" \in st[b] /\ Height[b] <= Height[tip] - MinBlocksToKeep}
    ELSE {{}}

\* WriteBatchSync of the dirty entries
Written(st, drt) == [b \in Blocks |-> IF b \in drt THEN st[b] ELSE diskStatus[b]]

\* Index entries, status st and dirty set drt, mapBlocksUnlinked unl and coins
\* with best block best are flushed according to mode.  A prune first clears
\* the flags (PruneOneBlockFile) and always writes everything.
FlushStateToDisk(mode, st, drt, unl, best) ==
    \E P \in PruneSets(st) :
        LET st1 == Unmark(st, P, {"DATA", "UNDO"}) IN
        /\ status' = st1
        /\ unlinked' = unl \ P
        /\ \/ /\ P = {} /\ mode # "ALWAYS"                      \* nothing due
              /\ dirty' = drt
              /\ UNCHANGED disk
           \/ /\ P = {} /\ mode = "PERIODIC"                    \* fPeriodicWrite only
              /\ dirty' = {}
              /\ diskStatus' = Written(st1, drt)
              /\ UNCHANGED diskCoins
           \/ /\ P # {} \/ mode # "NONE"                        \* fDoFullFlush
              /\ dirty' = {}
              /\ diskStatus' = Written(st1, drt \cup P)
              /\ diskCoins' = best

\* A write to disk fails: the callers all call AbortNode.
WriteFails == errors < MaxErrors /\ errors' = errors + 1

\* The flush fails: AbortNode, and the caller sees an error.  The disk may be
\* full before anything is written; setDirtyBlockIndex is emptied before its
\* batch is written, whether that write succeeds (and the coins' does not) or not.
FlushFails(mode, st, drt, unl) ==
    /\ WriteFails
    /\ \E P \in PruneSets(st) :
         LET st1 == Unmark(st, P, {"DATA", "UNDO"}) IN
         /\ P # {} \/ mode # "NONE"
         /\ status' = st1
         /\ unlinked' = unl \ P
         /\ \/ dirty' = drt \cup P /\ UNCHANGED diskStatus
            \/ dirty' = {} /\ diskStatus' \in {diskStatus, Written(st1, drt \cup P)}
    /\ UNCHANGED diskCoins

\* The process dies inside this flush, after the index (and the flags of the pruned
\* files with it) has been written and before the coins are: what is on disk then.
CutFlush(mode, st, drt) ==
    {Written(Unmark(st, P, {"DATA", "UNDO"}), drt \cup P) :
        P \in {Q \in PruneSets(st) : Q # {} \/ mode # "NONE"}}

\* A flush whose result the caller ignores: it fails or not, and a failure has
\* requested the shutdown.
FlushIgnored(mode, st, drt, unl) ==
    \/ /\ FlushStateToDisk(mode, st, drt, unl, coins)
       /\ UNCHANGED <<phase, errors>>
    \/ /\ FlushFails(mode, st, drt, unl)
       /\ phase' = "stopping"

-----------------------------------------------------------------------------
(* Headers and blocks *)

\* AcceptBlockHeader succeeds for block b
HeaderAccepted(b) ==
    IF b \in Index THEN ~Failed(b) ELSE Parent[b] \in Index /\ ~Failed(Parent[b])

\* AddToBlockIndex
WithHeader(b)  == Mark(status, {b} \ Index, {"TREE"})
DirtyHeader(b) == dirty \cup ({b} \ Index)

\* A headers message with a new header.
AcceptBlockHeader(b) ==
    /\ phase # "down" /\ Unlocked
    /\ b \notin Index
    /\ HeaderAccepted(b)
    /\ status' = WithHeader(b)
    /\ dirty' = DirtyHeader(b)
    /\ UNCHANGED <<linked, seq, nextSeq, candidates, unlinked, tip, coins, disk, local,
                   phase, bounds>>

\* Mutant of NowLinked: descendants of b that wait are not followed.
NowLinkedAlone(b) == {b}

\* Blocks that become linked when b does: b, and what hangs below it through
\* entries of mapBlocksUnlinked.
NowLinked(b) ==
    {x \in Blocks : b \in Ancestors[x] /\ Ancestors[x] \ Ancestors[b] \subseteq unlinked}

\* The sequence ids the queue of ReceivedBlockTransactions assigns to L:
\* parents first; siblings in any order.
NewSeqs(L) ==
    {f \in [L -> nextSeq .. (nextSeq + Cardinality(L) - 1)] :
        \A x, y \in L : /\ x # y => f[x] # f[y]
                        /\ Height[x] < Height[y] => f[x] < f[y]}

\* Mutant of NewCandidates: only the received block itself is considered.
NewCandidatesFirst(L, sq) == {x \in L : Parent[x] \notin L /\ ~Worse(sq, x, tip)}

\* Those of the newly linked blocks L that are as good as the tip
NewCandidates(L, sq) == {x \in L : ~Worse(sq, x, tip)}


\* mapBlocksUnlinked after storing b whose parent is not linked
AwaitParent(b) == IF Failed(Parent[b]) THEN unlinked ELSE unlinked \cup {b}

\* The index entry of b after ReceivedBlockTransactions
Stored(b) == Mark(WithHeader(b), {b}, {"TRANSACTIONS", "DATA"})

\* The block is on disk: ReceivedBlockTransactions, and the flush that follows
\* when storing it exceeded the prune target.
StoreBlock(b) ==
    LET st  == Stored(b)
        drt == dirty \cup {b}
    IN  \/ /\ Parent[b] \in linked
           /\ LET L == NowLinked(b) IN
              /\ nextSeq + Cardinality(L) <= MaxSeq + 1
              /\ nextSeq' = nextSeq + Cardinality(L)
              /\ linked' = linked \cup L
              /\ \E f \in NewSeqs(L) : seq' = [x \in Blocks |-> IF x \in L THEN f[x] ELSE seq[x]]
              /\ candidates' = candidates \cup NewCandidates(L, seq')
              /\ FlushIgnored("NONE", st, drt, unlinked \ (L \ {b}))
        \/ /\ Parent[b] \notin linked
           /\ linked' = linked \ {b}
           /\ FlushIgnored("NONE", st, drt, AwaitParent(b))
           /\ UNCHANGED <<seq, nextSeq, candidates>>

\* AcceptBlock returns early, with success, for a block it has or does not want.
NotWanted(b, fRequested) ==
    \/ "DATA" \in status[b]
    \/ /\ ~fRequested
       /\ \/ "TRANSACTIONS" \in status[b]
          \/ Work[b] <= Work[tip]
          \/ Height[b] > Height[tip] + MinBlocksToKeep

\* ProcessNewBlock up to its call of ActivateBestChain (pc = "loop"), for a
\* block whose header is acceptable; other blocks leave no trace.
ProcessNewBlock(t, b, fRequested) ==
    /\ phase # "down" /\ Unlocked
    /\ pc[t] = "idle"
    /\ HeaderAccepted(b)
    /\ \/ /\ NotWanted(b, fRequested)
          /\ status' = WithHeader(b)
          /\ dirty' = DirtyHeader(b)
          /\ pc' = [pc EXCEPT ![t] = "loop"]
          /\ UNCHANGED <<linked, seq, nextSeq, candidates, unlinked, disk, phase, errors>>
       \/ /\ ~NotWanted(b, fRequested) /\ b \in InvalidBody
          /\ status' = Mark(WithHeader(b), {b}, {"FAILED_VALID"})
          /\ dirty' = dirty \cup {b}
          /\ UNCHANGED <<linked, seq, nextSeq, candidates, unlinked, disk, pc, phase, errors>>
       \/ /\ ~NotWanted(b, fRequested) /\ b \notin InvalidBody
          /\ StoreBlock(b)
          /\ pc' = [pc EXCEPT ![t] = "loop"]
    /\ UNCHANGED <<tip, coins, owner, target, oldTip, calls, restarts>>

-----------------------------------------------------------------------------
(* ActivateBestChain *)

\* *setBlockIndexCandidates.rbegin()
IsBest(c) == c \in candidates /\ \A x \in candidates \ {c} : Worse(seq, x, c)

\* The blocks of c's branch that ActivateBestChainStep cannot connect
Obstacles(c) == {x \in Ancestors[c] \ Active : Failed(x) \/ "DATA" \notin status[x]}

\* Mutant of Shelve: blocks above missing data are dropped.
ShelveNothing(S) == unlinked

\* Blocks above one whose data is missing go back to mapBlocksUnlinked.
Shelve(S) == unlinked \cup S

\* ShutdownRequested() at the top of the loop, before cs_main is asked for
EnterLoop(t) ==
    /\ pc[t] = "loop"
    /\ pc' = [pc EXCEPT ![t] = IF Running THEN "lock" ELSE "flush"]
    /\ UNCHANGED <<memory, disk, owner, target, oldTip, phase, bounds>>

\* Inside ActivateBestChain's critical section
AtLoop(t) == pc[t] = "lock" /\ CanLock(t)

\* One round of FindMostWorkChain that rejects the best candidate: from its
\* highest obstacle upwards the branch leaves the candidates, marked as failed
\* (without a dirty entry) or remembered in mapBlocksUnlinked.
DiscardCandidate(t) ==
    /\ AtLoop(t)
    /\ \E c \in candidates : \E test \in Obstacles(c) :
         LET above == {x \in Ancestors[c] : Height[x] > Height[test]} IN
         /\ IsBest(c)
         /\ \A x \in Obstacles(c) : Height[x] <= Height[test]
         /\ candidates' = candidates \ (above \cup {test})
         /\ \/ /\ Failed(test)
               /\ status' = Mark(status, above, {"FAILED_CHILD"})
               /\ UNCHANGED unlinked
            \/ /\ ~Failed(test)
               /\ unlinked' = Shelve(above)
               /\ UNCHANGED status
    /\ owner' = t
    /\ UNCHANGED <<linked, seq, nextSeq, tip, coins, dirty, disk, pc, target, oldTip,
                   phase, bounds>>

\* FindMostWorkChain returns the tip or NULL: ActivateBestChain returns.
NothingToDo(t) ==
    /\ AtLoop(t)
    /\ candidates = {} \/ IsBest(tip)
    /\ owner' = NoThread
    /\ pc' = [pc EXCEPT ![t] = "idle"]
    /\ UNCHANGED <<memory, disk, target, oldTip, phase, bounds>>

\* FindMostWorkChain returns another block: ActivateBestChainStep begins.
BeginStep(t) ==
    /\ AtLoop(t)
    /\ \E c \in candidates \ {tip} :
         /\ IsBest(c)
         /\ Obstacles(c) = {}
         /\ target' = [target EXCEPT ![t] = c]
    /\ oldTip' = tip
    /\ owner' = t
    /\ pc' = [pc EXCEPT ![t] = "step"]
    /\ UNCHANGED <<memory, disk, phase, bounds>>

\* The coins are those of the tip.  If a failed flush separated the two, the
\* assertion in ConnectBlock or DisconnectBlock ends the process (a Crash).
CoinsAtTip == coins = tip

Disconnecting(t) == pc[t] = "step" /\ tip \notin Ancestors[target[t]]

\* The block and its undo data can be read.  A block that was pruned while active
\* and received again has no undo data.
Readable == {"DATA", "UNDO"} \subseteq status[tip]
UndoMissing == "DATA" \in status[tip] /\ "UNDO" \notin status[tip]

\* phase after an error that is only reported; nothing undoes what was done so far.
Torn == IF phase = "up" THEN "torn" ELSE phase

\* DisconnectTip in ActivateBestChainStep
DisconnectTip(t) ==
    /\ Disconnecting(t) /\ Readable /\ CoinsAtTip
    /\ FlushStateToDisk("IF_NEEDED", status, dirty, unlinked, Parent[tip])
    /\ tip' = Parent[tip]
    /\ coins' = Parent[tip]
    /\ UNCHANGED <<linked, seq, nextSeq, candidates, local, phase, bounds>>

\* The next block of vpindexToConnect
Connecting(t, n) ==
    pc[t] = "step" /\ n \in Ancestors[target[t]] \ {Genesis} /\ Parent[n] = tip

\* DisconnectTip or ConnectTip cannot read a block that has been pruned:
\* AbortNode, and ActivateBestChain fails.
TipAborts(t) ==
    /\ \/ Disconnecting(t) /\ "DATA" \notin status[tip]
       \/ \E n \in Blocks : Connecting(t, n) /\ "DATA" \notin status[n]
    /\ phase' = "stopping"
    /\ owner' = NoThread
    /\ pc' = [pc EXCEPT ![t] = "idle"]
    /\ UNCHANGED <<memory, disk, target, oldTip, bounds>>

\* DisconnectBlock has no undo data: an error, with which ActivateBestChain returns
\* wherever the tip is.  The node goes on, unless AppInit2 was the caller.
UndoFails(t) ==
    /\ Disconnecting(t) /\ UndoMissing /\ CoinsAtTip
    /\ phase' \in {Torn, "stopping"}
    /\ owner' = NoThread
    /\ pc' = [pc EXCEPT ![t] = "idle"]
    /\ UNCHANGED <<memory, disk, target, oldTip, bounds>>

\* ConnectTip has the block: on disk or, for the target, as pblock.
Loaded(t, n) == "DATA" \in status[n] \/ n = target[t]

\* Mutant of DirtyConnected: the raised validity is not marked for writing.
NotDirtyConnected(n) == dirty

\* Undo data written, validity raised to SCRIPTS, entry dirty if either changed
Connected(n)      == Mark(status, {n}, {"UNDO", "SCRIPTS"})
DirtyConnected(n) == IF Connected(n) = status THEN dirty ELSE dirty \cup {n}

\* Mutant of PrunedCandidates: the tip itself is removed with the worse blocks.
PrunedCandidatesStrict(cands, sq, n) == {x \in cands : Worse(sq, n, x)}

\* PruneBlockIndexCandidates for the tip n
PrunedCandidates(cands, sq, n) == {x \in cands : ~Worse(sq, x, n)}

\* Mutant of StepEnds: cs_main is released after every block.
StepEndsAlways(t, n) == TRUE

\* ActivateBestChainStep returns after connecting n: the chain has more work
\* than the tip it started from, or the target is reached.
StepEnds(t, n) == Work[n] > Work[oldTip] \/ n = target[t]

\* ConnectTip succeeds; when the step ends it releases cs_main.
ConnectTip(t) ==
    \E n \in Blocks \ InvalidScripts :
        /\ Connecting(t, n) /\ Loaded(t, n) /\ CoinsAtTip
        /\ FlushStateToDisk("IF_NEEDED", Connected(n), DirtyConnected(n), unlinked, n)
        /\ tip' = n
        /\ coins' = n
        /\ candidates' = PrunedCandidates(candidates, seq, n)
        /\ IF StepEnds(t, n)
           THEN owner' = NoThread /\ pc' = [pc EXCEPT ![t] = "check"]
           ELSE UNCHANGED <<owner, pc>>
        /\ UNCHANGED <<linked, seq, nextSeq, target, oldTip, phase, bounds>>

\* setDirtyBlockIndex after InvalidBlockFound(n)
DirtyInvalid(n) == dirty \cup {n}

\* ConnectBlock rejects the block: InvalidBlockFound, and the step ends.
ConnectTipInvalid(t) ==
    \E n \in InvalidScripts :
        /\ Connecting(t, n) /\ Loaded(t, n) /\ CoinsAtTip
        /\ status' = Mark(status, {n}, {"FAILED_VALID"})
        /\ dirty' = DirtyInvalid(n)
        /\ candidates' = candidates \ {n}
        /\ owner' = NoThread
        /\ pc' = [pc EXCEPT ![t] = "check"]
        /\ UNCHANGED <<linked, seq, nextSeq, unlinked, tip, coins, disk, target, oldTip,
                       phase, bounds>>

\* A write fails inside ConnectTip or DisconnectTip: AbortNode, and ActivateBestChain
\* fails.  In FlushStateToDisk the coins have moved and chainActive has not; when
\* ConnectBlock cannot write the undo data neither has.
TipWriteError(t) ==
    /\ \/ /\ Disconnecting(t) /\ Readable /\ CoinsAtTip
          /\ FlushFails("IF_NEEDED", status, dirty, unlinked)
          /\ coins' = Parent[tip]
       \/ \E n \in Blocks \ InvalidScripts :
          /\ Connecting(t, n) /\ Loaded(t, n) /\ CoinsAtTip
          /\ FlushFails("IF_NEEDED", Connected(n), DirtyConnected(n), unlinked)
          /\ coins' = n
       \/ /\ \E n \in Blocks \ InvalidScripts :
             Connecting(t, n) /\ Loaded(t, n) /\ CoinsAtTip /\ "UNDO" \notin status[n]
          /\ WriteFails
          /\ UNCHANGED <<status, dirty, unlinked, coins, disk>>
    /\ phase' = "stopping"
    /\ owner' = NoThread
    /\ pc' = [pc EXCEPT ![t] = "idle"]
    /\ UNCHANGED <<linked, seq, nextSeq, candidates, tip, target, oldTip, calls, restarts>>

\* The optional indexes are written with CDBWrapper::WriteBatch, which throws when it
\* fails.  The exception leaves ActivateBestChain, and the message loop or the RPC
\* server goes on (AppInit2 and the thread of -loadblock stop the node); a connected
\* block already has its new status.
IndexWriteThrows(t) ==
    /\ \/ /\ Disconnecting(t) /\ Readable /\ CoinsAtTip
          /\ UNCHANGED <<status, dirty>>
       \/ \E n \in Blocks \ InvalidScripts :
          /\ Connecting(t, n) /\ Loaded(t, n) /\ CoinsAtTip
          /\ status' = Connected(n) /\ dirty' = DirtyConnected(n)
    /\ WriteFails
    /\ phase' \in {Torn, "stopping"}
    /\ owner' = NoThread
    /\ pc' = [pc EXCEPT ![t] = "idle"]
    /\ UNCHANGED <<linked, seq, nextSeq, candidates, unlinked, tip, coins, disk, target,
                   oldTip, calls, restarts>>

\* pindexMostWork != chainActive.Tip()
LoopAgain(t) == target[t] # tip

\* while (pindexMostWork != chainActive.Tip()), read without cs_main: while
\* another thread is moving the tip the read may return anything.
CheckTip(t) ==
    /\ pc[t] = "check"
    /\ \E next \in {"loop", "flush"} :
         /\ Unlocked => next = IF LoopAgain(t) THEN "loop" ELSE "flush"
         /\ pc' = [pc EXCEPT ![t] = next]
    /\ UNCHANGED <<memory, disk, owner, target, oldTip, phase, bounds>>

\* The periodic flush at the end of ActivateBestChain
FlushAndReturn(t) ==
    /\ pc[t] = "flush" /\ Unlocked
    /\ FlushIgnored("PERIODIC", status, dirty, unlinked)
    /\ pc' = [pc EXCEPT ![t] = "idle"]
    /\ UNCHANGED <<linked, seq, nextSeq, candidates, tip, coins, owner, target, oldTip,
                   calls, restarts>>

\* The periodic flush after a transaction message
PeriodicFlush ==
    /\ phase # "down" /\ Unlocked
    /\ FlushIgnored("PERIODIC", status, dirty, unlinked)
    /\ UNCHANGED <<linked, seq, nextSeq, candidates, tip, coins, local, calls, restarts>>

-----------------------------------------------------------------------------
(* invalidateblock and reconsiderblock *)

InvalidateBlock(t, b) ==
    /\ phase # "down" /\ Unlocked
    /\ pc[t] = "idle" /\ calls < MaxCalls
    /\ b \in Index
    /\ calls' = calls + 1
    /\ status' = Mark(status, {b}, {"FAILED_VALID"})
    /\ dirty' = dirty \cup {b}
    /\ candidates' = candidates \ {b}
    /\ owner' = t
    /\ pc' = [pc EXCEPT ![t] = "inval"]
    /\ target' = [target EXCEPT ![t] = b]
    /\ oldTip' = tip
    /\ UNCHANGED <<linked, seq, nextSeq, unlinked, tip, coins, disk, phase, restarts, errors>>

\* Mutant of StillActive: the loop stops one block early.
StillActiveAbove(b) == b \in Active \ {tip}

\* chainActive.Contains(pindex)
StillActive(b) == b \in Active

\* The tip, as InvalidateBlock's loop marks it before disconnecting it
MarkedTip == Mark(status, {tip}, {"FAILED_CHILD"})

\* One turn of InvalidateBlock's loop.
InvalidateWalk(t) ==
    /\ pc[t] = "inval" /\ StillActive(target[t])
    /\ Readable /\ CoinsAtTip
    /\ candidates' = candidates \ {tip}
    /\ FlushStateToDisk("IF_NEEDED", MarkedTip, dirty \cup {tip}, unlinked, Parent[tip])
    /\ tip' = Parent[tip]
    /\ coins' = Parent[tip]
    /\ UNCHANGED <<linked, seq, nextSeq, local, phase, bounds>>

\* DisconnectTip fails, and InvalidateBlock returns with the tip marked: the block or
\* a write is missing (AbortNode), an index write throws, or there is no undo data.
\* In the last case the state is still valid, and the RPC calls ActivateBestChain.
InvalidateFails(t) ==
    /\ pc[t] = "inval" /\ StillActive(target[t])
    /\ candidates' = candidates \ {tip}
    /\ \/ /\ Readable /\ CoinsAtTip
          /\ FlushFails("IF_NEEDED", MarkedTip, dirty \cup {tip}, unlinked)
          /\ coins' = Parent[tip]
          /\ phase' = "stopping"
          /\ pc' = [pc EXCEPT ![t] = "idle"]
       \/ /\ status' = MarkedTip
          /\ dirty' = dirty \cup {tip}
          /\ UNCHANGED <<unlinked, coins, disk>>
          /\ \/ /\ "DATA" \notin status[tip]
                /\ phase' = "stopping"
                /\ pc' = [pc EXCEPT ![t] = "idle"]
                /\ UNCHANGED errors
             \/ /\ UndoMissing /\ CoinsAtTip
                /\ phase' = Torn
                /\ pc' = [pc EXCEPT ![t] = "loop"]
                /\ UNCHANGED errors
             \/ /\ Readable /\ CoinsAtTip /\ WriteFails
                /\ phase' = Torn
                /\ pc' = [pc EXCEPT ![t] = "idle"]
    /\ owner' = NoThread
    /\ UNCHANGED <<linked, seq, nextSeq, tip, target, oldTip, calls, restarts>>

\* Mutant of BackInPlay: candidates given up for the invalidated chain stay given up.
BackInPlayNone == {}

\* Blocks that are candidates again once the tip has moved back
BackInPlay == {x \in linked : ValidTx(status, x) /\ ~Worse(seq, x, tip)}

\* The rest of InvalidateBlock, then ActivateBestChain.
InvalidateEnd(t) ==
    /\ pc[t] = "inval" /\ ~StillActive(target[t])
    /\ candidates' = candidates \cup BackInPlay
    /\ owner' = NoThread
    /\ pc' = [pc EXCEPT ![t] = "loop"]
    /\ UNCHANGED <<status, linked, seq, nextSeq, unlinked, tip, coins, dirty, disk,
                   target, oldTip, phase, bounds>>

\* Clears the failure flags of b's descendants that are not IsValid(), which
\* become candidates again, and of its ancestors, which do not.
ReconsiderBlock(t, b) ==
    LET below == {x \in Index : ~ValidTx(status, x) /\ b \in Ancestors[x]}
        above == {x \in Ancestors[b] : Failed(x)}
        st    == Unmark(status, below \cup above, FailedMask)
    IN  /\ phase # "down" /\ Unlocked
        /\ pc[t] = "idle" /\ calls < MaxCalls
        /\ b \in Index
        /\ calls' = calls + 1
        /\ status' = st
        /\ dirty' = dirty \cup below \cup above
        /\ candidates' = candidates \cup
               {x \in below : ValidTx(st, x) /\ x \in linked /\ Worse(seq, tip, x)}
        /\ pc' = [pc EXCEPT ![t] = "loop"]
        /\ UNCHANGED <<linked, seq, nextSeq, unlinked, tip, coins, disk, owner, target,
                       oldTip, phase, restarts, errors>>

-----------------------------------------------------------------------------
(* Shutdown, crash and restart *)

RequestShutdown ==
    /\ Running /\ restarts < MaxRestarts
    /\ phase' = "stopping"
    /\ UNCHANGED <<memory, disk, local, bounds>>

\* Shutdown(), once the threads have returned
Shutdown ==
    /\ phase = "stopping" /\ Unlocked
    /\ \A t \in Threads : pc[t] = "idle"
    /\ \/ FlushStateToDisk("ALWAYS", status, dirty, unlinked, coins) /\ UNCHANGED errors
       \/ FlushFails("ALWAYS", status, dirty, unlinked)
    /\ phase' = "down"
    /\ UNCHANGED <<linked, seq, nextSeq, candidates, tip, coins, local, calls, restarts>>

\* Mutant of LoadLinked: nChainTx is set from nTx whatever the parent's is.
LoadLinkedAlone(ds) == {b \in Blocks : "TRANSACTIONS" \in ds[b]}

\* nChainTx # 0 after LoadBlockIndexDB's pass in order of height
LoadLinked(ds) == {b \in Blocks : \A a \in Ancestors[b] : "TRANSACTIONS" \in ds[a]}

\* No entry lacks its parent, and the best block of the coins has an entry.
\* Only failed writes leave anything else on disk: LoadBlockIndexDB then leaves
\* chainActive empty or InsertBlockIndex makes up an entry, and the node has to
\* be reindexed, which is not modelled.
Loadable(ds) ==
    LET known == {b \in Blocks : "TREE" \in ds[b]} IN ParentClosed(known) /\ diskCoins \in known

\* LoadBlockIndexDB on the index ds and the coin database, in thread t.
LoadBlockIndexDB(t, ds) ==
    /\ Loadable(ds)
    /\ diskStatus' = ds
    /\ UNCHANGED diskCoins
    /\ status' = ds
    /\ linked' = LoadLinked(ds)
    /\ seq' = [b \in Blocks |-> 0]
    /\ nextSeq' = 1
    /\ unlinked' = {b \in Blocks \ {Genesis} :
                      "TRANSACTIONS" \in ds[b] /\ Parent[b] \notin LoadLinked(ds)}
    /\ candidates' = PrunedCandidates({b \in LoadLinked(ds) : ValidTx(ds, b)},
                                      [b \in Blocks |-> 0], diskCoins)
    /\ tip' = diskCoins
    /\ coins' = diskCoins
    /\ dirty' = {}
    /\ owner' = t
    /\ pc' = [u \in Threads |-> IF u = t THEN "init" ELSE "idle"]
    /\ target' = [u \in Threads |-> Genesis]
    /\ oldTip' = Genesis
    /\ phase' = "up"
    /\ restarts' = restarts + 1
    /\ UNCHANGED <<calls, errors>>

\* PruneAndFlush in AppInit2, then ActivateBestChain.
InitPrune(t) ==
    /\ pc[t] = "init"
    /\ FlushIgnored("NONE", status, dirty, unlinked)
    /\ owner' = NoThread
    /\ pc' = [pc EXCEPT ![t] = "loop"]
    /\ UNCHANGED <<linked, seq, nextSeq, candidates, tip, coins, target, oldTip,
                   calls, restarts>>

Restart(t) == phase = "down" /\ restarts < MaxRestarts /\ LoadBlockIndexDB(t, diskStatus)

\* The process dies, possibly inside the flush of any action above: a periodic or the
\* final one, the one of AppInit2, or the one that follows a stored, disconnected,
\* connected or invalidated block.
Crash(t) ==
    LET LeavesOneOf(S) == \E ds \in S : LoadBlockIndexDB(t, ds) IN
    /\ phase # "down" /\ restarts < MaxRestarts
    /\ \/ LeavesOneOf({diskStatus})
       \/ Unlocked /\ LeavesOneOf(CutFlush("PERIODIC", status, dirty))
       \/ \E u \in Threads :
          \/ pc[u] = "init" /\ LeavesOneOf(CutFlush("NONE", status, dirty))
          \/ \E b \in Blocks \ ({Genesis} \cup InvalidBody) :
                /\ Unlocked /\ pc[u] = "idle"
                /\ HeaderAccepted(b) /\ ~NotWanted(b, TRUE)
                /\ LeavesOneOf(CutFlush("NONE", Stored(b), dirty \cup {b}))
          \/ /\ Disconnecting(u) /\ Readable /\ CoinsAtTip
             /\ LeavesOneOf(CutFlush("IF_NEEDED", status, dirty))
          \/ \E n \in Blocks \ InvalidScripts :
                /\ Connecting(u, n) /\ Loaded(u, n) /\ CoinsAtTip
                /\ LeavesOneOf(CutFlush("IF_NEEDED", Connected(n), DirtyConnected(n)))
          \/ /\ pc[u] = "inval" /\ StillActive(target[u]) /\ Readable /\ CoinsAtTip
             /\ LeavesOneOf(CutFlush("IF_NEEDED", MarkedTip, dirty \cup {tip}))

-----------------------------------------------------------------------------
\* After InitBlockIndex: the genesis block is connected and flushed.
Init ==
    /\ status = [b \in Blocks |-> IF b = Genesis THEN {"TREE", "TRANSACTIONS", "DATA"} ELSE {}]
    /\ linked = {Genesis}
    /\ seq = [b \in Blocks |-> IF b = Genesis THEN 1 ELSE 0]
    /\ nextSeq = 2
    /\ candidates = {Genesis}
    /\ unlinked = {}
    /\ tip = Genesis
    /\ coins = Genesis
    /\ dirty = {}
    /\ diskStatus = status
    /\ diskCoins = Genesis
    /\ owner = NoThread
    /\ pc = [t \in Threads |-> "idle"]
    /\ target = [t \in Threads |-> Genesis]
    /\ oldTip = Genesis
    /\ phase = "up"
    /\ calls = 0 /\ restarts = 0 /\ errors = 0

Activation(t) ==
    \/ EnterLoop(t) \/ DiscardCandidate(t) \/ NothingToDo(t) \/ BeginStep(t)
    \/ DisconnectTip(t) \/ TipAborts(t) \/ UndoFails(t)
    \/ ConnectTip(t) \/ ConnectTipInvalid(t) \/ TipWriteError(t) \/ IndexWriteThrows(t)
    \/ CheckTip(t) \/ FlushAndReturn(t)

Next ==
    \/ \E b \in HeaderFirst : AcceptBlockHeader(b)
    \/ \E t \in Threads, b \in Blocks \ {Genesis}, r \in BOOLEAN : ProcessNewBlock(t, b, r)
    \/ \E t \in Threads : Activation(t)
    \/ PeriodicFlush
    \/ \E t \in Threads, b \in InvalidateTargets : InvalidateBlock(t, b)
    \/ \E t \in Threads : InvalidateWalk(t) \/ InvalidateFails(t) \/ InvalidateEnd(t)
    \/ \E t \in Threads, b \in ReconsiderTargets : ReconsiderBlock(t, b)
    \/ RequestShutdown
    \/ Shutdown
    \/ \E t \in Threads : InitPrune(t) \/ Restart(t) \/ Crash(t)

Spec == Init /\ [][Next]_vars

\* A thread inside ActivateBestChain or InvalidateBlock keeps running.  Nothing
\* is assumed of arriving blocks, of RPC calls, of errors or of crashes.
Progress(t) ==
    \/ EnterLoop(t) \/ DiscardCandidate(t) \/ NothingToDo(t) \/ BeginStep(t)
    \/ DisconnectTip(t) \/ TipAborts(t) \/ UndoFails(t)
    \/ ConnectTip(t) \/ ConnectTipInvalid(t)
    \/ CheckTip(t) \/ FlushAndReturn(t)
    \/ InvalidateWalk(t) \/ InvalidateFails(t) \/ InvalidateEnd(t) \/ InitPrune(t)
FairSpec == Spec /\ \A t \in Threads : WF_vars(Progress(t))

-----------------------------------------------------------------------------
(* Properties *)

\* Types of the block index, of its database copy and of the thread states; no
\* flag is ever set on a block that is not in mapBlockIndex, in memory or on disk.
TypeOK ==
    /\ status \in [Blocks -> SUBSET Flags]
    /\ diskStatus \in [Blocks -> SUBSET Flags]
    /\ \A b \in Blocks : /\ status[b] # {} => "TREE" \in status[b]
                         /\ diskStatus[b] # {} => "TREE" \in diskStatus[b]
    /\ linked \subseteq Blocks
    /\ seq \in [Blocks -> Nat] /\ nextSeq \in Nat
    /\ candidates \subseteq Blocks
    /\ unlinked \subseteq Blocks \ {Genesis}
    /\ tip \in Blocks /\ coins \in Blocks /\ diskCoins \in Blocks
    /\ dirty \subseteq Blocks
    /\ owner \in Threads \cup {NoThread}
    /\ pc \in [Threads -> PC]
    /\ target \in [Threads -> Blocks]
    /\ oldTip \in Blocks
    /\ phase \in {"up", "torn", "stopping", "down"}
    /\ calls \in Nat /\ restarts \in Nat /\ errors \in Nat

\* No call is under way, and none has failed half-way: the points at which
\* CheckBlockIndex may rely on what the last call left behind.
Quiescent == phase = "up" /\ \A t \in Threads : pc[t] \in {"idle", "flush"}

HasInvalidAncestor(b) == \E a \in Ancestors[b] : "FAILED_VALID" \in status[a]
AllProcessed(b) == \A a \in Ancestors[b] : "TRANSACTIONS" \in status[a]
AllData(b)      == \A a \in Ancestors[b] : "DATA" \in status[a]

\* Every block of the active chain has passed ConnectBlock on top of its whole
\* ancestry, also after any crash, reorganisation or failed flush: a block that
\* ConnectBlock rejects is never part of it.
ActiveChainVerified ==
    \A b \in Active \ {Genesis} : "SCRIPTS" \in status[b] /\ b \notin InvalidScripts

\* When the last caller of ActivateBestChain has returned, no chain it could
\* have switched to sorts above the tip: threads that release cs_main in the
\* middle of a reorganisation never leave the node on a worse chain.
TipIsBest ==
    Quiescent =>
        \A b \in linked : Obstacles(b) = {} /\ ~HasInvalidAncestor(b) => ~Worse(seq, tip, b)

\* What the coin database calls its best block is in the block index database,
\* verified, with all its ancestors: LoadBlockIndexDB can always rebuild
\* chainActive, whichever of the two writes of a flush a crash cut off.
DiskCoherent ==
    \A a \in Ancestors[diskCoins] \ {Genesis} :
        {"TREE", "TRANSACTIONS", "SCRIPTS"} \subseteq diskStatus[a]

\* A linked block, one with nChainTx # 0, has received the transactions of all
\* its ancestors, whatever the order in which blocks came, were pruned, or were
\* reloaded: the assertion FindMostWorkChain relies on (main.cpp:3021).
LinkedSound == \A b \in linked : AllProcessed(b)

\* The converse: nothing whose ancestors have all been received stays unlinked
\* (CheckBlockIndex, main.cpp:4465).  ReceivedBlockTransactions forgets a block that
\* comes while its parent is invalidated: not if that is reconsidered later.
LinkedComplete == \A b \in Blocks : AllProcessed(b) => b \in linked

\* A block as good as the tip, with all data and no invalid ancestor, is a
\* candidate; so is the tip (CheckBlockIndex, main.cpp:4478-4486).
MustBeCandidate(b) ==
    /\ AllProcessed(b) /\ ~Worse(seq, b, tip) /\ ~HasInvalidAncestor(b)
    /\ AllData(b) \/ b = tip
CandidatesComplete == Quiescent => \A b \in Blocks : MustBeCandidate(b) => b \in candidates

\* "chainActive.Tip() must also be there even if some data has been pruned", says
\* CheckBlockIndex (main.cpp:4482), which runs between any two calls.
TipIsCandidate ==
    Running /\ (\A t \in Threads : pc[t] \in {"idle", "flush"}) => tip \in candidates

\* Only linked blocks as good as the tip are candidates (main.cpp:4491-4493),
\* whenever cs_main is free and a CheckBlockIndex could run.
CandidatesSound ==
    Unlocked => \A b \in candidates : b \in linked /\ ~Worse(seq, b, tip)

\* PruneBlockIndexCandidates never empties the set, in a reorganisation or when
\* LoadBlockIndexDB starts from what a crash left (the assertion main.cpp:3067).
CandidateLeft == \A t \in Threads : pc[t] \in {"init", "step"} => candidates # {}

\* A block with data and without invalid ancestors that waits for a parent's
\* transactions is in mapBlocksUnlinked, so that it is linked when they arrive
\* (main.cpp:4505-4508).
UnlinkedComplete ==
    \A b \in Blocks :
        "DATA" \in status[b] /\ ~AllProcessed(b) /\ ~HasInvalidAncestor(b) => b \in unlinked

\* What CheckBlockIndex demands of nChainTx, setBlockIndexCandidates and
\* mapBlocksUnlinked together, in whatever order blocks arrive, tips move, data is
\* pruned and writes fail.
BlockIndexConsistent ==
    LinkedComplete /\ CandidatesComplete /\ CandidatesSound /\ UnlinkedComplete

\* A block that was given up because an ancestor's data had been pruned is still
\* known to mapBlocksUnlinked, so that downloading the data again brings it back
\* (main.cpp:4511-4527).
MissingDataTracked ==
    Quiescent =>
        \A b \in linked \ candidates :
            "DATA" \in status[b] /\ ~AllData(b) /\ ~Worse(seq, b, tip) /\ ~HasInvalidAncestor(b)
                => b \in unlinked

\* No block of the active chain is marked failed while cs_main is free, whatever
\* fails half-way in ActivateBestChain; only when InvalidateBlock fails half-way do
\* its block and those above it stay in the chain, marked.
ActiveChainNotFailed ==
    Unlocked =>
        \A b \in Active : Failed(b) => phase # "up" /\ Ancestors[b] \cap InvalidateTargets # {}

\* ActivateBestChainStep gives cs_main back on a chain that does not sort below
\* the one it started from, unless it has just found an invalid block.  (A call
\* that fails returns at once: it never reaches "check".)
NoWorseTip ==
    [][\A t \in Threads : pc[t] = "step" /\ pc'[t] = "check" =>
           \/ ~Worse(seq, tip', oldTip)
           \/ \E b \in Blocks : Failed(b)' /\ ~Failed(b)]_vars

\* Every valid chain whose blocks have all been received ends up active or
\* beaten, if the node is neither restarted nor told to invalidate blocks.
Connectable(b) == AllData(b) /\ Ancestors[b] \cap InvalidScripts = {} /\ ~HasInvalidAncestor(b)
BestChainActivated == \A b \in Blocks : Connectable(b) ~> Work[tip] >= Work[b]
=============================================================================
