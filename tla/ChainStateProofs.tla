-------------------------- MODULE ChainStateProofs --------------------------
(***************************************************************************)
(* ChainState for every tree of blocks and any number of threads, calls and  *)
(* restarts.  LinkInv (what nChainTx # 0, the candidates and                 *)
(* mapBlocksUnlinked imply) is inductive without assumptions.  The other     *)
(* invariants hold for parts of the behaviours: DiskInv (memory against      *)
(* disk), StepInv and SoundInv (candidates and the step under way) if no     *)
(* database write fails; FailInv (failure marks) until a restart; ChainInv,  *)
(* which adds to them CleanInv, VerdictInv, WaitInv, BaseInv and SettledInv, *)
(* if besides nothing is pruned and nobody calls invalidateblock.            *)
(***************************************************************************)
EXTENDS ChainState, BlockTreeProofs

-----------------------------------------------------------------------------
(* Linked blocks *)

HasTx(st, b)     == "TRANSACTIONS" \in st[b]
Processed(st, b) == \A a \in Ancestors[b] : HasTx(st, a)

LinkInv ==
    /\ linked \subseteq Blocks /\ \A b \in linked : Processed(status, b)
    /\ candidates \subseteq Blocks /\ \A b \in candidates : Processed(status, b)
    /\ unlinked \subseteq Blocks \ {Genesis} /\ \A b \in unlinked : HasTx(status, b)

\* Transactions are never forgotten while the node runs, so a step that links
\* nothing new keeps LinkInv.
LEMMA KeepsLinks ==
    ASSUME LinkInv,
           \A b \in Blocks : HasTx(status, b) => HasTx(status', b),
           linked' \subseteq linked,
           candidates' \subseteq candidates \cup linked,
           unlinked' \subseteq unlinked \cup {b \in Blocks \ {Genesis} : HasTx(status', b)}
    PROVE  LinkInv'
<1>1. \A b \in Blocks : Processed(status, b) => Processed(status', b)
  BY AncestorsType DEF Processed
<1> QED BY <1>1 DEF LinkInv

LEMMA FlushKeepsTx ==
    ASSUME NEW mode, NEW st, NEW drt, NEW unl, NEW best,
           FlushStateToDisk(mode, st, drt, unl, best)
    PROVE  /\ \A b \in Blocks : HasTx(st, b) => HasTx(status', b)
           /\ unlinked' \subseteq unl
BY DEF FlushStateToDisk, Unmark, HasTx

LEMMA FlushFailsKeepsTx ==
    ASSUME NEW mode, NEW st, NEW drt, NEW unl, FlushFails(mode, st, drt, unl)
    PROVE  /\ \A b \in Blocks : HasTx(st, b) => HasTx(status', b)
           /\ unlinked' \subseteq unl
BY DEF FlushFails, Unmark, HasTx

LEMMA FlushIgnoredKeepsTx ==
    ASSUME NEW mode, NEW st, NEW drt, NEW unl, FlushIgnored(mode, st, drt, unl)
    PROVE  /\ \A b \in Blocks : HasTx(st, b) => HasTx(status', b)
           /\ unlinked' \subseteq unl
BY FlushKeepsTx, FlushFailsKeepsTx DEF FlushIgnored

LEMMA MarkKeepsTx ==
    ASSUME NEW st, NEW S, NEW F
    PROVE  /\ \A b \in Blocks : HasTx(st, b) => HasTx(Mark(st, S, F), b)
           /\ "TRANSACTIONS" \notin F =>
                 \A b \in Blocks : HasTx(st, b) => HasTx(Unmark(st, S, F), b)
BY DEF Mark, Unmark, HasTx

\* The blocks that a received block b links have all their ancestors: those of
\* b were linked, the others wait in mapBlocksUnlinked.
LEMMA StoreBlockLinks ==
    ASSUME LinkInv, NEW b \in Blocks \ {Genesis}, StoreBlock(b)
    PROVE  LinkInv'
<1> DEFINE st == Stored(b)
<1>1. /\ \A x \in Blocks : HasTx(status, x) => HasTx(st, x)
      /\ HasTx(st, b)
  BY DEF Stored, Mark, WithHeader, HasTx
<1>2. CASE Parent[b] \in linked
  <2> DEFINE L == NowLinked(b)
  <2>1. /\ linked' = linked \cup L /\ candidates' \subseteq candidates \cup L
        /\ \E drt : FlushIgnored("NONE", st, drt, unlinked \ (L \ {b}))
    BY <1>2 DEF StoreBlock, NewCandidates
  <2>2. /\ \A x \in Blocks : HasTx(st, x) => HasTx(status', x)
        /\ unlinked' \subseteq unlinked
    BY <2>1, FlushIgnoredKeepsTx
  <2>3. \A x \in Blocks : Processed(status, x) => Processed(status', x)
    BY <1>1, <2>2, AncestorsType DEF Processed
  <2>4. ASSUME NEW x \in L, NEW a \in Ancestors[x] PROVE HasTx(status', a)
    <3>1. x \in Blocks /\ a \in Blocks /\ Ancestors[x] \ Ancestors[b] \subseteq unlinked
      BY AncestorsType DEF NowLinked
    <3>2. CASE a \in unlinked
      BY <1>1, <2>2, <3>1, <3>2 DEF LinkInv
    <3>3. CASE a \in Ancestors[b]
      <4>1. a = b \/ a \in Ancestors[Parent[b]]
        BY <3>3, AncestorsParent
      <4>2. Processed(status', Parent[b])
        BY <1>2, <2>3 DEF LinkInv
      <4> QED BY <1>1, <2>2, <4>1, <4>2 DEF Processed
    <3> QED BY <3>1, <3>2, <3>3
  <2>5. L \subseteq Blocks /\ \A x \in L : Processed(status', x)
    BY <2>4 DEF Processed, NowLinked
  <2> QED BY <1>1, <2>1, <2>2, <2>3, <2>5 DEF LinkInv
<1>3. CASE Parent[b] \notin linked
  <2>1. /\ linked' = linked \ {b} /\ candidates' = candidates
        /\ \E drt : FlushIgnored("NONE", st, drt, AwaitParent(b))
    BY <1>3 DEF StoreBlock
  <2>2. /\ \A x \in Blocks : HasTx(st, x) => HasTx(status', x)
        /\ unlinked' \subseteq unlinked \cup {b}
    BY <2>1, FlushIgnoredKeepsTx DEF AwaitParent
  <2> QED BY <1>1, <2>1, <2>2, KeepsLinks
<1> QED BY <1>2, <1>3

\* LoadBlockIndexDB recomputes everything from the index it finds.
LEMMA LoadLinks ==
    ASSUME NEW t, NEW ds, LoadBlockIndexDB(t, ds)
    PROVE  LinkInv'
<1>1. /\ status' = ds /\ linked' = LoadLinked(ds)
      /\ candidates' \subseteq LoadLinked(ds)
      /\ unlinked' \subseteq {b \in Blocks \ {Genesis} : "TRANSACTIONS" \in ds[b]}
  BY DEF LoadBlockIndexDB, PrunedCandidates
<1>2. LoadLinked(ds) \subseteq Blocks /\ \A b \in LoadLinked(ds) : Processed(ds, b)
  BY DEF LoadLinked, Processed, HasTx
<1> QED BY <1>1, <1>2 DEF LinkInv, HasTx

LEMMA DiscardCandidateLinks ==
    ASSUME LinkInv, NEW t, DiscardCandidate(t)
    PROVE  LinkInv'
<1>0. PICK c \in candidates : \E test \in Obstacles(c) :
         LET above == {x \in Ancestors[c] : Height[x] > Height[test]} IN
         /\ candidates' = candidates \ (above \cup {test})
         /\ \/ /\ status' = Mark(status, above, {"FAILED_CHILD"})
               /\ UNCHANGED unlinked
            \/ /\ unlinked' = Shelve(above)
               /\ UNCHANGED status
  BY DEF DiscardCandidate
<1>1. PICK test \in Obstacles(c) :
         LET above == {x \in Ancestors[c] : Height[x] > Height[test]} IN
         /\ candidates' = candidates \ (above \cup {test})
         /\ \/ /\ status' = Mark(status, above, {"FAILED_CHILD"})
               /\ UNCHANGED unlinked
            \/ /\ unlinked' = Shelve(above)
               /\ UNCHANGED status
  BY <1>0
<1>2. linked' = linked
  BY DEF DiscardCandidate
<1> DEFINE above == {x \in Ancestors[c] : Height[x] > Height[test]}
<1>3. c \in Blocks /\ Processed(status, c)
  BY DEF LinkInv
<1>4. above \subseteq Blocks /\ \A x \in above : HasTx(status, x)
  BY <1>3, AncestorsType DEF Processed
<1>5. test \in Blocks
  BY <1>3, AncestorsType DEF Obstacles
<1>6. Genesis \notin above
  BY <1>5, HeightAssumption
<1>7. \A b \in Blocks : HasTx(status, b) => HasTx(status', b)
  BY <1>1, MarkKeepsTx
<1>8. unlinked' \subseteq unlinked \cup above
  BY <1>1 DEF Shelve
<1>9. unlinked' \subseteq unlinked \cup {b \in Blocks \ {Genesis} : HasTx(status', b)}
  <2> HIDE DEF above
  <2> QED BY <1>4, <1>6, <1>7, <1>8
<1>10. candidates' \subseteq candidates
  BY <1>1
<1> QED BY <1>2, <1>7, <1>9, <1>10, KeepsLinks

\* Every other step of a thread, the periodic flush and the two RPCs
LEMMA ActivationLinks ==
    ASSUME LinkInv, NEW t \in Threads, Activation(t)
    PROVE  LinkInv'
<1> USE FlushKeepsTx, FlushFailsKeepsTx, FlushIgnoredKeepsTx, MarkKeepsTx, KeepsLinks
<1>1. CASE DiscardCandidate(t)
  BY <1>1, DiscardCandidateLinks
<1>2. CASE NothingToDo(t)
  BY <1>2 DEF NothingToDo, memory
<1>3. CASE BeginStep(t)
  BY <1>3 DEF BeginStep, memory
<1>4. CASE EnterLoop(t)
  BY <1>4 DEF EnterLoop, memory
<1>5. CASE DisconnectTip(t)
  BY <1>5 DEF DisconnectTip
<1>6. CASE TipAborts(t)
  BY <1>6 DEF TipAborts, memory
<1>7. CASE ConnectTip(t)
  BY <1>7 DEF ConnectTip, Connected, PrunedCandidates
<1>8. CASE ConnectTipInvalid(t)
  BY <1>8 DEF ConnectTipInvalid
<1>9. CASE TipWriteError(t)
  <2>1. /\ UNCHANGED <<linked, candidates>>
        /\ \/ FlushFails("IF_NEEDED", status, dirty, unlinked)
           \/ \E n \in Blocks : FlushFails("IF_NEEDED", Connected(n), DirtyConnected(n), unlinked)
           \/ UNCHANGED <<status, unlinked>>
    BY <1>9 DEF TipWriteError
  <2> QED BY <2>1 DEF Connected
<1>10. CASE CheckTip(t)
  BY <1>10 DEF CheckTip, memory
<1>11. CASE FlushAndReturn(t)
  BY <1>11 DEF FlushAndReturn
<1>12. CASE UndoFails(t)
  BY <1>12 DEF UndoFails, memory
<1>13. CASE IndexWriteThrows(t)
  <2>1. /\ UNCHANGED <<linked, candidates, unlinked>>
        /\ status' = status \/ \E n \in Blocks : status' = Connected(n)
    BY <1>13 DEF IndexWriteThrows
  <2> QED BY <2>1 DEF Connected
<1> QED
  BY <1>1, <1>2, <1>3, <1>4, <1>5, <1>6, <1>7, <1>8, <1>9, <1>10, <1>11, <1>12, <1>13
     DEF Activation

LEMMA ProcessNewBlockLinks ==
    ASSUME LinkInv, NEW t, NEW b \in Blocks \ {Genesis}, NEW r, ProcessNewBlock(t, b, r)
    PROVE  LinkInv'
<1>1. CASE StoreBlock(b)
  BY <1>1, StoreBlockLinks
<1>2. CASE /\ status' \in {WithHeader(b), Mark(WithHeader(b), {b}, {"FAILED_VALID"})}
           /\ UNCHANGED <<linked, candidates, unlinked>>
  <2>1. \A x \in Blocks : HasTx(status, x) => HasTx(status', x)
    BY <1>2, MarkKeepsTx DEF WithHeader
  <2> QED BY <1>2, <2>1, KeepsLinks
<1> QED BY <1>1, <1>2 DEF ProcessNewBlock

LEMMA LinkInvNext == LinkInv /\ [Next]_vars => LinkInv'
<1> SUFFICES ASSUME LinkInv, [Next]_vars PROVE LinkInv'
  OBVIOUS
<1> USE FlushKeepsTx, FlushFailsKeepsTx, FlushIgnoredKeepsTx, MarkKeepsTx, KeepsLinks
<1>1. CASE \E b \in HeaderFirst : AcceptBlockHeader(b)
  BY <1>1 DEF AcceptBlockHeader, WithHeader
<1>2. CASE \E t \in Threads, b \in Blocks \ {Genesis}, r \in BOOLEAN : ProcessNewBlock(t, b, r)
  BY <1>2, ProcessNewBlockLinks
<1>3. CASE \E t \in Threads : Activation(t)
  BY <1>3, ActivationLinks
<1>4. CASE PeriodicFlush
  BY <1>4 DEF PeriodicFlush
<1>5. CASE \E t \in Threads, b \in InvalidateTargets : InvalidateBlock(t, b)
  BY <1>5 DEF InvalidateBlock
<1>6. CASE \E t \in Threads : InvalidateWalk(t) \/ InvalidateFails(t)
  BY <1>6 DEF InvalidateWalk, InvalidateFails, MarkedTip
<1>7. CASE \E t \in Threads : InvalidateEnd(t)
  BY <1>7 DEF InvalidateEnd, BackInPlay
<1>8. CASE \E t \in Threads, b \in ReconsiderTargets : ReconsiderBlock(t, b)
  BY <1>8 DEF ReconsiderBlock, FailedMask
<1>9. CASE RequestShutdown \/ Shutdown
  BY <1>9 DEF RequestShutdown, Shutdown, memory
<1>10. CASE \E t \in Threads : InitPrune(t)
  BY <1>10 DEF InitPrune
<1>11. CASE \E t \in Threads : Restart(t) \/ Crash(t)
  BY <1>11, LoadLinks DEF Restart, Crash
<1>12. CASE UNCHANGED vars
  BY <1>12 DEF vars, memory
<1> QED
  BY <1>1, <1>2, <1>3, <1>4, <1>5, <1>6, <1>7, <1>8, <1>9, <1>10, <1>11, <1>12 DEF Next

LEMMA LinkInvariance == Spec => []LinkInv
<1>1. Init => LinkInv
  BY AncestorsGenesis, BlocksAssumption DEF Init, LinkInv, Processed, HasTx
<1> QED BY <1>1, LinkInvNext, PTL DEF Spec

\* nChainTx # 0 means that the transactions of the block and of every ancestor
\* have been received (the assertion of FindMostWorkChain, main.cpp:3021), for
\* any tree, any order of arrival, and with failing writes and crashes.
THEOREM LinkedIsSound == Spec => []LinkedSound
<1>1. LinkInv => LinkedSound
  BY DEF LinkInv, LinkedSound, AllProcessed, Processed, HasTx
<1> QED BY <1>1, LinkInvariance, PTL
-----------------------------------------------------------------------------
(* Memory and disk *)

\* The flags that only grow while the node runs
Level == {"TREE", "TRANSACTIONS", "SCRIPTS"}

\* b can be the best block of the coins: everything below it is verified.
Verified(st, b) ==
    /\ Processed(st, b)
    /\ \A a \in Ancestors[b] \ {Genesis} : "SCRIPTS" \in st[a]

\* An index st with dirty entries drt against the index ds and best block dc
\* on disk: they differ, as far as Level goes, only in dirty entries.
Coherent(st, drt, ds, dc) ==
    /\ st \in [Blocks -> SUBSET Flags] /\ ds \in [Blocks -> SUBSET Flags]
    /\ drt \subseteq Blocks /\ dc \in Blocks
    /\ \A b \in Blocks : /\ st[b] # {} => "TREE" \in st[b]
                         /\ ds[b] # {} => "TREE" \in ds[b]
    /\ \A b \in Blocks : Level \cap ds[b] \subseteq st[b]
    /\ \A b \in Blocks \ drt : Level \cap st[b] \subseteq ds[b]
    /\ \A b \in Blocks : "SCRIPTS" \in st[b] => b \notin InvalidScripts
    /\ Verified(ds, dc)

Rest ==
    /\ seq \in [Blocks -> Nat] /\ nextSeq \in Nat
    /\ tip \in Blocks
    /\ owner \in Threads \cup {NoThread}
    /\ pc \in [Threads -> PC]
    /\ target \in [Threads -> Blocks]
    /\ oldTip \in Blocks
    /\ phase \in {"up", "torn", "stopping", "down"}
    /\ calls \in Nat /\ restarts \in Nat /\ errors \in Nat

Position ==
    /\ coins = tip
    /\ Verified(status, tip)
    /\ \A t \in Threads : pc[t] = "step" => Processed(status, target[t])
    /\ \A t \in Threads : pc[t] = "inval" => target[t] # Genesis

DiskInv == Rest /\ Position /\ Coherent(status, dirty, diskStatus, diskCoins)

LEMMA LevelKeeps ==
    ASSUME NEW st, NEW st2, NEW b \in Blocks,
           \A a \in Blocks : Level \cap st[a] \subseteq st2[a]
    PROVE  /\ Processed(st, b) => Processed(st2, b)
           /\ Verified(st, b) => Verified(st2, b)
BY AncestorsType DEF Level, Processed, HasTx, Verified

\* Whatever a flush decides to write, memory and disk stay coherent.
LEMMA FlushCoherent ==
    ASSUME NEW mode, NEW st, NEW drt, NEW unl, NEW best \in Blocks,
           Coherent(st, drt, diskStatus, diskCoins), Verified(st, best),
           FlushStateToDisk(mode, st, drt, unl, best)
    PROVE  /\ Coherent(status', dirty', diskStatus', diskCoins')
           /\ \A b \in Blocks : Level \cap st[b] \subseteq status'[b]
<1>1. PICK P \in PruneSets(st) :
         LET st1 == Unmark(st, P, {"DATA", "UNDO"}) IN
         /\ status' = st1
         /\ \/ /\ dirty' = drt
               /\ P = {}
               /\ UNCHANGED disk
            \/ /\ dirty' = {}
               /\ P = {}
               /\ diskStatus' = Written(st1, drt)
               /\ UNCHANGED diskCoins
            \/ /\ dirty' = {}
               /\ diskStatus' = Written(st1, drt \cup P)
               /\ diskCoins' = best
  BY DEF FlushStateToDisk
<1> DEFINE st1 == Unmark(st, P, {"DATA", "UNDO"})
<1>2. P \subseteq Blocks
  BY DEF PruneSets
<1>3. /\ st1 \in [Blocks -> SUBSET Flags]
      /\ \A b \in Blocks : st1[b] # {} => "TREE" \in st1[b]
      /\ \A b \in Blocks : Level \cap st[b] = Level \cap st1[b]
      /\ \A b \in Blocks : "SCRIPTS" \in st1[b] => b \notin InvalidScripts
  BY DEF Coherent, Unmark, Level
<1>4. Verified(st1, best)
  BY <1>3, LevelKeeps
<1>5. \A b \in Blocks : Level \cap diskStatus[b] \subseteq st1[b]
  BY <1>3 DEF Coherent
<1>6. \A b \in Blocks \ drt : Level \cap st1[b] \subseteq diskStatus[b]
  BY <1>3 DEF Coherent
<1>7. ASSUME NEW D \in SUBSET Blocks, drt \subseteq D
      PROVE  /\ Written(st1, D) \in [Blocks -> SUBSET Flags]
             /\ \A b \in Blocks : Written(st1, D)[b] # {} => "TREE" \in Written(st1, D)[b]
             /\ \A b \in Blocks : Level \cap Written(st1, D)[b] = Level \cap st1[b]
  <2>1. ASSUME NEW b \in Blocks PROVE Written(st1, D)[b] = IF b \in D THEN st1[b] ELSE diskStatus[b]
    BY DEF Written
  <2>2. Written(st1, D) \in [Blocks -> SUBSET Flags]
    BY <1>3 DEF Written, Coherent
  <2>3. \A b \in Blocks : Written(st1, D)[b] # {} => "TREE" \in Written(st1, D)[b]
    BY <1>3, <2>1 DEF Coherent
  <2>4. \A b \in Blocks : Level \cap Written(st1, D)[b] = Level \cap st1[b]
    <3> HIDE DEF st1
    <3> QED BY <1>5, <1>6, <1>7, <2>1
  <2> QED BY <2>2, <2>3, <2>4
<1>8. Verified(diskStatus, diskCoins) /\ diskCoins \in Blocks /\ drt \subseteq Blocks
  BY DEF Coherent
<1>9. Verified(st1, diskCoins)
  BY <1>5, <1>8, LevelKeeps
<1>10. CASE dirty' = drt /\ P = {} /\ UNCHANGED disk
  <2>1. status' = st1
    BY <1>1
  <2> HIDE DEF st1
  <2> QED BY <1>3, <1>5, <1>6, <1>8, <1>10, <2>1 DEF Coherent, disk
<1>11. ASSUME NEW D \in SUBSET Blocks, drt \subseteq D, dirty' = {},
              diskStatus' = Written(st1, D), diskCoins' \in {diskCoins, best}
       PROVE  /\ Coherent(status', dirty', diskStatus', diskCoins')
              /\ \A b \in Blocks : Level \cap st[b] \subseteq status'[b]
  <2>1. status' = st1 /\ diskCoins' \in Blocks
    BY <1>1, <1>8, <1>11
  <2> HIDE DEF st1
  <2>2. Verified(st1, diskCoins')
    BY <1>4, <1>9, <1>11
  <2>3. /\ diskStatus' \in [Blocks -> SUBSET Flags]
        /\ \A b \in Blocks : diskStatus'[b] # {} => "TREE" \in diskStatus'[b]
        /\ \A b \in Blocks : Level \cap diskStatus'[b] = Level \cap st1[b]
    BY <1>7, <1>11
  <2>4. Verified(diskStatus', diskCoins')
    BY <2>1, <2>2, <2>3, LevelKeeps
  <2> QED BY <1>3, <1>11, <2>1, <2>3, <2>4 DEF Coherent
<1> QED BY <1>1, <1>2, <1>8, <1>10, <1>11

\* What may be on disk when LoadBlockIndexDB starts
OnDisk(ds) ==
    /\ ds \in [Blocks -> SUBSET Flags]
    /\ \A b \in Blocks : ds[b] # {} => "TREE" \in ds[b]
    /\ \A b \in Blocks : Level \cap diskStatus[b] \subseteq ds[b]
    /\ \A b \in Blocks : "SCRIPTS" \in ds[b] => b \notin InvalidScripts

\* A flush that a crash cuts off between its two writes
LEMMA CutCoherent ==
    ASSUME NEW mode, NEW st, NEW drt, Coherent(st, drt, diskStatus, diskCoins),
           NEW ds \in CutFlush(mode, st, drt)
    PROVE  OnDisk(ds)
<1>1. PICK P \in PruneSets(st) : ds = Written(Unmark(st, P, {"DATA", "UNDO"}), drt \cup P)
  BY DEF CutFlush
<1> DEFINE st1 == Unmark(st, P, {"DATA", "UNDO"})
<1>2. /\ st1 \in [Blocks -> SUBSET Flags]
      /\ \A b \in Blocks : st1[b] # {} => "TREE" \in st1[b]
      /\ \A b \in Blocks : Level \cap st[b] = Level \cap st1[b]
      /\ \A b \in Blocks : "SCRIPTS" \in st1[b] => b \notin InvalidScripts
  BY DEF Coherent, Unmark, Level
<1> HIDE DEF st1
<1>3. \A b \in Blocks : ds[b] = st1[b] \/ ds[b] = diskStatus[b]
  BY <1>1 DEF st1, Written
<1>4. ds \in [Blocks -> SUBSET Flags]
  BY <1>1, <1>2 DEF st1, Written, Coherent
<1>5. \A b \in Blocks : Level \cap diskStatus[b] \subseteq st1[b]
  BY <1>2 DEF Coherent
<1>6. \A b \in Blocks : "SCRIPTS" \in diskStatus[b] => b \notin InvalidScripts
  BY DEF Coherent, Level
<1> QED BY <1>2, <1>3, <1>4, <1>5, <1>6 DEF OnDisk, Coherent

\* After a restart from an index on disk, complete or without the last write.
LEMMA LoadCoherent ==
    ASSUME DiskInv, NEW t \in Threads, NEW ds, OnDisk(ds), LoadBlockIndexDB(t, ds)
    PROVE  DiskInv'
<1>1. /\ diskStatus' = ds /\ status' = ds /\ diskCoins' = diskCoins /\ tip' = diskCoins
      /\ coins' = diskCoins /\ dirty' = {}
      /\ pc' = [u \in Threads |-> IF u = t THEN "init" ELSE "idle"]
      /\ target' = [u \in Threads |-> Genesis] /\ oldTip' = Genesis /\ owner' = t
      /\ seq' = [b \in Blocks |-> 0] /\ nextSeq' = 1 /\ phase' = "up"
      /\ restarts' = restarts + 1 /\ calls' = calls /\ errors' = errors
  BY DEF LoadBlockIndexDB
<1>2. Coherent(status, dirty, diskStatus, diskCoins)
  BY DEF DiskInv
<1>3. /\ ds \in [Blocks -> SUBSET Flags]
      /\ \A b \in Blocks : ds[b] # {} => "TREE" \in ds[b]
      /\ \A b \in Blocks : Level \cap diskStatus[b] \subseteq ds[b]
      /\ \A b \in Blocks : "SCRIPTS" \in ds[b] => b \notin InvalidScripts
  BY DEF OnDisk
<1>4. Verified(ds, diskCoins)
  BY <1>2, <1>3, LevelKeeps DEF Coherent
<1>6. Coherent(ds, {}, ds, diskCoins)
  BY <1>2, <1>3, <1>4 DEF Coherent
<1>7. Rest'
  BY <1>1, <1>2, BlocksAssumption DEF DiskInv, Rest, PC, Coherent
<1>8. Position'
  BY <1>1, <1>4 DEF Position
<1> QED BY <1>1, <1>6, <1>7, <1>8 DEF DiskInv

\* Marking blocks of the index with flags other than SCRIPTS, the ones with a
\* new flag of Level being dirty, keeps coherence.
LEMMA MarkCoherent ==
    ASSUME NEW st, NEW drt, NEW S \in SUBSET Blocks, NEW F \in SUBSET (Flags \ {"SCRIPTS"}),
           NEW drt2 \in SUBSET Blocks,
           Coherent(st, drt, diskStatus, diskCoins),
           F \cap Level # {} => S \subseteq drt2,
           drt \subseteq drt2,
           "TREE" \in F \/ \A b \in S : "TREE" \in st[b]
    PROVE  /\ Coherent(Mark(st, S, F), drt2, diskStatus, diskCoins)
           /\ \A b \in Blocks : st[b] \subseteq Mark(st, S, F)[b]
<1> DEFINE m == Mark(st, S, F)
<1>1. \A b \in Blocks : m[b] = IF b \in S THEN st[b] \cup F ELSE st[b]
  BY DEF Mark
<1>2. m \in [Blocks -> SUBSET Flags]
  BY DEF Mark, Coherent
<1> HIDE DEF m
<1>3. \A b \in Blocks : m[b] # {} => "TREE" \in m[b]
  BY <1>1 DEF Coherent
<1>4. \A b \in Blocks : Level \cap diskStatus[b] \subseteq m[b]
  BY <1>1 DEF Coherent
<1>5. \A b \in Blocks \ drt2 : Level \cap m[b] \subseteq diskStatus[b]
  BY <1>1 DEF Coherent
<1>6. \A b \in Blocks : "SCRIPTS" \in m[b] => b \notin InvalidScripts
  BY <1>1 DEF Coherent
<1>7. Coherent(m, drt2, diskStatus, diskCoins)
  BY <1>2, <1>3, <1>4, <1>5, <1>6 DEF Coherent
<1> QED BY <1>1, <1>7 DEF m

\* The tip and every target stay what they are while the index grows.
LEMMA KeepsPosition ==
    ASSUME DiskInv, \A b \in Blocks : Level \cap status[b] \subseteq status'[b],
           tip' = tip, coins' = tip,
           \A t \in Threads : pc'[t] = "step" => pc[t] = "step" /\ target'[t] = target[t],
           \A t \in Threads : pc'[t] = "inval" => pc[t] = "inval" /\ target'[t] = target[t]
    PROVE  Position'
<1>1. Verified(status', tip')
  BY LevelKeeps DEF DiskInv, Rest, Position
<1>2. \A t \in Threads : pc'[t] = "step" => Processed(status', target'[t])
  BY LevelKeeps DEF DiskInv, Rest, Position
<1> QED BY <1>1, <1>2 DEF DiskInv, Position

LEMMA HeaderCoherent ==
    ASSUME DiskInv, NEW b \in Blocks
    PROVE  /\ Coherent(WithHeader(b), DirtyHeader(b), diskStatus, diskCoins)
           /\ \A x \in Blocks : status[x] \subseteq WithHeader(b)[x]
           /\ "TREE" \in WithHeader(b)[b]
           /\ DirtyHeader(b) \subseteq dirty \cup {b}
<1>1. dirty \in SUBSET Blocks
  BY DEF DiskInv, Coherent
<1>2. /\ Coherent(WithHeader(b), DirtyHeader(b), diskStatus, diskCoins)
      /\ \A x \in Blocks : status[x] \subseteq WithHeader(b)[x]
  <2> DEFINE S == {b} \ Index
  <2>1. /\ S \in SUBSET Blocks /\ {"TREE"} \in SUBSET (Flags \ {"SCRIPTS"})
        /\ dirty \cup S \in SUBSET Blocks /\ "TREE" \in {"TREE"}
    BY <1>1 DEF Flags
  <2> HIDE DEF S
  <2>2. /\ Coherent(Mark(status, S, {"TREE"}), dirty \cup S, diskStatus, diskCoins)
        /\ \A x \in Blocks : status[x] \subseteq Mark(status, S, {"TREE"})[x]
    BY <2>1, MarkCoherent DEF DiskInv
  <2> QED BY <2>2 DEF WithHeader, DirtyHeader, S
<1>3. "TREE" \in WithHeader(b)[b]
  BY DEF WithHeader, Mark, Index
<1> QED BY <1>2, <1>3 DEF DirtyHeader

LEMMA AcceptBlockHeaderDisk ==
    ASSUME DiskInv, NEW b \in Blocks, AcceptBlockHeader(b)
    PROVE  DiskInv'
<1>1. /\ status' = WithHeader(b) /\ dirty' = DirtyHeader(b)
      /\ UNCHANGED <<linked, seq, nextSeq, candidates, unlinked, tip, coins, disk, local,
                     phase, bounds>>
  BY DEF AcceptBlockHeader
<1>2. Coherent(status', dirty', diskStatus', diskCoins')
  BY <1>1, HeaderCoherent DEF disk
<1>3. Position'
  BY <1>1, HeaderCoherent, KeepsPosition DEF DiskInv, Position, local
<1>4. Rest'
  BY <1>1 DEF DiskInv, Rest, local, bounds
<1> QED BY <1>2, <1>3, <1>4 DEF DiskInv

\* The sequence ids that ReceivedBlockTransactions hands out
LEMMA NewSeqsType ==
    ASSUME nextSeq \in Nat, seq \in [Blocks -> Nat], NEW L \in SUBSET Blocks,
           NEW f \in NewSeqs(L)
    PROVE  /\ [x \in Blocks |-> IF x \in L THEN f[x] ELSE seq[x]] \in [Blocks -> Nat]
           /\ nextSeq + Cardinality(L) \in Nat
<1>1. Cardinality(L) \in Nat
  BY BlocksAssumption, FS_Subset, FS_CardinalityType
<1>2. f \in [L -> nextSeq .. (nextSeq + Cardinality(L) - 1)]
  BY DEF NewSeqs
<1>3. \A x \in L : f[x] \in Nat
  BY <1>1, <1>2
<1> QED BY <1>1, <1>3

\* If writes do not fail, every flush is a FlushStateToDisk.
LEMMA NoErrors ==
    ASSUME MaxErrors = 0, DiskInv, NEW mode, NEW st, NEW drt, NEW unl
    PROVE  /\ ~WriteFails /\ ~FlushFails(mode, st, drt, unl)
           /\ FlushIgnored(mode, st, drt, unl) =>
                 FlushStateToDisk(mode, st, drt, unl, coins) /\ UNCHANGED <<phase, errors>>
<1>1. errors \in Nat
  BY DEF DiskInv, Rest
<1>2. ~WriteFails /\ ~FlushFails(mode, st, drt, unl)
  BY <1>1 DEF WriteFails, FlushFails
<1> QED BY <1>2 DEF FlushIgnored

\* The index after a block has been stored, or rejected, is coherent.
LEMMA StoredCoherent ==
    ASSUME DiskInv, NEW b \in Blocks, NEW F \in SUBSET (Flags \ {"SCRIPTS"})
    PROVE  /\ Coherent(Mark(WithHeader(b), {b}, F), dirty \cup {b}, diskStatus, diskCoins)
           /\ \A x \in Blocks : status[x] \subseteq Mark(WithHeader(b), {b}, F)[x]
<1>1. dirty \cup {b} \in SUBSET Blocks
  BY DEF DiskInv, Coherent
<1>2. \A x \in {b} : "TREE" \in WithHeader(b)[x]
  BY HeaderCoherent
<1>3. /\ Coherent(WithHeader(b), DirtyHeader(b), diskStatus, diskCoins)
      /\ DirtyHeader(b) \subseteq dirty \cup {b}
      /\ \A x \in Blocks : status[x] \subseteq WithHeader(b)[x]
  BY HeaderCoherent
<1>4. {b} \in SUBSET Blocks /\ {b} \subseteq dirty \cup {b}
  OBVIOUS
<1>5. /\ Coherent(Mark(WithHeader(b), {b}, F), dirty \cup {b}, diskStatus, diskCoins)
      /\ \A x \in Blocks : WithHeader(b)[x] \subseteq Mark(WithHeader(b), {b}, F)[x]
  BY <1>1, <1>2, <1>3, <1>4, MarkCoherent
<1> QED BY <1>3, <1>5

LEMMA ProcessNewBlockDisk ==
    ASSUME MaxErrors = 0, DiskInv, NEW t \in Threads, NEW b \in Blocks \ {Genesis}, NEW r,
           ProcessNewBlock(t, b, r)
    PROVE  DiskInv'
<1>1. /\ UNCHANGED <<tip, coins, owner, target, oldTip, phase, bounds>>
      /\ pc' \in {pc, [pc EXCEPT ![t] = "loop"]}
  BY NoErrors DEF ProcessNewBlock, StoreBlock, bounds
<1>2. Rest /\ Position /\ tip \in Blocks /\ Verified(status, tip) /\ coins = tip
  BY DEF DiskInv, Rest, Position
<1>3. \A u \in Threads : /\ pc'[u] = "step" => pc[u] = "step" /\ target'[u] = target[u]
                         /\ pc'[u] = "inval" => pc[u] = "inval" /\ target'[u] = target[u]
  BY <1>1, <1>2 DEF Rest
<1>5. \A F \in SUBSET (Flags \ {"SCRIPTS"}) :
        /\ Coherent(Mark(WithHeader(b), {b}, F), dirty \cup {b}, diskStatus, diskCoins)
        /\ \A x \in Blocks : status[x] \subseteq Mark(WithHeader(b), {b}, F)[x]
  BY StoredCoherent
<1>6. /\ Coherent(status', dirty', diskStatus', diskCoins')
      /\ \A x \in Blocks : Level \cap status[x] \subseteq status'[x]
  <2>1. CASE status' = WithHeader(b) /\ dirty' = DirtyHeader(b) /\ UNCHANGED disk
    BY <2>1, HeaderCoherent DEF disk
  <2>2. CASE /\ status' = Mark(WithHeader(b), {b}, {"FAILED_VALID"})
             /\ dirty' = dirty \cup {b} /\ UNCHANGED disk
    <3>1. {"FAILED_VALID"} \in SUBSET (Flags \ {"SCRIPTS"})
      BY DEF Flags
    <3> QED BY <1>5, <2>2, <3>1 DEF disk
  <2>3. CASE StoreBlock(b)
    <3> DEFINE st == Mark(WithHeader(b), {b}, {"TRANSACTIONS", "DATA"})
    <3>1. \E unl : FlushStateToDisk("NONE", st, dirty \cup {b}, unl, coins)
      BY <2>3, NoErrors DEF StoreBlock, Stored
    <3>2. {"TRANSACTIONS", "DATA"} \in SUBSET (Flags \ {"SCRIPTS"})
      BY DEF Flags
    <3>3. /\ Coherent(st, dirty \cup {b}, diskStatus, diskCoins)
          /\ \A x \in Blocks : status[x] \subseteq st[x]
      BY <1>5, <3>2
    <3> HIDE DEF st
    <3>4. Verified(st, coins) /\ coins \in Blocks
      BY <1>2, <3>3, LevelKeeps
    <3>5. /\ Coherent(status', dirty', diskStatus', diskCoins')
          /\ \A x \in Blocks : Level \cap st[x] \subseteq status'[x]
      BY <3>1, <3>3, <3>4, FlushCoherent
    <3> QED BY <3>3, <3>5
  <2> QED BY <2>1, <2>2, <2>3 DEF ProcessNewBlock
<1>7. Position'
  BY <1>1, <1>2, <1>3, <1>6, KeepsPosition
<1>8. seq' \in [Blocks -> Nat] /\ nextSeq' \in Nat
  <2>1. CASE UNCHANGED <<seq, nextSeq>>
    BY <1>2, <2>1 DEF Rest
  <2>2. CASE StoreBlock(b) /\ ~UNCHANGED <<seq, nextSeq>>
    <3> DEFINE L == NowLinked(b)
    <3>1. /\ nextSeq' = nextSeq + Cardinality(L)
          /\ \E f \in NewSeqs(L) : seq' = [x \in Blocks |-> IF x \in L THEN f[x] ELSE seq[x]]
      BY <2>2 DEF StoreBlock
    <3>2. L \in SUBSET Blocks
      BY DEF NowLinked
    <3> QED BY <1>2, <3>1, <3>2, NewSeqsType DEF Rest
  <2> QED BY <2>1, <2>2 DEF ProcessNewBlock
<1>9. pc' \in [Threads -> PC]
  BY <1>1, <1>2 DEF Rest, PC
<1>10. Rest'
  BY <1>1, <1>2, <1>8, <1>9 DEF Rest, bounds
<1> QED BY <1>6, <1>7, <1>10 DEF DiskInv
\* A step that flushes with st as the index and best as the new (or old) tip
LEMMA FlushMoves ==
    ASSUME DiskInv, NEW mode, NEW st, NEW drt, NEW unl, NEW best \in Blocks,
           Coherent(st, drt, diskStatus, diskCoins),
           \A b \in Blocks : Level \cap status[b] \subseteq st[b],
           Verified(st, best),
           FlushStateToDisk(mode, st, drt, unl, best),
           tip' = best, coins' = best, target' = target,
           \A t \in Threads : pc'[t] \in {"step", "inval"} => pc'[t] = pc[t]
    PROVE  Position' /\ Coherent(status', dirty', diskStatus', diskCoins')
<1>1. /\ Coherent(status', dirty', diskStatus', diskCoins')
      /\ \A b \in Blocks : Level \cap st[b] \subseteq status'[b]
  BY FlushCoherent
<1>2. \A b \in Blocks : Level \cap status[b] \subseteq status'[b]
  BY <1>1
<1>3. Verified(status', tip')
  BY <1>1, LevelKeeps
<1>4. \A t \in Threads : pc'[t] = "step" => Processed(status', target'[t])
  BY <1>2, LevelKeeps DEF DiskInv, Rest, Position
<1> QED BY <1>1, <1>3, <1>4 DEF Position, DiskInv

\* The parts of DiskInv as facts
LEMMA DiskFacts ==
    ASSUME DiskInv
    PROVE  /\ Rest /\ Position /\ Coherent(status, dirty, diskStatus, diskCoins)
           /\ tip \in Blocks /\ coins = tip /\ Verified(status, tip)
           /\ dirty \subseteq Blocks
           /\ \A b \in Blocks : Level \cap status[b] \subseteq status[b]
           /\ \A b \in Blocks : HasTx(status, b) => "TREE" \in status[b]
BY DEF DiskInv, Rest, Position, Coherent, HasTx

LEMMA VerifiedParent ==
    ASSUME DiskInv, tip # Genesis
    PROVE  Parent[tip] \in Blocks /\ Verified(status, Parent[tip])
BY DiskFacts, AncestorsParent DEF Verified, Processed

LEMMA DisconnectTipDisk ==
    ASSUME DiskInv, NEW t \in Threads, DisconnectTip(t)
    PROVE  DiskInv'
<1>1. /\ tip \notin Ancestors[target[t]]
      /\ FlushStateToDisk("IF_NEEDED", status, dirty, unlinked, Parent[tip])
      /\ tip' = Parent[tip] /\ coins' = Parent[tip]
      /\ UNCHANGED <<linked, seq, nextSeq, candidates, local, phase, bounds>>
  BY DEF DisconnectTip, Disconnecting
<1>2. tip # Genesis
  BY <1>1, DiskFacts, GenesisIsAncestor DEF Rest
<1>3. Parent[tip] \in Blocks /\ Verified(status, Parent[tip])
  BY <1>2, VerifiedParent
<1>4. target' = target /\ \A u \in Threads : pc'[u] \in {"step", "inval"} => pc'[u] = pc[u]
  BY <1>1 DEF local
<1>5. Position' /\ Coherent(status', dirty', diskStatus', diskCoins')
  BY <1>1, <1>3, <1>4, DiskFacts, FlushMoves
<1>6. Rest'
  BY <1>1, <1>3, DiskFacts DEF Rest, local, bounds
<1> QED BY <1>5, <1>6 DEF DiskInv

\* Connecting a block whose ancestors are verified
LEMMA ConnectedCoherent ==
    ASSUME DiskInv, NEW t \in Threads, NEW n \in Blocks \ InvalidScripts, Connecting(t, n)
    PROVE  /\ Coherent(Connected(n), DirtyConnected(n), diskStatus, diskCoins)
           /\ \A b \in Blocks : status[b] \subseteq Connected(n)[b]
           /\ Verified(Connected(n), n)
<1>1. pc[t] = "step" /\ n \in Ancestors[target[t]] \ {Genesis} /\ Parent[n] = tip
  BY DEF Connecting
<1>2. HasTx(status, n) /\ "TREE" \in status[n]
  BY <1>1, DiskFacts DEF Position, Processed
<1>3. /\ \A b \in Blocks : Connected(n)[b] =
             IF b = n THEN status[b] \cup {"UNDO", "SCRIPTS"} ELSE status[b]
      /\ Connected(n) \in [Blocks -> SUBSET Flags]
  BY DiskFacts DEF Connected, Mark, Coherent, Flags
<1>4. /\ DirtyConnected(n) \subseteq Blocks /\ dirty \subseteq DirtyConnected(n)
      /\ n \in DirtyConnected(n) \/ Connected(n) = status
  BY DiskFacts DEF DirtyConnected
<1>5. \A b \in Blocks \ DirtyConnected(n) : Level \cap Connected(n)[b] \subseteq diskStatus[b]
  BY <1>3, <1>4, DiskFacts DEF Coherent
<1>6. Coherent(Connected(n), DirtyConnected(n), diskStatus, diskCoins)
  BY <1>2, <1>3, <1>4, <1>5, DiskFacts DEF Coherent
<1>7. \A b \in Blocks : status[b] \subseteq Connected(n)[b]
  BY <1>3
<1>8. Verified(Connected(n), tip)
  BY <1>7, DiskFacts, LevelKeeps
<1>9. Ancestors[n] = Ancestors[tip] \cup {n}
  BY <1>1, AncestorsParent
<1>10. HasTx(Connected(n), n) /\ "SCRIPTS" \in Connected(n)[n]
  BY <1>2, <1>3 DEF HasTx
<1>11. Verified(Connected(n), n)
  BY <1>8, <1>9, <1>10 DEF Verified, Processed
<1> QED BY <1>6, <1>7, <1>11

LEMMA ConnectTipDisk ==
    ASSUME DiskInv, NEW t \in Threads, ConnectTip(t)
    PROVE  DiskInv'
<1>1. PICK n \in Blocks \ InvalidScripts :
        /\ Connecting(t, n)
        /\ FlushStateToDisk("IF_NEEDED", Connected(n), DirtyConnected(n), unlinked, n)
        /\ tip' = n /\ coins' = n
        /\ \/ owner' = NoThread /\ pc' = [pc EXCEPT ![t] = "check"]
           \/ UNCHANGED <<owner, pc>>
        /\ UNCHANGED <<linked, seq, nextSeq, target, oldTip, phase, bounds>>
  BY DEF ConnectTip
<1>2. /\ Coherent(Connected(n), DirtyConnected(n), diskStatus, diskCoins)
      /\ \A b \in Blocks : status[b] \subseteq Connected(n)[b]
      /\ Verified(Connected(n), n)
  BY <1>1, ConnectedCoherent
<1>3. \A b \in Blocks : Level \cap status[b] \subseteq Connected(n)[b]
  BY <1>2
<1>4. pc' \in [Threads -> PC] /\ \A u \in Threads : pc'[u] \in {"step", "inval"} => pc'[u] = pc[u]
  BY <1>1, DiskFacts DEF Rest, PC
<1>5. Position' /\ Coherent(status', dirty', diskStatus', diskCoins')
  BY <1>1, <1>2, <1>3, <1>4, FlushMoves
<1>6. Rest'
  BY <1>1, <1>4, DiskFacts DEF Rest, bounds
<1> QED BY <1>5, <1>6 DEF DiskInv

\* Marking the tip as InvalidateBlock's loop does
LEMMA MarkedTipCoherent ==
    ASSUME DiskInv
    PROVE  /\ Coherent(MarkedTip, dirty \cup {tip}, diskStatus, diskCoins)
           /\ \A b \in Blocks : status[b] \subseteq MarkedTip[b]
<1> DEFINE drt == dirty \cup {tip}
<1>1. \A b \in {tip} : "TREE" \in status[b]
  BY DiskFacts, AncestorsType DEF Verified, Processed
<1>2. /\ {tip} \in SUBSET Blocks /\ drt \in SUBSET Blocks /\ dirty \subseteq drt
      /\ {"FAILED_CHILD"} \in SUBSET (Flags \ {"SCRIPTS"}) /\ {tip} \subseteq drt
  BY DiskFacts DEF Flags
<1> HIDE DEF drt
<1>3. /\ Coherent(Mark(status, {tip}, {"FAILED_CHILD"}), drt, diskStatus, diskCoins)
      /\ \A b \in Blocks : status[b] \subseteq Mark(status, {tip}, {"FAILED_CHILD"})[b]
  BY <1>1, <1>2, DiskFacts, MarkCoherent
<1> QED BY <1>3 DEF MarkedTip, drt

LEMMA InvalidateWalkDisk ==
    ASSUME DiskInv, NEW t \in Threads, InvalidateWalk(t)
    PROVE  DiskInv'
<1>1. /\ pc[t] = "inval" /\ target[t] \in Ancestors[tip]
      /\ UNCHANGED <<linked, seq, nextSeq, target, oldTip, bounds, owner, pc, phase>>
      /\ FlushStateToDisk("IF_NEEDED", MarkedTip, dirty \cup {tip}, unlinked, Parent[tip])
      /\ tip' = Parent[tip] /\ coins' = Parent[tip]
  BY DEF InvalidateWalk, StillActive, Active, bounds, local
<1>2. tip # Genesis
  BY <1>1, DiskFacts, AncestorsGenesis DEF Position
<1>3. Parent[tip] \in Blocks /\ Verified(status, Parent[tip])
  BY <1>2, VerifiedParent
<1>4. /\ Coherent(MarkedTip, dirty \cup {tip}, diskStatus, diskCoins)
      /\ \A b \in Blocks : status[b] \subseteq MarkedTip[b]
  BY MarkedTipCoherent
<1>5. /\ Verified(MarkedTip, Parent[tip])
      /\ \A b \in Blocks : Level \cap status[b] \subseteq MarkedTip[b]
  BY <1>3, <1>4, LevelKeeps
<1>6. Position' /\ Coherent(status', dirty', diskStatus', diskCoins')
  BY <1>1, <1>3, <1>4, <1>5, FlushMoves
<1>7. Rest'
  BY <1>1, <1>3, DiskFacts DEF Rest, bounds
<1> QED BY <1>6, <1>7 DEF DiskInv

\* Without failed writes only a block or its undo data can be missing.
LEMMA InvalidateFailsMarks ==
    ASSUME MaxErrors = 0, DiskInv, NEW t \in Threads, InvalidateFails(t)
    PROVE  /\ pc[t] = "inval" /\ target[t] \in Ancestors[tip]
           /\ candidates' = candidates \ {tip}
           /\ status' = MarkedTip /\ dirty' = dirty \cup {tip}
           /\ phase' \in {Torn, "stopping"} /\ owner' = NoThread
           /\ \E p \in {"idle", "loop"} : pc' = [pc EXCEPT ![t] = p]
           /\ UNCHANGED <<linked, seq, nextSeq, unlinked, tip, coins, disk, target, oldTip,
                          bounds>>
BY NoErrors DEF InvalidateFails, StillActive, Active, bounds

LEMMA InvalidateFailsDisk ==
    ASSUME MaxErrors = 0, DiskInv, NEW t \in Threads, InvalidateFails(t)
    PROVE  DiskInv'
<1>1. /\ status' = MarkedTip /\ dirty' = dirty \cup {tip}
      /\ phase' \in {Torn, "stopping"} /\ owner' = NoThread
      /\ \E p \in {"idle", "loop"} : pc' = [pc EXCEPT ![t] = p]
      /\ UNCHANGED <<linked, seq, nextSeq, unlinked, tip, coins, disk, target, oldTip, bounds>>
  BY InvalidateFailsMarks
<1>2. /\ pc' \in [Threads -> PC]
      /\ \A u \in Threads : pc'[u] \in {"step", "inval"} => pc'[u] = pc[u]
  BY <1>1, DiskFacts DEF Rest, PC
<1>3. /\ Coherent(status', dirty', diskStatus, diskCoins)
      /\ \A b \in Blocks : Level \cap status[b] \subseteq status'[b]
  BY <1>1, MarkedTipCoherent
<1>4. Position'
  BY <1>1, <1>2, <1>3, DiskFacts, KeepsPosition
<1>5. Rest'
  BY <1>1, <1>2, DiskFacts DEF Rest, Torn, bounds
<1> QED BY <1>1, <1>3, <1>4, <1>5 DEF DiskInv, disk

\* The entries st, with dirty set drt, that a flush under way may be writing
Flushing(st, drt) ==
    \/ st = status /\ drt = dirty
    \/ \E u \in Threads, b \in Blocks \ ({Genesis} \cup InvalidBody) :
          /\ Unlocked /\ pc[u] = "idle"
          /\ HeaderAccepted(b) /\ ~NotWanted(b, TRUE)
          /\ st = Stored(b) /\ drt = dirty \cup {b}
    \/ \E u \in Threads, n \in Blocks \ InvalidScripts :
          /\ Connecting(u, n) /\ Loaded(u, n) /\ CoinsAtTip
          /\ st = Connected(n) /\ drt = DirtyConnected(n)
    \/ \E u \in Threads :
          /\ pc[u] = "inval" /\ StillActive(target[u])
          /\ st = MarkedTip /\ drt = dirty \cup {tip}

\* A crash leaves the index as it was last written, or as a flush has just written it.
LEMMA CrashCases ==
    ASSUME NEW t, Crash(t)
    PROVE  \E ds : /\ LoadBlockIndexDB(t, ds)
                   /\ \/ ds = diskStatus
                      \/ \E mode, st, drt : ds \in CutFlush(mode, st, drt) /\ Flushing(st, drt)
<1> DEFINE Goal == \E ds : /\ LoadBlockIndexDB(t, ds)
                           /\ \/ ds = diskStatus
                              \/ \E mode, st, drt : ds \in CutFlush(mode, st, drt) /\ Flushing(st, drt)
           Leaves(S) == \E ds \in S : LoadBlockIndexDB(t, ds)
<1>1. CASE Leaves({diskStatus})
  BY <1>1
<1>2. ASSUME NEW mode, NEW st, NEW drt, Leaves(CutFlush(mode, st, drt)), Flushing(st, drt)
      PROVE  Goal
  BY <1>2
<1>3. CASE Unlocked /\ Leaves(CutFlush("PERIODIC", status, dirty))
  BY <1>2, <1>3 DEF Flushing
<1>4. ASSUME NEW u \in Threads, pc[u] = "init", Leaves(CutFlush("NONE", status, dirty))
      PROVE  Goal
  BY <1>2, <1>4 DEF Flushing
<1>5. ASSUME NEW u \in Threads, NEW b \in Blocks \ ({Genesis} \cup InvalidBody),
             Unlocked, pc[u] = "idle", HeaderAccepted(b), ~NotWanted(b, TRUE),
             Leaves(CutFlush("NONE", Stored(b), dirty \cup {b}))
      PROVE  Goal
  <2>1. Flushing(Stored(b), dirty \cup {b})
    BY <1>5 DEF Flushing
  <2> QED BY <1>2, <1>5, <2>1
<1>6. ASSUME NEW u \in Threads, Leaves(CutFlush("IF_NEEDED", status, dirty))
      PROVE  Goal
  BY <1>2, <1>6 DEF Flushing
<1>7. ASSUME NEW u \in Threads, NEW n \in Blocks \ InvalidScripts,
             Connecting(u, n), Loaded(u, n), CoinsAtTip,
             Leaves(CutFlush("IF_NEEDED", Connected(n), DirtyConnected(n)))
      PROVE  Goal
  <2>1. Flushing(Connected(n), DirtyConnected(n))
    BY <1>7 DEF Flushing
  <2> QED BY <1>2, <1>7, <2>1
<1>8. ASSUME NEW u \in Threads, pc[u] = "inval", StillActive(target[u]),
             Leaves(CutFlush("IF_NEEDED", MarkedTip, dirty \cup {tip}))
      PROVE  Goal
  <2>1. Flushing(MarkedTip, dirty \cup {tip})
    BY <1>8 DEF Flushing
  <2> QED BY <1>2, <1>8, <2>1
<1> HIDE DEF Goal
<1>9. Goal
  BY <1>1, <1>3, <1>4, <1>5, <1>6, <1>7, <1>8 DEF Crash, Goal
<1> QED BY <1>9 DEF Goal

LEMMA RestartLoads ==
    ASSUME NEW t, Restart(t) \/ Crash(t)
    PROVE  \E ds : LoadBlockIndexDB(t, ds)
BY CrashCases DEF Restart

\* Without pruning a flush that is cut off has written the dirty entries.
LEMMA CutWhole ==
    ASSUME PruneMode = FALSE, NEW mode, NEW st, NEW drt, NEW ds \in CutFlush(mode, st, drt)
    PROVE  ds = Written(st, drt)
<1>1. PruneSets(st) = {{}}
  BY DEF PruneSets
<1>2. ds = Written(Unmark(st, {}, {"DATA", "UNDO"}), drt \cup {})
  BY <1>1 DEF CutFlush
<1>3. \A b \in Blocks : Unmark(st, {}, {"DATA", "UNDO"})[b] = st[b]
  BY DEF Unmark
<1> QED BY <1>2, <1>3 DEF Written

LEMMA RestartCases ==
    ASSUME PruneMode = FALSE, NEW t, Restart(t) \/ Crash(t)
    PROVE  \E ds : /\ LoadBlockIndexDB(t, ds)
                   /\ \/ ds = diskStatus
                      \/ \E st, drt : ds = Written(st, drt) /\ Flushing(st, drt)
<1>1. CASE Restart(t)
  BY <1>1 DEF Restart
<1>2. CASE Crash(t)
  BY <1>2, CrashCases, CutWhole
<1> QED BY <1>1, <1>2

LEMMA FlushingCoherent ==
    ASSUME DiskInv, NEW st, NEW drt, Flushing(st, drt)
    PROVE  Coherent(st, drt, diskStatus, diskCoins)
<1>1. CASE st = status /\ drt = dirty
  BY <1>1 DEF DiskInv
<1>2. ASSUME NEW b \in Blocks, st = Stored(b), drt = dirty \cup {b}
      PROVE  Coherent(st, drt, diskStatus, diskCoins)
  <2>1. {"TRANSACTIONS", "DATA"} \in SUBSET (Flags \ {"SCRIPTS"})
    BY DEF Flags
  <2> QED BY <1>2, <2>1, StoredCoherent DEF Stored
<1>3. ASSUME NEW u \in Threads, NEW n \in Blocks \ InvalidScripts, Connecting(u, n),
             st = Connected(n), drt = DirtyConnected(n)
      PROVE  Coherent(st, drt, diskStatus, diskCoins)
  BY <1>3, ConnectedCoherent
<1>4. CASE st = MarkedTip /\ drt = dirty \cup {tip}
  BY <1>4, MarkedTipCoherent
<1> QED BY <1>1, <1>2, <1>3, <1>4 DEF Flushing

LEMMA LoadDisk ==
    ASSUME DiskInv, NEW t \in Threads, Restart(t) \/ Crash(t)
    PROVE  DiskInv'
<1>1. OnDisk(diskStatus)
  BY DiskFacts DEF OnDisk, Coherent, Level
<1>2. ASSUME NEW mode, NEW st, NEW drt, NEW ds \in CutFlush(mode, st, drt), Flushing(st, drt)
      PROVE  OnDisk(ds)
  BY <1>2, FlushingCoherent, CutCoherent
<1> QED BY <1>1, <1>2, CrashCases, LoadCoherent DEF Restart

\* A step that marks blocks of the index as failed and leaves the tip alone
LEMMA MarkFailedDisk ==
    ASSUME DiskInv, NEW S \in SUBSET Blocks, NEW F \in SUBSET FailedMask,
           \A b \in S : "TREE" \in status[b],
           status' = Mark(status, S, F), dirty \subseteq dirty', dirty' \subseteq Blocks,
           UNCHANGED <<disk, tip, coins>>,
           \A t \in Threads : pc'[t] = "step" => pc[t] = "step" /\ target'[t] = target[t],
           \A t \in Threads : pc'[t] = "inval" => pc[t] = "inval" /\ target'[t] = target[t]
    PROVE  Position' /\ Coherent(status', dirty', diskStatus', diskCoins')
<1>1. F \in SUBSET (Flags \ {"SCRIPTS"}) /\ F \cap Level = {}
  BY DEF FailedMask, Flags, Level
<1>2. /\ Coherent(status', dirty', diskStatus, diskCoins)
      /\ \A b \in Blocks : status[b] \subseteq status'[b]
  BY <1>1, DiskFacts, MarkCoherent
<1>3. Position'
  BY <1>2, DiskFacts, KeepsPosition
<1> QED BY <1>2, <1>3 DEF disk

LEMMA DiscardCandidateDisk ==
    ASSUME DiskInv, LinkInv, NEW t \in Threads, DiscardCandidate(t)
    PROVE  DiskInv'
<1>1. /\ UNCHANGED <<linked, seq, nextSeq, tip, coins, dirty, disk, pc, target, oldTip,
                     phase, bounds>>
      /\ owner' = t
  BY DEF DiscardCandidate
<1>2. Rest'
  BY <1>1, DiskFacts DEF Rest, bounds
<1>3. CASE UNCHANGED status
  BY <1>1, <1>2, <1>3 DEF DiskInv, Position, disk
<1>4. CASE ~UNCHANGED status
  <2>1. PICK c \in candidates : \E test \in Obstacles(c) :
          status' = Mark(status, {x \in Ancestors[c] : Height[x] > Height[test]}, {"FAILED_CHILD"})
    BY <1>4 DEF DiscardCandidate
  <2>2. PICK test \in Obstacles(c) :
          status' = Mark(status, {x \in Ancestors[c] : Height[x] > Height[test]}, {"FAILED_CHILD"})
    BY <2>1
  <2> DEFINE above == {x \in Ancestors[c] : Height[x] > Height[test]}
  <2>3. c \in Blocks /\ Processed(status, c)
    BY DEF LinkInv
  <2>4. above \in SUBSET Blocks /\ \A x \in above : "TREE" \in status[x]
    BY <2>3, AncestorsType, DiskFacts DEF Processed
  <2>5. {"FAILED_CHILD"} \in SUBSET FailedMask
    BY DEF FailedMask
  <2>6. status' = Mark(status, above, {"FAILED_CHILD"})
    BY <2>2
  <2> HIDE DEF above
  <2> QED BY <1>1, <1>2, <2>4, <2>5, <2>6, DiskFacts, MarkFailedDisk DEF DiskInv
<1> QED BY <1>3, <1>4

LEMMA ConnectTipInvalidDisk ==
    ASSUME DiskInv, NEW t \in Threads, ConnectTipInvalid(t)
    PROVE  DiskInv'
<1>1. PICK n \in InvalidScripts :
        /\ Connecting(t, n)
        /\ status' = Mark(status, {n}, {"FAILED_VALID"})
        /\ dirty' = dirty \cup {n}
        /\ owner' = NoThread
        /\ pc' = [pc EXCEPT ![t] = "check"]
        /\ UNCHANGED <<linked, seq, nextSeq, unlinked, tip, coins, disk, target, oldTip,
                       phase, bounds>>
  BY DEF ConnectTipInvalid, DirtyInvalid
<1>2. n \in Blocks /\ HasTx(status, n)
  BY <1>1, InvalidAssumption, DiskFacts DEF Connecting, Position, Processed
<1>3. /\ {n} \in SUBSET Blocks /\ \A b \in {n} : "TREE" \in status[b]
      /\ dirty' \subseteq Blocks /\ dirty \subseteq dirty'
      /\ {"FAILED_VALID"} \in SUBSET FailedMask
  BY <1>1, <1>2, DiskFacts DEF FailedMask
<1>4. /\ pc' \in [Threads -> PC]
      /\ \A u \in Threads : pc'[u] \in {"step", "inval"} => pc'[u] = pc[u]
  BY <1>1, DiskFacts DEF Rest, PC
<1>5. Position' /\ Coherent(status', dirty', diskStatus', diskCoins')
  BY <1>1, <1>3, <1>4, MarkFailedDisk
<1>6. Rest'
  BY <1>1, <1>4, DiskFacts DEF Rest, bounds
<1> QED BY <1>5, <1>6 DEF DiskInv

LEMMA InvalidateBlockDisk ==
    ASSUME DiskInv, NEW t \in Threads, NEW b \in InvalidateTargets, InvalidateBlock(t, b)
    PROVE  DiskInv'
<1>1. /\ b \in Index /\ pc[t] = "idle" /\ calls' = calls + 1
      /\ status' = Mark(status, {b}, {"FAILED_VALID"})
      /\ dirty' = dirty \cup {b}
      /\ owner' = t
      /\ pc' = [pc EXCEPT ![t] = "inval"]
      /\ target' = [target EXCEPT ![t] = b]
      /\ oldTip' = tip
      /\ UNCHANGED <<linked, seq, nextSeq, unlinked, tip, coins, disk, phase, restarts, errors>>
  BY DEF InvalidateBlock
<1>2. b \in Blocks \ {Genesis}
  BY InvalidAssumption
<1>3. /\ {b} \in SUBSET Blocks /\ {"FAILED_VALID"} \in SUBSET (Flags \ {"SCRIPTS"})
      /\ \A x \in {b} : "TREE" \in status[x]
      /\ dirty' \in SUBSET Blocks /\ dirty \subseteq dirty' /\ {b} \subseteq dirty'
  BY <1>1, <1>2, DiskFacts DEF Flags, Index
<1>4. /\ Coherent(status', dirty', diskStatus, diskCoins)
      /\ \A x \in Blocks : status[x] \subseteq status'[x]
  BY <1>1, <1>3, DiskFacts, MarkCoherent
<1>5. Verified(status', tip)
  BY <1>4, DiskFacts, LevelKeeps
<1>6. \A u \in Threads : pc'[u] = "step" => Processed(status', target'[u])
  <2> TAKE u \in Threads
  <2> HAVE pc'[u] = "step"
  <2>1. u # t /\ pc[u] = "step" /\ target'[u] = target[u]
    BY <1>1, DiskFacts DEF Rest
  <2>2. target[u] \in Blocks /\ Processed(status, target[u])
    BY <2>1, DiskFacts DEF Rest, Position
  <2> QED BY <1>4, <2>1, <2>2, LevelKeeps
<1>7. \A u \in Threads : pc'[u] = "inval" => target'[u] # Genesis
  BY <1>1, <1>2, DiskFacts DEF Rest, Position
<1>8. Position'
  BY <1>1, <1>5, <1>6, <1>7, DiskFacts DEF Position
<1>9. Rest'
  <2>1. pc' \in [Threads -> PC] /\ target' \in [Threads -> Blocks]
    BY <1>1, <1>2, DiskFacts DEF Rest, PC
  <2>2. calls' \in Nat
    BY <1>1, DiskFacts DEF Rest
  <2> QED BY <1>1, <2>1, <2>2, DiskFacts DEF Rest
<1> QED BY <1>1, <1>4, <1>8, <1>9 DEF DiskInv, disk

LEMMA ReconsiderBlockDisk ==
    ASSUME DiskInv, NEW t \in Threads, NEW b \in Blocks, ReconsiderBlock(t, b)
    PROVE  DiskInv'
<1>1. PICK S \in SUBSET Blocks :
        status' = Unmark(status, S, FailedMask) /\ dirty' = dirty \cup S
  <2> DEFINE S == {x \in Index : ~ValidTx(status, x) /\ b \in Ancestors[x]} \cup {x \in Ancestors[b] : Failed(x)}
  <2>1. S \in SUBSET Blocks
    BY AncestorsType DEF Index
  <2>2. status' = Unmark(status, S, FailedMask) /\ dirty' = dirty \cup S
    BY DEF ReconsiderBlock
  <2> QED BY <2>1, <2>2
<1>2. /\ calls' = calls + 1 /\ pc' = [pc EXCEPT ![t] = "loop"]
      /\ UNCHANGED <<linked, seq, nextSeq, unlinked, tip, coins, disk, owner, target,
                     oldTip, phase, restarts, errors>>
  BY DEF ReconsiderBlock
<1>3. /\ \A x \in Blocks : Level \cap status[x] = Level \cap status'[x]
      /\ \A x \in Blocks : status'[x] \subseteq status[x]
      /\ status' \in [Blocks -> SUBSET Flags]
  BY <1>1, DiskFacts DEF Unmark, FailedMask, Level, Coherent
<1>4. \A x \in Blocks : /\ status'[x] # {} => "TREE" \in status'[x]
                        /\ "SCRIPTS" \in status'[x] => x \notin InvalidScripts
  <2>1. \A x \in Blocks : status[x] # {} => "TREE" \in status[x]
    BY DiskFacts DEF Coherent
  <2>2. \A x \in Blocks : "SCRIPTS" \in status[x] => x \notin InvalidScripts
    BY DiskFacts DEF Coherent
  <2> QED BY <1>3, <2>1, <2>2 DEF Level
<1>5. Coherent(status', dirty', diskStatus, diskCoins)
  <2>1. dirty' \subseteq Blocks /\ dirty \subseteq dirty'
    BY <1>1, DiskFacts
  <2> QED BY <1>3, <1>4, <2>1, DiskFacts DEF Coherent
<1>6. /\ pc' \in [Threads -> PC] /\ calls' \in Nat
      /\ \A u \in Threads : pc'[u] \in {"step", "inval"} => pc'[u] = pc[u]
  BY <1>2, DiskFacts DEF Rest, PC
<1>7. Position'
  BY <1>2, <1>3, <1>6, DiskFacts, KeepsPosition
<1>8. Rest'
  BY <1>2, <1>6, DiskFacts DEF Rest
<1> QED BY <1>2, <1>5, <1>7, <1>8 DEF DiskInv, disk

\* Steps that touch neither the index nor the coins
LEMMA QuietDisk ==
    ASSUME DiskInv, UNCHANGED <<status, seq, nextSeq, tip, coins, dirty, disk, target>>,
           Rest', \A t \in Threads : pc'[t] \in {"step", "inval"} => pc'[t] = pc[t]
    PROVE  DiskInv'
<1>1. Position'
  BY DiskFacts, KeepsPosition
<1> QED BY <1>1, DiskFacts DEF DiskInv, disk

LEMMA BeginStepDisk ==
    ASSUME DiskInv, LinkInv, NEW t \in Threads, BeginStep(t)
    PROVE  DiskInv'
<1>1. PICK c \in candidates : target' = [target EXCEPT ![t] = c]
  BY DEF BeginStep
<1>2. /\ oldTip' = tip /\ owner' = t /\ pc' = [pc EXCEPT ![t] = "step"]
      /\ UNCHANGED <<memory, disk, phase, bounds>>
  BY DEF BeginStep
<1>3. c \in Blocks /\ Processed(status, c)
  BY DEF LinkInv
<1>4. Rest'
  <2>1. pc' \in [Threads -> PC] /\ target' \in [Threads -> Blocks]
    BY <1>1, <1>2, <1>3, DiskFacts DEF Rest, PC
  <2> QED BY <1>2, <2>1, DiskFacts DEF Rest, memory, bounds
<1>5. Position'
  BY <1>1, <1>2, <1>3, DiskFacts DEF Rest, Position, memory
<1> QED BY <1>2, <1>4, <1>5, DiskFacts DEF DiskInv, memory, disk
LEMMA ActivationDisk ==
    ASSUME MaxErrors = 0, DiskInv, LinkInv, NEW t \in Threads, Activation(t)
    PROVE  DiskInv'
<1>1. CASE DiscardCandidate(t)
  BY <1>1, DiscardCandidateDisk
<1>2. CASE BeginStep(t)
  BY <1>2, BeginStepDisk
<1>3. CASE NothingToDo(t) \/ EnterLoop(t) \/ TipAborts(t) \/ UndoFails(t) \/ CheckTip(t)
  <2>1. /\ UNCHANGED <<memory, disk, target, oldTip, bounds>>
        /\ owner' \in {owner, NoThread} /\ phase' \in {phase, "torn", "stopping"}
        /\ \E p \in {"idle", "flush", "loop", "lock"} : pc' = [pc EXCEPT ![t] = p]
    BY <1>3 DEF NothingToDo, EnterLoop, TipAborts, UndoFails, Torn, CheckTip
  <2>2. /\ pc' \in [Threads -> PC]
        /\ \A u \in Threads : pc'[u] \in {"step", "inval"} => pc'[u] = pc[u]
    BY <2>1, DiskFacts DEF Rest, PC
  <2>3. Rest'
    BY <2>1, <2>2, DiskFacts DEF Rest, memory, bounds
  <2> QED BY <2>1, <2>2, <2>3, QuietDisk DEF memory
<1>4. CASE DisconnectTip(t)
  BY <1>4, DisconnectTipDisk
<1>5. CASE ConnectTip(t)
  BY <1>5, ConnectTipDisk
<1>6. CASE ConnectTipInvalid(t)
  BY <1>6, ConnectTipInvalidDisk
<1>7. CASE TipWriteError(t) \/ IndexWriteThrows(t)
  BY <1>7, NoErrors DEF TipWriteError, IndexWriteThrows
<1>8. CASE FlushAndReturn(t)
  <2>1. /\ FlushStateToDisk("PERIODIC", status, dirty, unlinked, tip)
        /\ UNCHANGED <<phase, bounds>>
        /\ pc' = [pc EXCEPT ![t] = "idle"]
        /\ UNCHANGED <<linked, seq, nextSeq, candidates, tip, coins, owner, target, oldTip>>
    BY <1>8, NoErrors, DiskFacts DEF FlushAndReturn, bounds
  <2>2. /\ pc' \in [Threads -> PC]
        /\ \A u \in Threads : pc'[u] \in {"step", "inval"} => pc'[u] = pc[u]
    BY <2>1, DiskFacts DEF Rest, PC
  <2>3. Position' /\ Coherent(status', dirty', diskStatus', diskCoins')
    BY <2>1, <2>2, DiskFacts, FlushMoves
  <2>4. Rest'
    BY <2>1, <2>2, DiskFacts DEF Rest, bounds
  <2> QED BY <2>3, <2>4 DEF DiskInv
<1> QED BY <1>1, <1>2, <1>3, <1>4, <1>5, <1>6, <1>7, <1>8 DEF Activation

\* The flushes that leave the chain alone: after a transaction, at shutdown
\* and in AppInit2
LEMMA OtherFlushesDisk ==
    ASSUME MaxErrors = 0, DiskInv, PeriodicFlush \/ Shutdown \/ \E t \in Threads : InitPrune(t)
    PROVE  DiskInv'
<1>1. \E mode : FlushStateToDisk(mode, status, dirty, unlinked, tip)
  BY DiskFacts, NoErrors DEF PeriodicFlush, Shutdown, InitPrune
<1>2. /\ UNCHANGED <<seq, nextSeq, tip, coins, target, oldTip, bounds>>
      /\ phase' \in {phase, "down"} /\ owner' \in {owner, NoThread}
      /\ pc' = pc \/ \E t \in Threads : pc' = [pc EXCEPT ![t] = "loop"]
  BY NoErrors DEF PeriodicFlush, Shutdown, InitPrune, local, bounds
<1>3. /\ pc' \in [Threads -> PC]
      /\ \A u \in Threads : pc'[u] \in {"step", "inval"} => pc'[u] = pc[u]
  BY <1>2, DiskFacts DEF Rest, PC
<1>4. Position' /\ Coherent(status', dirty', diskStatus', diskCoins')
  BY <1>1, <1>2, <1>3, DiskFacts, FlushMoves
<1>5. Rest'
  BY <1>2, <1>3, DiskFacts DEF Rest, bounds
<1> QED BY <1>4, <1>5 DEF DiskInv

LEMMA DiskInvNext ==
    ASSUME MaxErrors = 0
    PROVE  DiskInv /\ LinkInv /\ [Next]_vars => DiskInv'
<1> SUFFICES ASSUME DiskInv, LinkInv, [Next]_vars PROVE DiskInv'
  OBVIOUS
<1>1. CASE \E b \in HeaderFirst : AcceptBlockHeader(b)
  BY <1>1, InvalidAssumption, AcceptBlockHeaderDisk
<1>2. CASE \E t \in Threads, b \in Blocks \ {Genesis}, r \in BOOLEAN : ProcessNewBlock(t, b, r)
  BY <1>2, ProcessNewBlockDisk
<1>3. CASE \E t \in Threads : Activation(t)
  BY <1>3, ActivationDisk
<1>4. CASE PeriodicFlush \/ Shutdown \/ \E t \in Threads : InitPrune(t)
  BY <1>4, OtherFlushesDisk
<1>5. CASE \E t \in Threads, b \in InvalidateTargets : InvalidateBlock(t, b)
  BY <1>5, InvalidateBlockDisk
<1>6. CASE \E t \in Threads : InvalidateWalk(t) \/ InvalidateFails(t)
  BY <1>6, InvalidateWalkDisk, InvalidateFailsDisk
<1>7. CASE \E t \in Threads : InvalidateEnd(t)
  <2>1. PICK t \in Threads : InvalidateEnd(t)
    BY <1>7
  <2>2. /\ owner' = NoThread /\ pc' = [pc EXCEPT ![t] = "loop"]
        /\ UNCHANGED <<status, linked, seq, nextSeq, unlinked, tip, coins, dirty, disk,
                       target, oldTip, phase, bounds>>
    BY <2>1 DEF InvalidateEnd
  <2>3. /\ pc' \in [Threads -> PC]
        /\ \A u \in Threads : pc'[u] \in {"step", "inval"} => pc'[u] = pc[u]
    BY <2>2, DiskFacts DEF Rest, PC
  <2>4. Rest'
    BY <2>2, <2>3, DiskFacts DEF Rest, bounds
  <2> QED BY <2>2, <2>3, <2>4, QuietDisk
<1>8. CASE \E t \in Threads, b \in ReconsiderTargets : ReconsiderBlock(t, b)
  BY <1>8, InvalidAssumption, ReconsiderBlockDisk
<1>9. CASE RequestShutdown
  <2>1. Rest'
    BY <1>9, DiskFacts DEF RequestShutdown, Rest, memory, local, bounds
  <2> QED BY <1>9, <2>1, QuietDisk DEF RequestShutdown, memory, local
<1>10. CASE \E t \in Threads : Restart(t) \/ Crash(t)
  BY <1>10, LoadDisk
<1>11. CASE UNCHANGED vars
  <2>1. Rest'
    BY <1>11, DiskFacts DEF vars, Rest, memory, local, bounds
  <2> QED BY <1>11, <2>1, QuietDisk DEF vars, memory, local
<1> QED
  BY <1>1, <1>2, <1>3, <1>4, <1>5, <1>6, <1>7, <1>8, <1>9, <1>10, <1>11 DEF Next

LEMMA InitDisk == Init => DiskInv
<1> SUFFICES ASSUME Init PROVE DiskInv
  OBVIOUS
<1>1. /\ status \in [Blocks -> SUBSET Flags] /\ diskStatus = status
      /\ \A b \in Blocks : status[b] =
            IF b = Genesis THEN {"TREE", "TRANSACTIONS", "DATA"} ELSE {}
  BY DEF Init, Flags
<1>2. Verified(status, Genesis)
  BY <1>1, AncestorsGenesis, BlocksAssumption DEF Verified, Processed, HasTx
<1>3. Coherent(status, dirty, diskStatus, diskCoins)
  BY <1>1, <1>2, BlocksAssumption DEF Init, Coherent
<1>4. Rest
  BY BlocksAssumption DEF Init, Rest, PC
<1>5. Position
  BY <1>2 DEF Init, Position
<1> QED BY <1>3, <1>4, <1>5 DEF DiskInv

LEMMA DiskInvariance ==
    ASSUME MaxErrors = 0
    PROVE  Spec => [](DiskInv /\ LinkInv)
<1>1. Init => DiskInv /\ LinkInv
  BY InitDisk, AncestorsGenesis, BlocksAssumption DEF Init, LinkInv, Processed, HasTx
<1>2. DiskInv /\ LinkInv /\ [Next]_vars => DiskInv' /\ LinkInv'
  BY DiskInvNext, LinkInvNext
<1> QED BY <1>1, <1>2, PTL DEF Spec

\* The block index, its database copy and the thread states keep their types,
\* and no flag is set on a block that is not in mapBlockIndex, unless a
\* database write fails.
THEOREM TypesHold ==
    ASSUME MaxErrors = 0
    PROVE  Spec => []TypeOK
<1>1. DiskInv /\ LinkInv => TypeOK
  BY DEF DiskInv, LinkInv, Rest, Position, Coherent, TypeOK
<1> QED BY <1>1, DiskInvariance, PTL

\* After a crash at any point the coin database's best block and all its
\* ancestors are in the block index database, verified: the order of the two
\* writes in FlushStateToDisk and setDirtyBlockIndex suffice for recovery.
THEOREM DiskIsCoherent ==
    ASSUME MaxErrors = 0
    PROVE  Spec => []DiskCoherent
<1>1. DiskInv => DiskCoherent
  BY AncestorsType DEF DiskInv, Coherent, Verified, Processed, HasTx, DiskCoherent
<1> QED BY <1>1, DiskInvariance, PTL

\* chainActive holds only blocks that ConnectBlock accepted, through every
\* reorganisation, invalidation, crash and restart.
THEOREM ActiveChainIsVerified ==
    ASSUME MaxErrors = 0
    PROVE  Spec => []ActiveChainVerified
<1>1. DiskInv => ActiveChainVerified
  BY AncestorsType DEF DiskInv, Rest, Position, Verified, Coherent, Active, ActiveChainVerified
<1> QED BY <1>1, DiskInvariance, PTL
-----------------------------------------------------------------------------
(* Threads and cs_main *)

\* A thread inside ActivateBestChainStep, InvalidateBlock or AppInit2 holds
\* cs_main; tips and targets are blocks.
LockInv ==
    /\ pc \in [Threads -> PC] /\ target \in [Threads -> Blocks]
    /\ tip \in Blocks /\ oldTip \in Blocks
    /\ phase \in {"up", "torn", "stopping", "down"}
    /\ \A t \in Threads : pc[t] \in {"step", "inval", "init"} => owner = t
    /\ \A t \in Threads : pc[t] = "inval" => target[t] # Genesis

\* A step of thread t, or of no thread, that moves neither tips nor targets
LEMMA KeepsLock ==
    ASSUME LockInv, UNCHANGED <<tip, oldTip, target>>, phase' \in {phase, "torn", "stopping", "down"},
           \/ owner' = owner /\ pc' = pc
           \/ \E t \in Threads :
                /\ owner \in {NoThread, t} /\ owner' \in {NoThread, t}
                /\ \E p \in {"idle", "loop", "lock", "check", "flush"} : pc' = [pc EXCEPT ![t] = p]
           \/ \E t \in Threads :
                /\ pc[t] \notin {"step", "inval", "init"} /\ owner' = owner
                /\ \E p \in {"idle", "loop", "lock", "check", "flush"} : pc' = [pc EXCEPT ![t] = p]
    PROVE  LockInv'
<1>1. CASE owner' = owner /\ pc' = pc
  BY <1>1 DEF LockInv
<1>2. ASSUME NEW t \in Threads, NEW p \in {"idle", "loop", "lock", "check", "flush"},
             pc' = [pc EXCEPT ![t] = p],
             \/ owner \in {NoThread, t}
             \/ owner' = owner
      PROVE  LockInv'
  <2>1. pc' \in [Threads -> PC] /\ \A u \in Threads : pc'[u] = IF u = t THEN p ELSE pc[u]
    BY <1>2 DEF LockInv, PC
  <2>2. ASSUME NEW u \in Threads, pc'[u] \in {"step", "inval", "init"}
        PROVE  owner' = u /\ pc'[u] = pc[u]
    <3>1. u # t /\ pc'[u] = pc[u]
      BY <2>1, <2>2
    <3>2. owner = u
      BY <2>2, <3>1 DEF LockInv
    <3> QED BY <1>2, <3>1, <3>2, ThreadsAssumption
  <2> QED BY <2>1, <2>2 DEF LockInv
<1> QED BY <1>1, <1>2

LEMMA TipNotGenesis ==
    ASSUME LockInv, NEW t \in Threads,
           Disconnecting(t) \/ (pc[t] = "inval" /\ StillActive(target[t]))
    PROVE  tip \in Blocks \ {Genesis} /\ Parent[tip] \in Blocks
<1>1. tip \in Blocks /\ target[t] \in Blocks
  BY DEF LockInv
<1>2. tip # Genesis
  BY <1>1, GenesisIsAncestor, AncestorsGenesis DEF Disconnecting, StillActive, Active, LockInv
<1> QED BY <1>1, <1>2, ParentAssumption

LEMMA LockInvThread ==
    ASSUME LockInv, LinkInv, NEW t \in Threads,
           Activation(t) \/ InvalidateWalk(t) \/ InvalidateFails(t) \/ InvalidateEnd(t)
    PROVE  LockInv'
<1>1. CASE EnterLoop(t)
  BY <1>1, KeepsLock DEF EnterLoop, memory
<1>2. CASE NothingToDo(t)
  BY <1>2, KeepsLock DEF NothingToDo, AtLoop, CanLock, memory
<1>3. CASE DiscardCandidate(t)
  <2>1. CanLock(t) /\ owner' = t /\ pc[t] = "lock" /\ UNCHANGED <<pc, target, tip, oldTip, phase>>
    BY <1>3 DEF DiscardCandidate, AtLoop
  <2> QED BY <2>1, ThreadsAssumption DEF LockInv, CanLock
<1>4. CASE BeginStep(t)
  <2>1. PICK c \in candidates : target' = [target EXCEPT ![t] = c]
    BY <1>4 DEF BeginStep
  <2>2. /\ owner \in {NoThread, t} /\ owner' = t /\ pc' = [pc EXCEPT ![t] = "step"]
        /\ oldTip' = tip /\ UNCHANGED <<tip, phase>>
    BY <1>4 DEF BeginStep, AtLoop, CanLock, memory
  <2>3. c \in Blocks
    BY DEF LinkInv
  <2>4. /\ pc' \in [Threads -> PC] /\ target' \in [Threads -> Blocks]
        /\ pc'[t] = "step"
        /\ \A u \in Threads \ {t} : pc'[u] = pc[u] /\ target'[u] = target[u]
    BY <2>1, <2>2, <2>3 DEF LockInv, PC
  <2>5. \A u \in Threads \ {t} : pc[u] \notin {"step", "inval", "init"}
    BY <2>2, ThreadsAssumption DEF LockInv
  <2> QED BY <2>2, <2>4, <2>5 DEF LockInv
<1>5. CASE DisconnectTip(t)
  <2>1. tip' \in Blocks /\ UNCHANGED <<local, phase>>
    BY <1>5, TipNotGenesis DEF DisconnectTip
  <2> QED BY <2>1 DEF LockInv, local
<1>6. CASE ConnectTip(t)
  <2>1. /\ pc[t] = "step" /\ tip' \in Blocks /\ UNCHANGED <<target, oldTip, phase>>
        /\ \/ UNCHANGED <<owner, pc>>
           \/ owner' = NoThread /\ pc' = [pc EXCEPT ![t] = "check"]
    BY <1>6 DEF ConnectTip, Connecting
  <2>2. CASE UNCHANGED <<owner, pc>>
    BY <2>1, <2>2 DEF LockInv
  <2>3. CASE owner' = NoThread /\ pc' = [pc EXCEPT ![t] = "check"]
    <3>1. owner = t
      BY <2>1 DEF LockInv
    <3>2. pc' \in [Threads -> PC] /\ \A u \in Threads : pc'[u] = IF u = t THEN "check" ELSE pc[u]
      BY <2>3 DEF LockInv, PC
    <3> QED BY <2>1, <2>3, <3>1, <3>2 DEF LockInv
  <2> QED BY <2>1, <2>2, <2>3
<1>7. CASE \/ TipAborts(t) \/ UndoFails(t) \/ TipWriteError(t) \/ IndexWriteThrows(t)
           \/ ConnectTipInvalid(t)
  <2>1. /\ pc[t] = "step" /\ owner' = NoThread /\ phase' \in {phase, "torn", "stopping"}
        /\ \E p \in {"idle", "check"} : pc' = [pc EXCEPT ![t] = p]
        /\ UNCHANGED <<tip, target, oldTip>>
    BY <1>7 DEF TipAborts, UndoFails, TipWriteError, IndexWriteThrows, ConnectTipInvalid,
                Disconnecting, Connecting, Torn, memory
  <2>2. owner = t
    BY <2>1 DEF LockInv
  <2> QED BY <2>1, <2>2, KeepsLock
<1>8. CASE CheckTip(t)
  <2>1. /\ pc[t] = "check" /\ UNCHANGED <<tip, oldTip, target, owner, phase>>
        /\ \E p \in {"loop", "flush"} : pc' = [pc EXCEPT ![t] = p]
    BY <1>8 DEF CheckTip, memory
  <2> QED BY <2>1, KeepsLock
<1>9. CASE FlushAndReturn(t)
  BY <1>9, KeepsLock DEF FlushAndReturn, FlushIgnored
<1>10. CASE InvalidateWalk(t)
  <2>1. tip' \in Blocks /\ UNCHANGED <<local, phase>>
    BY <1>10, TipNotGenesis DEF InvalidateWalk
  <2> QED BY <2>1 DEF LockInv, local
<1>11. CASE InvalidateEnd(t)
  <2>1. /\ pc[t] = "inval" /\ owner' = NoThread /\ pc' = [pc EXCEPT ![t] = "loop"]
        /\ UNCHANGED <<tip, target, oldTip, phase>>
    BY <1>11 DEF InvalidateEnd
  <2>2. owner = t
    BY <2>1 DEF LockInv
  <2> QED BY <2>1, <2>2, KeepsLock
<1>12. CASE InvalidateFails(t)
  <2>1. /\ pc[t] = "inval" /\ owner' = NoThread /\ phase' \in {phase, "torn", "stopping"}
        /\ \E p \in {"idle", "loop"} : pc' = [pc EXCEPT ![t] = p]
        /\ UNCHANGED <<tip, target, oldTip>>
    BY <1>12 DEF InvalidateFails, Torn
  <2>2. owner = t
    BY <2>1 DEF LockInv
  <2> QED BY <2>1, <2>2, KeepsLock
<1> QED
  BY <1>1, <1>2, <1>3, <1>4, <1>5, <1>6, <1>7, <1>8, <1>9, <1>10, <1>11, <1>12 DEF Activation

LEMMA LockInvNext == LockInv /\ LinkInv /\ [Next]_vars => LockInv'
<1> SUFFICES ASSUME LockInv, LinkInv, [Next]_vars PROVE LockInv'
  OBVIOUS
<1>1. CASE \E t \in Threads :
             Activation(t) \/ InvalidateWalk(t) \/ InvalidateFails(t) \/ InvalidateEnd(t)
  BY <1>1, LockInvThread
<1>2. CASE \E b \in HeaderFirst : AcceptBlockHeader(b)
  BY <1>2, KeepsLock DEF AcceptBlockHeader, local
<1>3. CASE \E t \in Threads, b \in Blocks \ {Genesis}, r \in BOOLEAN : ProcessNewBlock(t, b, r)
  <2>1. PICK t \in Threads : /\ UNCHANGED <<tip, oldTip, target, owner>>
                             /\ phase' \in {phase, "stopping"} /\ pc[t] = "idle"
                             /\ pc' \in {pc, [pc EXCEPT ![t] = "loop"]}
    BY <1>3 DEF ProcessNewBlock, StoreBlock, FlushIgnored
  <2> QED BY <2>1, KeepsLock
<1>4. CASE PeriodicFlush
  BY <1>4, KeepsLock DEF PeriodicFlush, FlushIgnored, local
<1>5. CASE \E t \in Threads, b \in InvalidateTargets : InvalidateBlock(t, b)
  <2>1. PICK t \in Threads, b \in InvalidateTargets : InvalidateBlock(t, b)
    BY <1>5
  <2>2. /\ owner = NoThread /\ owner' = t /\ pc' = [pc EXCEPT ![t] = "inval"]
        /\ target' = [target EXCEPT ![t] = b] /\ oldTip' = tip /\ UNCHANGED <<tip, phase>>
    BY <2>1 DEF InvalidateBlock, Unlocked
  <2>3. b \in Blocks \ {Genesis}
    BY InvalidAssumption
  <2>4. /\ pc' \in [Threads -> PC] /\ target' \in [Threads -> Blocks]
        /\ pc'[t] = "inval" /\ target'[t] = b
        /\ \A u \in Threads \ {t} : pc'[u] = pc[u] /\ target'[u] = target[u]
    BY <2>2, <2>3 DEF LockInv, PC
  <2>5. \A u \in Threads : pc[u] \notin {"step", "inval", "init"}
    BY <2>2, ThreadsAssumption DEF LockInv
  <2> QED BY <2>2, <2>3, <2>4, <2>5 DEF LockInv
<1>6. CASE \E t \in Threads, b \in ReconsiderTargets : ReconsiderBlock(t, b)
  BY <1>6, KeepsLock DEF ReconsiderBlock, Unlocked
<1>7. CASE RequestShutdown \/ Shutdown
  BY <1>7, KeepsLock DEF RequestShutdown, Shutdown, memory, local
<1>8. CASE \E t \in Threads : InitPrune(t)
  <2>1. PICK t \in Threads : /\ UNCHANGED <<tip, oldTip, target>> /\ owner' = NoThread
                             /\ phase' \in {phase, "stopping"} /\ pc[t] = "init"
                             /\ pc' = [pc EXCEPT ![t] = "loop"]
    BY <1>8 DEF InitPrune, FlushIgnored
  <2>2. owner = t
    BY <2>1 DEF LockInv
  <2> QED BY <2>1, <2>2, KeepsLock
<1>9. CASE \E t \in Threads : Restart(t) \/ Crash(t)
  <2>1. PICK t \in Threads : \E ds : LoadBlockIndexDB(t, ds)
    BY <1>9 DEF Restart, Crash
  <2>2. /\ tip' \in Blocks /\ oldTip' = Genesis /\ phase' = "up" /\ owner' = t
        /\ pc' = [u \in Threads |-> IF u = t THEN "init" ELSE "idle"]
        /\ target' = [u \in Threads |-> Genesis]
    BY <2>1 DEF LoadBlockIndexDB, Loadable
  <2> QED BY <2>2, BlocksAssumption DEF LockInv, PC
<1>10. CASE UNCHANGED vars
  BY <1>10 DEF vars, memory, local, LockInv
<1> QED BY <1>1, <1>2, <1>3, <1>4, <1>5, <1>6, <1>7, <1>8, <1>9, <1>10 DEF Next
-----------------------------------------------------------------------------
(* Failed blocks and the active chain, until the node is restarted *)

\* No block of S is marked failed.
FailFree(st, S) == \A x \in S : st[x] \cap FailedMask = {}

\* What is active or about to be connected has been received, and so passed
\* ContextualCheckBlock.
Received ==
    /\ \A b \in Blocks : HasTx(status, b) => b \notin InvalidBody
    /\ Processed(status, tip)
    /\ \A t \in Threads : pc[t] = "step" => Processed(status, target[t])

\* The failed blocks of S are on top of one that InvalidateBlock was called for.
Excused(st, S) ==
    \A x \in S : st[x] \cap FailedMask # {} => Ancestors[x] \cap InvalidateTargets # {}

\* The blocks InvalidateBlock may leave failed in the active chain, if it fails
ExcusedInv ==
    /\ Excused(status, Ancestors[tip])
    /\ \A t \in Threads : pc[t] = "step" => Excused(status, Ancestors[target[t]])
    /\ \A t \in Threads : pc[t] = "inval" => target[t] \in InvalidateTargets

\* Neither the active chain nor the one a step is moving to has a failed block;
\* while InvalidateBlock runs, the failed active blocks are on top of its block.
FailInv ==
    /\ restarts = 0
    /\ Received
    /\ ExcusedInv
    /\ phase = "up" =>
        /\ (\A t \in Threads : pc[t] # "inval") => FailFree(status, Ancestors[tip])
        /\ \A t \in Threads : pc[t] = "step" => FailFree(status, Ancestors[target[t]])
        /\ \A t \in Threads : pc[t] = "inval" =>
             \A x \in Ancestors[tip] : status[x] \cap FailedMask # {} => target[t] \in Ancestors[x]

\* A step that leaves the tip where it is and marks no block of the chains that
\* matter
LEMMA KeepsFailInv ==
    ASSUME LockInv, FailInv, UNCHANGED <<tip, target, restarts>>, phase' = "up" => phase = "up",
           \A b \in Blocks : HasTx(status, b) => HasTx(status', b),
           \A b \in Blocks : HasTx(status', b) => HasTx(status, b) \/ b \notin InvalidBody,
           \A b \in Ancestors[tip] : status'[b] \cap FailedMask \subseteq status[b],
           \A t \in Threads : pc'[t] = "step" =>
              pc[t] = "step" /\ \A b \in Ancestors[target[t]] : status'[b] \cap FailedMask \subseteq status[b],
           \A t \in Threads : pc'[t] = "inval" => pc[t] = "inval",
           phase' = "up" => \A t \in Threads : pc'[t] = "inval" <=> pc[t] = "inval"
    PROVE  FailInv'
<1>1. tip \in Blocks /\ target \in [Threads -> Blocks]
  BY DEF LockInv
<1>2. \A b \in Blocks : Processed(status, b) => Processed(status', b)
  BY AncestorsType DEF Processed
<1>9. ExcusedInv'
  <2>1. ASSUME NEW S, \A b \in S : status'[b] \cap FailedMask \subseteq status[b], Excused(status, S)
        PROVE  Excused(status', S)
    BY <2>1 DEF Excused
  <2>2. Excused(status', Ancestors[tip])
    BY <2>1 DEF FailInv, ExcusedInv
  <2>3. \A t \in Threads : pc'[t] = "step" => Excused(status', Ancestors[target[t]])
    BY <2>1 DEF FailInv, ExcusedInv
  <2> QED BY <2>2, <2>3 DEF FailInv, ExcusedInv
<1>3. Received'
  BY <1>1, <1>2 DEF Received, FailInv
<1>4. ASSUME NEW S, \A b \in S : status'[b] \cap FailedMask \subseteq status[b], FailFree(status, S)
      PROVE  FailFree(status', S)
  BY <1>4 DEF FailFree
<1>5. ASSUME phase' = "up", \A t \in Threads : pc'[t] # "inval" PROVE FailFree(status', Ancestors[tip'])
  <2>1. FailFree(status, Ancestors[tip])
    BY <1>5 DEF FailInv
  <2> QED BY <1>4, <2>1
<1>6. ASSUME phase' = "up", NEW t \in Threads, pc'[t] = "step"
      PROVE  FailFree(status', Ancestors[target'[t]])
  <2>1. FailFree(status, Ancestors[target[t]])
    BY <1>6 DEF FailInv
  <2> QED BY <1>4, <1>6, <2>1
<1>7. ASSUME phase' = "up", NEW t \in Threads, pc'[t] = "inval", NEW x \in Ancestors[tip'],
             status'[x] \cap FailedMask # {}
      PROVE  target'[t] \in Ancestors[x]
  <2>1. status[x] \cap FailedMask # {} /\ pc[t] = "inval" /\ phase = "up" /\ x \in Ancestors[tip]
    BY <1>7
  <2> QED BY <2>1 DEF FailInv
<1>8. restarts' = 0
  BY DEF FailInv
<1> QED BY <1>3, <1>5, <1>6, <1>7, <1>8, <1>9 DEF FailInv

\* Flushes touch neither the received transactions nor the failure flags.
SameVerdicts(st, st2) ==
    \A b \in Blocks : /\ HasTx(st, b) <=> HasTx(st2, b)
                      /\ st[b] \cap FailedMask = st2[b] \cap FailedMask

LEMMA UnmarkVerdicts ==
    ASSUME NEW st, NEW P
    PROVE  SameVerdicts(st, Unmark(st, P, {"DATA", "UNDO"}))
BY DEF SameVerdicts, Unmark, HasTx, FailedMask

LEMMA FlushVerdicts ==
    ASSUME NEW mode, NEW st, NEW drt, NEW unl
    PROVE  /\ \A best : FlushStateToDisk(mode, st, drt, unl, best) => SameVerdicts(st, status')
           /\ FlushFails(mode, st, drt, unl) => SameVerdicts(st, status')
           /\ FlushIgnored(mode, st, drt, unl) => SameVerdicts(st, status')
<1>1. ASSUME NEW best, FlushStateToDisk(mode, st, drt, unl, best) PROVE SameVerdicts(st, status')
  BY <1>1, UnmarkVerdicts DEF FlushStateToDisk
<1>2. ASSUME FlushFails(mode, st, drt, unl) PROVE SameVerdicts(st, status')
  BY <1>2, UnmarkVerdicts DEF FlushFails
<1> QED BY <1>1, <1>2 DEF FlushIgnored

\* A flush on its own
LEMMA FlushFailInv ==
    ASSUME LockInv, FailInv, UNCHANGED <<tip, target, restarts>>, phase' = "up" => phase = "up",
           SameVerdicts(status, status'),
           \A t \in Threads : pc'[t] = "step" => pc[t] = "step",
           \A t \in Threads : pc'[t] = "inval" => pc[t] = "inval",
           phase' = "up" => \A t \in Threads : pc'[t] = "inval" <=> pc[t] = "inval"
    PROVE  FailInv'
<1>1. tip \in Blocks /\ target \in [Threads -> Blocks]
  BY DEF LockInv
<1>2. \A b \in Ancestors[tip] : status'[b] \cap FailedMask \subseteq status[b]
  BY <1>1, AncestorsType DEF SameVerdicts
<1>3. \A t \in Threads : \A b \in Ancestors[target[t]] : status'[b] \cap FailedMask \subseteq status[b]
  BY <1>1, AncestorsType DEF SameVerdicts
<1> QED BY <1>2, <1>3, KeepsFailInv DEF SameVerdicts

LEMMA SameVerdictsItself == SameVerdicts(status, status)
BY DEF SameVerdicts

\* Received blocks: the only failure is ContextualCheckBlock's, of a block that
\* was never received.
LEMMA ProcessNewBlockFail ==
    ASSUME LockInv, FailInv, NEW t \in Threads, NEW b \in Blocks \ {Genesis}, NEW r,
           ProcessNewBlock(t, b, r)
    PROVE  FailInv'
<1>1. /\ owner = NoThread /\ UNCHANGED <<tip, target, restarts>>
      /\ pc' \in {pc, [pc EXCEPT ![t] = "loop"]}
      /\ phase' \in {phase, "stopping"}
  BY DEF ProcessNewBlock, Unlocked, StoreBlock, FlushIgnored
<1>2. \A u \in Threads : pc[u] \notin {"step", "inval"} /\ pc'[u] \notin {"step", "inval"}
  BY <1>1, ThreadsAssumption DEF LockInv
<1>3. ASSUME NEW st, SameVerdicts(st, status'),
             \A x \in Blocks : HasTx(status, x) => HasTx(st, x),
             \A x \in Blocks : HasTx(st, x) => HasTx(status, x) \/ x \notin InvalidBody,
             \A x \in Ancestors[tip] : st[x] \cap FailedMask \subseteq status[x]
      PROVE  FailInv'
  <2>1. tip \in Blocks
    BY DEF LockInv
  <2>2. \A x \in Ancestors[tip] : status'[x] \cap FailedMask \subseteq status[x]
    BY <1>3, <2>1, AncestorsType DEF SameVerdicts
  <2>3. \A x \in Blocks : HasTx(status, x) => HasTx(status', x)
    BY <1>3 DEF SameVerdicts
  <2>4. \A x \in Blocks : HasTx(status', x) => HasTx(status, x) \/ x \notin InvalidBody
    BY <1>3 DEF SameVerdicts
  <2> QED BY <1>1, <1>2, <2>2, <2>3, <2>4, KeepsFailInv
<1>4. /\ \A x \in Blocks : HasTx(WithHeader(b), x) <=> HasTx(status, x)
      /\ \A x \in Blocks : WithHeader(b)[x] \cap FailedMask = status[x] \cap FailedMask
  BY DEF WithHeader, Mark, HasTx, FailedMask
<1>5. Ancestors[tip] \subseteq Blocks
  BY AncestorsType DEF LockInv
<1>6. CASE status' = WithHeader(b)
  BY <1>3, <1>4, <1>5, <1>6 DEF SameVerdicts
<1>7. CASE b \in InvalidBody /\ status' = Mark(WithHeader(b), {b}, {"FAILED_VALID"})
  <2>1. b \notin Ancestors[tip]
    BY <1>5, <1>7 DEF FailInv, Received, Processed
  <2>2. \A x \in Ancestors[tip] : status'[x] \cap FailedMask \subseteq status[x]
    BY <1>4, <1>5, <1>7, <2>1 DEF Mark
  <2>3. \A x \in Blocks : HasTx(status', x) <=> HasTx(status, x)
    BY <1>4, <1>7 DEF Mark, HasTx
  <2> QED BY <1>3, <2>2, <2>3 DEF SameVerdicts
<1>8. CASE b \notin InvalidBody /\ StoreBlock(b)
  <2> DEFINE st == Mark(WithHeader(b), {b}, {"TRANSACTIONS", "DATA"})
  <2>1. SameVerdicts(st, status')
    BY <1>8, FlushVerdicts DEF StoreBlock, Stored
  <2>2. /\ \A x \in Blocks : HasTx(status, x) => HasTx(st, x)
        /\ \A x \in Blocks : HasTx(st, x) => HasTx(status, x) \/ x \notin InvalidBody
    BY <1>4, <1>8 DEF Mark, HasTx
  <2>3. \A x \in Ancestors[tip] : st[x] \cap FailedMask \subseteq status[x]
    BY <1>4, <1>5 DEF Mark, FailedMask
  <2> HIDE DEF st
  <2> QED BY <1>3, <2>1, <2>2, <2>3
<1> QED BY <1>6, <1>7, <1>8 DEF ProcessNewBlock

\* Whoever else could be moving the tip or invalidating blocks would hold cs_main.
LEMMA OthersOutside ==
    ASSUME LockInv, NEW t \in Threads, owner \in {NoThread, t}
    PROVE  \A u \in Threads \ {t} : pc[u] \notin {"step", "inval", "init"}
BY ThreadsAssumption DEF LockInv

\* FindMostWorkChain marks only blocks above one that is not active.
LEMMA DiscardCandidateFail ==
    ASSUME LockInv, LinkInv, FailInv, NEW t \in Threads, DiscardCandidate(t)
    PROVE  FailInv'
<1>1. /\ owner \in {NoThread, t} /\ pc[t] = "lock"
      /\ UNCHANGED <<tip, target, restarts, phase, pc>>
  BY DEF DiscardCandidate, AtLoop, CanLock, bounds
<1>2. \A u \in Threads : pc[u] \notin {"step", "inval"}
  BY <1>1, OthersOutside
<1>3. CASE UNCHANGED status
  BY <1>1, <1>3, SameVerdictsItself, FlushFailInv
<1>4. CASE ~UNCHANGED status
  <2>1. PICK c \in candidates : \E test \in Obstacles(c) :
          status' = Mark(status, {x \in Ancestors[c] : Height[x] > Height[test]}, {"FAILED_CHILD"})
    BY <1>4 DEF DiscardCandidate
  <2>2. PICK test \in Obstacles(c) :
          status' = Mark(status, {x \in Ancestors[c] : Height[x] > Height[test]}, {"FAILED_CHILD"})
    BY <2>1
  <2>3. c \in Blocks /\ test \in Ancestors[c] /\ test \notin Ancestors[tip] /\ tip \in Blocks
    BY <2>2 DEF LinkInv, LockInv, Obstacles, Active
  <2>4. ASSUME NEW x \in Ancestors[tip], x \in Ancestors[c], Height[x] > Height[test] PROVE FALSE
    <3>1. x \in Blocks /\ test \in Blocks /\ Height[x] \in Nat /\ Height[test] \in Nat
      BY <2>3, <2>4, AncestorsType, HeightAssumption
    <3>2. x # test /\ ~(Height[x] < Height[test])
      BY <2>4, <3>1
    <3>3. x \notin Ancestors[test]
      BY <3>1, <3>2, AncestorIsLower
    <3>4. test \in Ancestors[x]
      BY <2>3, <2>4, <3>3, BranchIsChain
    <3> QED BY <2>3, <2>4, <3>4, AncestorsOfAncestor
  <2>5. \A x \in Ancestors[tip] : status'[x] \cap FailedMask \subseteq status[x]
    BY <2>2, <2>3, <2>4, AncestorsType DEF Mark
  <2>6. \A x \in Blocks : HasTx(status', x) <=> HasTx(status, x)
    BY <2>2 DEF Mark, HasTx
  <2> QED BY <1>1, <1>2, <2>5, <2>6, KeepsFailInv
<1> QED BY <1>3, <1>4

\* The branch FindMostWorkChain returns is free of failed blocks: above the
\* active chain it has no obstacle.
LEMMA BeginStepFail ==
    ASSUME LockInv, LinkInv, FailInv, NEW t \in Threads, BeginStep(t)
    PROVE  FailInv'
<1>1. PICK c \in candidates : Obstacles(c) = {} /\ target' = [target EXCEPT ![t] = c]
  BY DEF BeginStep
<1>2. /\ owner \in {NoThread, t} /\ pc[t] = "lock" /\ pc' = [pc EXCEPT ![t] = "step"]
      /\ UNCHANGED <<status, tip, restarts, phase>>
  BY DEF BeginStep, AtLoop, CanLock, memory, bounds
<1>3. \A u \in Threads : pc[u] \notin {"step", "inval"}
  BY <1>2, OthersOutside
<1>4. \A u \in Threads : pc'[u] # "inval" /\ (pc'[u] = "step" => u = t /\ target'[u] = c)
  BY <1>1, <1>2, <1>3 DEF LockInv
<1>5. c \in Blocks /\ Processed(status, c)
  BY DEF LinkInv
<1>6. Received'
  BY <1>2, <1>4, <1>5 DEF Received, FailInv
<1>7. phase = "up" => FailFree(status, Ancestors[tip])
  BY <1>3 DEF FailInv
<1>8. phase = "up" => FailFree(status, Ancestors[c])
  BY <1>1, <1>7 DEF FailFree, Obstacles, Active, Failed
<1>9. ExcusedInv'
  <2>1. Excused(status, Ancestors[tip])
    BY DEF FailInv, ExcusedInv
  <2>2. Excused(status, Ancestors[c])
    BY <1>1, <2>1 DEF Excused, Obstacles, Active, Failed
  <2> QED BY <1>2, <1>4, <2>1, <2>2 DEF ExcusedInv
<1> QED BY <1>2, <1>4, <1>6, <1>7, <1>8, <1>9 DEF FailInv

\* ActivateBestChainStep moves the tip along its target's branch.
LEMMA DisconnectTipFail ==
    ASSUME LockInv, FailInv, NEW t \in Threads, DisconnectTip(t)
    PROVE  FailInv'
<1>1. /\ pc[t] = "step" /\ tip' = Parent[tip] /\ SameVerdicts(status, status')
      /\ UNCHANGED <<pc, target, owner, restarts, phase>>
  BY FlushVerdicts DEF DisconnectTip, Disconnecting, local, bounds
<1>2. tip \in Blocks \ {Genesis} /\ Parent[tip] \in Blocks
  BY TipNotGenesis DEF DisconnectTip
<1>3. Ancestors[tip'] \subseteq Ancestors[tip]
  BY <1>1, <1>2, AncestorsParent
<1>4. \A u \in Threads : pc[u] \in {"step", "inval"} => u = t
  BY <1>1 DEF LockInv
<1>5. target[t] \in Blocks
  BY DEF LockInv
<1>6. Received'
  <2>1. \A b \in Blocks : Processed(status, b) => Processed(status', b)
    BY AncestorsType, <1>1 DEF Processed, SameVerdicts
  <2>2. Processed(status, Parent[tip]) /\ Processed(status, target[t])
    BY <1>1, <1>3 DEF FailInv, Received, Processed
  <2> QED BY <1>1, <1>2, <1>4, <1>5, <2>1, <2>2 DEF FailInv, Received, SameVerdicts
<1>7. ASSUME phase = "up"
      PROVE FailFree(status', Ancestors[tip']) /\ FailFree(status', Ancestors[target[t]])
  <2>1. FailFree(status, Ancestors[tip]) /\ FailFree(status, Ancestors[target[t]])
    BY <1>1, <1>4, <1>7 DEF FailInv
  <2> QED BY <1>1, <1>2, <1>3, <1>5, <2>1, AncestorsType DEF FailFree, SameVerdicts
<1>8. ExcusedInv'
  <2>1. Excused(status, Ancestors[tip]) /\ Excused(status, Ancestors[target[t]])
    BY <1>1 DEF FailInv, ExcusedInv
  <2>2. Excused(status', Ancestors[tip']) /\ Excused(status', Ancestors[target[t]])
    BY <1>1, <1>2, <1>3, <1>5, <2>1, AncestorsType DEF Excused, SameVerdicts
  <2> QED BY <1>1, <1>4, <2>2 DEF ExcusedInv
<1> QED BY <1>1, <1>4, <1>6, <1>7, <1>8 DEF FailInv

LEMMA ConnectTipFail ==
    ASSUME LockInv, FailInv, NEW t \in Threads, ConnectTip(t)
    PROVE  FailInv'
<1>1. PICK n \in Blocks \ InvalidScripts :
        /\ Connecting(t, n) /\ tip' = n
        /\ FlushStateToDisk("IF_NEEDED", Connected(n), DirtyConnected(n), unlinked, n)
  BY DEF ConnectTip
<1>2. /\ pc' \in {pc, [pc EXCEPT ![t] = "check"]} /\ UNCHANGED <<target, restarts, phase>>
  BY DEF ConnectTip, bounds
<1>3. pc[t] = "step" /\ n \in Ancestors[target[t]] /\ target[t] \in Blocks
  BY <1>1 DEF Connecting, LockInv
<1>4. SameVerdicts(status, status')
  <2>1. SameVerdicts(Connected(n), status')
    BY <1>1, FlushVerdicts
  <2>2. SameVerdicts(status, Connected(n))
    BY DEF SameVerdicts, Connected, Mark, HasTx, FailedMask
  <2> QED BY <2>1, <2>2 DEF SameVerdicts
<1>5. \A u \in Threads : /\ pc[u] \in {"step", "inval"} => u = t
                         /\ pc'[u] \in {"step", "inval"} => u = t /\ pc'[u] = "step"
  BY <1>2, <1>3 DEF LockInv
<1>6. Ancestors[n] \subseteq Ancestors[target[t]]
  BY <1>3, AncestorsOfAncestor
<1>7. Received'
  <2>1. \A b \in Blocks : Processed(status, b) => Processed(status', b)
    BY AncestorsType, <1>4 DEF Processed, SameVerdicts
  <2>2. Processed(status, n) /\ Processed(status, target[t])
    BY <1>3, <1>6 DEF FailInv, Received, Processed
  <2> QED BY <1>1, <1>2, <1>3, <1>4, <1>5, <2>1, <2>2 DEF FailInv, Received, SameVerdicts
<1>8. ASSUME phase = "up"
      PROVE FailFree(status', Ancestors[tip']) /\ FailFree(status', Ancestors[target[t]])
  <2>1. FailFree(status, Ancestors[target[t]])
    BY <1>3, <1>8 DEF FailInv
  <2> QED BY <1>1, <1>3, <1>4, <1>6, <2>1, AncestorsType DEF FailFree, SameVerdicts
<1>9. ExcusedInv'
  <2>1. Excused(status, Ancestors[target[t]])
    BY <1>3 DEF FailInv, ExcusedInv
  <2>2. Excused(status', Ancestors[tip']) /\ Excused(status', Ancestors[target[t]])
    BY <1>1, <1>3, <1>4, <1>6, <2>1, AncestorsType DEF Excused, SameVerdicts
  <2> QED BY <1>2, <1>5, <2>2 DEF ExcusedInv
<1> QED BY <1>2, <1>5, <1>7, <1>8, <1>9 DEF FailInv

\* A block that ConnectBlock rejects is above the tip.
LEMMA ConnectTipInvalidFail ==
    ASSUME LockInv, FailInv, NEW t \in Threads, ConnectTipInvalid(t)
    PROVE  FailInv'
<1>1. PICK n \in InvalidScripts :
        Connecting(t, n) /\ status' = Mark(status, {n}, {"FAILED_VALID"})
  BY DEF ConnectTipInvalid
<1>2. /\ pc' = [pc EXCEPT ![t] = "check"] /\ UNCHANGED <<tip, target, restarts, phase>>
  BY DEF ConnectTipInvalid, bounds
<1>3. pc[t] = "step" /\ n \in Blocks \ {Genesis} /\ Parent[n] = tip /\ tip \in Blocks
  BY <1>1, InvalidAssumption DEF Connecting, LockInv
<1>4. n \notin Ancestors[tip]
  <2>1. Height[n] = Height[tip] + 1 /\ Height[n] \in Nat /\ Height[tip] \in Nat
    BY <1>3, HeightAssumption
  <2>2. n # tip /\ ~(Height[n] < Height[tip])
    BY <2>1
  <2> QED BY <1>3, <2>2, AncestorIsLower
<1>5. \A u \in Threads : pc[u] \in {"step", "inval"} => u = t
  BY <1>3 DEF LockInv
<1>6. \A u \in Threads : pc'[u] \notin {"step", "inval"} /\ pc[u] # "inval"
  BY <1>2, <1>3, <1>5 DEF LockInv
<1>7. \A x \in Ancestors[tip] : status'[x] \cap FailedMask \subseteq status[x]
  BY <1>1, <1>3, <1>4, AncestorsType DEF Mark
<1>8. \A x \in Blocks : HasTx(status', x) <=> HasTx(status, x)
  BY <1>1 DEF Mark, HasTx
<1> QED BY <1>2, <1>6, <1>7, <1>8, KeepsFailInv

LEMMA TipWriteErrorFail ==
    ASSUME LockInv, FailInv, NEW t \in Threads, TipWriteError(t) \/ IndexWriteThrows(t)
    PROVE  FailInv'
<1>1. /\ phase' # "up" /\ pc' = [pc EXCEPT ![t] = "idle"]
      /\ UNCHANGED <<tip, target, restarts>>
  BY DEF TipWriteError, IndexWriteThrows, Torn
<1>2. \A n \in Blocks : SameVerdicts(status, Connected(n))
  BY DEF SameVerdicts, Connected, Mark, HasTx, FailedMask
<1>3. \/ status' = status
      \/ SameVerdicts(status, status')
      \/ \E n \in Blocks : status' = Connected(n) \/ SameVerdicts(Connected(n), status')
  BY FlushVerdicts DEF TipWriteError, IndexWriteThrows
<1>4. SameVerdicts(status, status')
  BY <1>2, <1>3 DEF SameVerdicts
<1>5. \A u \in Threads : /\ pc'[u] = "step" => pc[u] = "step"
                         /\ pc'[u] = "inval" => pc[u] = "inval"
  BY <1>1 DEF LockInv
<1> QED BY <1>1, <1>4, <1>5, FlushFailInv

LEMMA ActivationFail ==
    ASSUME LockInv, LinkInv, FailInv, NEW t \in Threads, Activation(t)
    PROVE  FailInv'
<1>1. CASE DiscardCandidate(t) \/ BeginStep(t)
  BY <1>1, DiscardCandidateFail, BeginStepFail
<1>2. CASE \/ DisconnectTip(t) \/ ConnectTip(t) \/ ConnectTipInvalid(t)
           \/ TipWriteError(t) \/ IndexWriteThrows(t)
  BY <1>2, DisconnectTipFail, ConnectTipFail, ConnectTipInvalidFail, TipWriteErrorFail
<1>3. CASE EnterLoop(t) \/ NothingToDo(t) \/ TipAborts(t) \/ UndoFails(t) \/ CheckTip(t)
  <2>1. /\ UNCHANGED <<status, tip, target, restarts>> /\ phase' \in {phase, "torn", "stopping"}
        /\ \E p \in {"idle", "flush", "loop", "lock"} : pc' = [pc EXCEPT ![t] = p]
        /\ pc[t] # "inval"
    BY <1>3 DEF EnterLoop, NothingToDo, TipAborts, UndoFails, Torn, CheckTip, AtLoop,
                Disconnecting, Connecting, memory, bounds
  <2>2. \A u \in Threads : /\ pc'[u] = "step" => pc[u] = "step"
                           /\ pc'[u] = "inval" <=> pc[u] = "inval"
    BY <2>1 DEF LockInv
  <2> QED BY <2>1, <2>2, SameVerdictsItself, FlushFailInv
<1>4. CASE FlushAndReturn(t)
  <2>1. /\ UNCHANGED <<tip, target, restarts>> /\ phase' \in {phase, "stopping"}
        /\ pc' = [pc EXCEPT ![t] = "idle"] /\ pc[t] = "flush"
        /\ SameVerdicts(status, status')
    BY <1>4, FlushVerdicts DEF FlushAndReturn, FlushIgnored
  <2>2. \A u \in Threads : /\ pc'[u] = "step" => pc[u] = "step"
                           /\ pc'[u] = "inval" <=> pc[u] = "inval"
    BY <2>1 DEF LockInv
  <2> QED BY <2>1, <2>2, FlushFailInv
<1> QED BY <1>1, <1>2, <1>3, <1>4 DEF Activation

LEMMA InvalidateBlockFail ==
    ASSUME LockInv, FailInv, NEW t \in Threads, NEW b \in InvalidateTargets, InvalidateBlock(t, b)
    PROVE  FailInv'
<1>1. /\ owner = NoThread /\ pc' = [pc EXCEPT ![t] = "inval"] /\ target' = [target EXCEPT ![t] = b]
      /\ status' = Mark(status, {b}, {"FAILED_VALID"})
      /\ UNCHANGED <<tip, phase, restarts>>
  BY DEF InvalidateBlock, Unlocked
<1>2. \A u \in Threads : pc[u] \notin {"step", "inval"}
  BY <1>1, ThreadsAssumption DEF LockInv
<1>3. /\ pc'[t] = "inval" /\ target'[t] = b
      /\ \A u \in Threads : pc'[u] # "step" /\ (pc'[u] = "inval" => u = t)
  BY <1>1, <1>2 DEF LockInv
<1>4. b \in Blocks /\ tip \in Blocks
  BY InvalidAssumption DEF LockInv
<1>5. \A x \in Blocks : HasTx(status', x) <=> HasTx(status, x)
  BY <1>1 DEF Mark, HasTx
<1>6. Received'
  BY <1>1, <1>3, <1>4, <1>5, AncestorsType DEF Received, FailInv, Processed
<1>7. ASSUME phase = "up", NEW x \in Ancestors[tip], status'[x] \cap FailedMask # {}
      PROVE  b \in Ancestors[x]
  <2>1. status[x] \cap FailedMask = {} /\ x \in Blocks
    BY <1>2, <1>4, <1>7, AncestorsType DEF FailInv, FailFree
  <2>2. x = b
    BY <1>1, <1>7, <2>1 DEF Mark
  <2> QED BY <1>4, <2>2, AncestorsType
<1>8. ExcusedInv'
  <2>1. Excused(status, Ancestors[tip])
    BY DEF FailInv, ExcusedInv
  <2>2. \A x \in Ancestors[tip] : x # b => status'[x] = status[x]
    BY <1>1, <1>4, AncestorsType DEF Mark
  <2>3. b \in Ancestors[b]
    BY <1>4, AncestorsType
  <2>4. Excused(status', Ancestors[tip])
    BY <2>1, <2>2, <2>3 DEF Excused
  <2> QED BY <1>1, <1>3, <2>4 DEF ExcusedInv
<1> QED BY <1>1, <1>3, <1>6, <1>7, <1>8 DEF FailInv

\* One turn of InvalidateBlock's loop marks the tip, which is on top of its block.
LEMMA InvalidateWalkFail ==
    ASSUME LockInv, FailInv, NEW t \in Threads, InvalidateWalk(t) \/ InvalidateFails(t)
    PROVE  FailInv'
<1>1. /\ pc[t] = "inval" /\ UNCHANGED <<target, restarts>>
      /\ target[t] \in Ancestors[tip]
      /\ \A x \in Blocks : HasTx(MarkedTip, x) <=> HasTx(status, x)
      /\ \A x \in Blocks \ {tip} : MarkedTip[x] = status[x]
  BY DEF InvalidateWalk, InvalidateFails, StillActive, Active, MarkedTip, Mark, HasTx, local, bounds
<1>2. tip \in Blocks \ {Genesis} /\ Parent[tip] \in Blocks /\ target[t] \in Blocks
  BY TipNotGenesis DEF InvalidateWalk, InvalidateFails, LockInv
<1>3. \A u \in Threads : pc[u] \in {"step", "inval"} => u = t
  BY <1>1 DEF LockInv
<1>4. SameVerdicts(MarkedTip, status')
  BY FlushVerdicts DEF InvalidateWalk, InvalidateFails, SameVerdicts
<1>5. \/ tip' = Parent[tip] /\ UNCHANGED <<pc, phase>>
      \/ /\ tip' = tip /\ phase' # "up"
         /\ \E p \in {"idle", "loop"} : pc' = [pc EXCEPT ![t] = p]
  BY DEF InvalidateWalk, InvalidateFails, Torn, local
<1>6. Ancestors[Parent[tip]] \subseteq Ancestors[tip] /\ tip \notin Ancestors[Parent[tip]]
  <2>1. Height[tip] = Height[Parent[tip]] + 1 /\ Height[Parent[tip]] \in Nat
    BY <1>2, HeightAssumption
  <2>2. tip # Parent[tip] /\ ~(Height[tip] < Height[Parent[tip]])
    BY <2>1
  <2> QED BY <1>2, <2>2, AncestorsParent, AncestorIsLower
<1>7. \A x \in Blocks : HasTx(status', x) <=> HasTx(status, x)
  BY <1>1, <1>4 DEF SameVerdicts
<1>8. \A u \in Threads : pc'[u] # "step" /\ (pc'[u] = "inval" => u = t)
  BY <1>1, <1>3, <1>5 DEF LockInv
<1>9. Processed(status, tip) /\ Processed(status, Parent[tip])
  BY <1>6 DEF FailInv, Received, Processed
<1>10. Processed(status', tip')
  BY <1>2, <1>5, <1>7, <1>9, AncestorsType DEF Processed
<1>11. Received'
  BY <1>7, <1>8, <1>10 DEF FailInv, Received
<1>12. ASSUME phase' = "up", NEW x \in Ancestors[tip'], status'[x] \cap FailedMask # {}
       PROVE  target[t] \in Ancestors[x]
  <2>1. tip' = Parent[tip] /\ phase = "up"
    BY <1>5, <1>12
  <2>2. x \in Ancestors[tip] /\ x # tip /\ x \in Blocks
    BY <1>2, <1>6, <1>12, <2>1, AncestorsType
  <2>3. status[x] \cap FailedMask # {}
    BY <1>1, <1>4, <1>12, <2>2 DEF SameVerdicts
  <2> QED BY <1>1, <2>1, <2>2, <2>3 DEF FailInv
<1>13. phase' = "up" => pc'[t] = "inval"
  BY <1>1, <1>5
<1>14. ExcusedInv'
  <2>1. Excused(status, Ancestors[tip]) /\ target[t] \in InvalidateTargets
    BY <1>1 DEF FailInv, ExcusedInv
  <2>2. \A x \in Ancestors[tip] : x # tip => status'[x] \cap FailedMask = status[x] \cap FailedMask
    BY <1>1, <1>2, <1>4, AncestorsType DEF SameVerdicts
  <2>3. Ancestors[tip] \cap InvalidateTargets # {}
    BY <1>1, <2>1
  <2>4. Excused(status', Ancestors[tip])
    BY <2>1, <2>2, <2>3 DEF Excused
  <2>5. Excused(status', Ancestors[tip'])
    BY <1>5, <1>6, <2>4 DEF Excused
  <2> QED BY <1>1, <1>8, <2>1, <2>5 DEF ExcusedInv
<1> QED BY <1>1, <1>8, <1>11, <1>12, <1>13, <1>14 DEF FailInv

\* InvalidateBlock's loop ends when its block is no longer active; nothing that
\* is still active was on top of it.
LEMMA InvalidateEndFail ==
    ASSUME LockInv, FailInv, NEW t \in Threads, InvalidateEnd(t)
    PROVE  FailInv'
<1>1. /\ pc[t] = "inval" /\ target[t] \notin Ancestors[tip] /\ pc' = [pc EXCEPT ![t] = "loop"]
      /\ UNCHANGED <<status, tip, target, phase, restarts>>
  BY DEF InvalidateEnd, StillActive, Active, bounds
<1>2. \A u \in Threads : pc[u] \in {"step", "inval"} => u = t
  BY <1>1 DEF LockInv
<1>3. \A u \in Threads : pc'[u] \notin {"step", "inval"}
  BY <1>1, <1>2 DEF LockInv
<1>4. tip \in Blocks
  BY DEF LockInv
<1>5. phase = "up" => FailFree(status, Ancestors[tip])
  <2> SUFFICES ASSUME phase = "up", NEW x \in Ancestors[tip] PROVE status[x] \cap FailedMask = {}
    BY DEF FailFree
  <2>1. target[t] \notin Ancestors[x]
    BY <1>1, <1>4, AncestorsOfAncestor
  <2> QED BY <1>1, <2>1 DEF FailInv
<1>6. ExcusedInv'
  BY <1>1, <1>3 DEF FailInv, ExcusedInv
<1> QED BY <1>1, <1>3, <1>5, <1>6 DEF FailInv, Received

LEMMA ReconsiderBlockFail ==
    ASSUME LockInv, FailInv, NEW t \in Threads, NEW b \in Blocks, ReconsiderBlock(t, b)
    PROVE  FailInv'
<1>1. PICK S : status' = Unmark(status, S, FailedMask)
  BY DEF ReconsiderBlock
<1>2. /\ pc[t] = "idle" /\ pc' = [pc EXCEPT ![t] = "loop"] /\ UNCHANGED <<tip, target, phase, restarts>>
  BY DEF ReconsiderBlock
<1>3. \A x \in Blocks : /\ HasTx(status', x) <=> HasTx(status, x)
                        /\ status'[x] \subseteq status[x]
  BY <1>1 DEF Unmark, HasTx, FailedMask
<1>4. tip \in Blocks /\ target \in [Threads -> Blocks]
  BY DEF LockInv
<1>5. \A x \in Ancestors[tip] : status'[x] \cap FailedMask \subseteq status[x]
  BY <1>3, <1>4, AncestorsType
<1>6. \A u \in Threads : \A x \in Ancestors[target[u]] : status'[x] \cap FailedMask \subseteq status[x]
  BY <1>3, <1>4, AncestorsType
<1>7. \A u \in Threads : /\ pc'[u] = "step" => pc[u] = "step"
                         /\ pc'[u] = "inval" <=> pc[u] = "inval"
  BY <1>2 DEF LockInv
<1> QED BY <1>2, <1>3, <1>5, <1>6, <1>7, KeepsFailInv

LEMMA FailInvNext ==
    ASSUME MaxRestarts = 0
    PROVE  FailInv /\ LockInv /\ LinkInv /\ [Next]_vars => FailInv'
<1> SUFFICES ASSUME FailInv, LockInv, LinkInv, [Next]_vars PROVE FailInv'
  OBVIOUS
<1>0. ~(restarts < MaxRestarts)
  BY DEF FailInv
<1>1. CASE \E t \in Threads : Activation(t)
  BY <1>1, ActivationFail
<1>2. CASE \E b \in HeaderFirst : AcceptBlockHeader(b)
  <2>1. \A b \in Blocks : SameVerdicts(status, WithHeader(b))
    BY DEF SameVerdicts, WithHeader, Mark, HasTx, FailedMask
  <2>2. SameVerdicts(status, status') /\ UNCHANGED <<tip, local, phase, bounds>>
    BY <1>2, <2>1, InvalidAssumption DEF AcceptBlockHeader
  <2> QED BY <2>2, FlushFailInv DEF local, bounds
<1>3. CASE \E t \in Threads, b \in Blocks \ {Genesis}, r \in BOOLEAN : ProcessNewBlock(t, b, r)
  BY <1>3, ProcessNewBlockFail
<1>4. CASE PeriodicFlush
  <2>1. SameVerdicts(status, status') /\ UNCHANGED <<tip, target, pc, restarts>>
        /\ phase' \in {phase, "stopping"}
    BY <1>4, FlushVerdicts DEF PeriodicFlush, FlushIgnored, local
  <2> QED BY <2>1, FlushFailInv
<1>5. CASE \E t \in Threads, b \in InvalidateTargets : InvalidateBlock(t, b)
  BY <1>5, InvalidateBlockFail
<1>6. CASE \E t \in Threads : InvalidateWalk(t) \/ InvalidateFails(t) \/ InvalidateEnd(t)
  BY <1>6, InvalidateWalkFail, InvalidateEndFail
<1>7. CASE \E t \in Threads, b \in ReconsiderTargets : ReconsiderBlock(t, b)
  BY <1>7, ReconsiderBlockFail, InvalidAssumption
<1>8. CASE RequestShutdown
  BY <1>0, <1>8 DEF RequestShutdown
<1>9. CASE Shutdown
  <2>1. SameVerdicts(status, status') /\ UNCHANGED <<tip, target, pc, restarts>> /\ phase' = "down"
    BY <1>9, FlushVerdicts DEF Shutdown, local
  <2> QED BY <2>1, FlushFailInv
<1>10. CASE \E t \in Threads : InitPrune(t)
  <2>1. PICK t \in Threads : InitPrune(t)
    BY <1>10
  <2>2. /\ SameVerdicts(status, status') /\ UNCHANGED <<tip, target, restarts>>
        /\ phase' \in {phase, "stopping"} /\ pc[t] = "init" /\ pc' = [pc EXCEPT ![t] = "loop"]
    BY <2>1, FlushVerdicts DEF InitPrune, FlushIgnored
  <2>3. \A u \in Threads : /\ pc'[u] = "step" => pc[u] = "step"
                           /\ pc'[u] = "inval" <=> pc[u] = "inval"
    BY <2>2 DEF LockInv
  <2> QED BY <2>2, <2>3, FlushFailInv
<1>11. CASE \E t \in Threads : Restart(t) \/ Crash(t)
  BY <1>0, <1>11 DEF Restart, Crash
<1>12. CASE UNCHANGED vars
  BY <1>12, SameVerdictsItself, FlushFailInv DEF vars, memory, local, bounds
<1> QED
  BY <1>1, <1>2, <1>3, <1>4, <1>5, <1>6, <1>7, <1>8, <1>9, <1>10, <1>11, <1>12 DEF Next

\* Until the node is restarted, no block of chainActive carries a failure flag
\* when cs_main is free: not after invalidateblock and reconsiderblock calls in
\* any order and from any thread, not after ConnectBlock rejected a block, and
\* not when pruned blocks are received again, so that ActivateBestChain fails for
\* want of undo data and the node goes on.  Only an InvalidateBlock that fails
\* half-way leaves failed blocks in the chain, and only on top of its block.
THEOREM ActiveChainIsNotFailed ==
    ASSUME MaxRestarts = 0
    PROVE  Spec => []ActiveChainNotFailed
<1>1. Init => LinkInv /\ LockInv /\ FailInv
  <2> SUFFICES ASSUME Init PROVE LinkInv /\ LockInv /\ FailInv
    OBVIOUS
  <2>1. /\ status = [b \in Blocks |-> IF b = Genesis THEN {"TREE", "TRANSACTIONS", "DATA"} ELSE {}]
        /\ tip = Genesis /\ Genesis \in Blocks /\ Genesis \notin InvalidBody
    BY BlocksAssumption, InvalidAssumption DEF Init
  <2>2. FailFree(status, Ancestors[tip]) /\ Processed(status, tip)
    BY <2>1, AncestorsGenesis DEF FailFree, FailedMask, Processed, HasTx
  <2>3. Received
    BY <2>1, <2>2 DEF Received, HasTx, Init
  <2>4. LinkInv
    BY AncestorsGenesis, BlocksAssumption DEF Init, LinkInv, Processed, HasTx
  <2>5. LockInv
    BY BlocksAssumption DEF Init, LockInv, PC
  <2>6. FailInv
    BY <2>2, <2>3 DEF Init, FailInv, ExcusedInv, Excused, FailFree
  <2> QED BY <2>4, <2>5, <2>6
<1>2. LinkInv /\ LockInv /\ FailInv /\ [Next]_vars => (LinkInv /\ LockInv /\ FailInv)'
  BY LinkInvNext, LockInvNext, FailInvNext
<1>3. LockInv /\ FailInv => ActiveChainNotFailed
  <2> SUFFICES ASSUME LockInv, FailInv, Unlocked, NEW b \in Active, Failed(b)
               PROVE  phase # "up" /\ Ancestors[b] \cap InvalidateTargets # {}
    BY DEF ActiveChainNotFailed
  <2>1. \A t \in Threads : pc[t] # "inval"
    BY ThreadsAssumption DEF LockInv, Unlocked
  <2>2. phase # "up"
    BY <2>1 DEF FailInv, FailFree, Failed, Active
  <2>3. Ancestors[b] \cap InvalidateTargets # {}
    BY DEF FailInv, ExcusedInv, Excused, Failed, Active
  <2> QED BY <2>2, <2>3
<1> QED BY <1>1, <1>2, <1>3, PTL DEF Spec
-----------------------------------------------------------------------------
(* The target of a step *)

\* While thread t is inside ActivateBestChainStep nobody else changes the index
\* or the chain.
LEMMA StepFrame ==
    ASSUME LockInv, [Next]_vars, NEW t \in Threads, pc'[t] = "step"
    PROVE  \/ BeginStep(t)
           \/ pc[t] = "step" /\ (DisconnectTip(t) \/ ConnectTip(t))
           \/ pc[t] = "step" /\ UNCHANGED <<memory, target, oldTip>>
<1>0. ASSUME owner = NoThread PROVE pc[t] # "step"
  BY <1>0, ThreadsAssumption DEF LockInv
<1>1. ASSUME NEW u \in Threads, NEW p, p # "step", pc' \in {pc, [pc EXCEPT ![u] = p]}
      PROVE  pc[t] = "step"
  BY <1>1 DEF LockInv
<1>2. CASE \E b \in HeaderFirst : AcceptBlockHeader(b)
  BY <1>0, <1>2 DEF AcceptBlockHeader, Unlocked, local
<1>3. CASE \E u \in Threads, b \in Blocks \ {Genesis}, r \in BOOLEAN : ProcessNewBlock(u, b, r)
  <2>1. PICK u \in Threads : owner = NoThread /\ pc' \in {pc, [pc EXCEPT ![u] = "loop"]}
    BY <1>3 DEF ProcessNewBlock, Unlocked, StoreBlock
  <2>2. pc[t] = "step"
    BY <1>1, <2>1
  <2> QED BY <1>0, <2>1, <2>2
<1>4. CASE \E u \in Threads : EnterLoop(u) \/ CheckTip(u)
  <2>1. PICK u \in Threads, p \in {"lock", "flush", "loop"} :
            pc' = [pc EXCEPT ![u] = p] /\ UNCHANGED <<memory, target, oldTip>>
    BY <1>4 DEF EnterLoop, CheckTip
  <2> QED BY <1>1, <2>1
<1>5. CASE \E u \in Threads : DiscardCandidate(u) \/ NothingToDo(u)
  <2>1. PICK u \in Threads : /\ owner \in {NoThread, u} /\ pc[u] = "lock"
                             /\ pc' \in {pc, [pc EXCEPT ![u] = "idle"]}
    BY <1>5 DEF DiscardCandidate, NothingToDo, AtLoop, CanLock
  <2>2. pc[t] = "step"
    BY <1>1, <2>1
  <2> QED BY <2>1, <2>2, OthersOutside
<1>6. CASE \E u \in Threads : BeginStep(u)
  <2>1. PICK u \in Threads : BeginStep(u)
    BY <1>6
  <2>2. u # t => pc[t] = "step"
    BY <2>1 DEF BeginStep, LockInv
  <2>3. owner \in {NoThread, u}
    BY <2>1 DEF BeginStep, AtLoop, CanLock
  <2> QED BY <2>1, <2>2, <2>3, OthersOutside
<1>7. CASE \E u \in Threads : DisconnectTip(u) \/ ConnectTip(u)
  <2>1. PICK u \in Threads : DisconnectTip(u) \/ ConnectTip(u)
    BY <1>7
  <2>2. pc[u] = "step" /\ pc' \in {pc, [pc EXCEPT ![u] = "check"]}
    BY <2>1 DEF DisconnectTip, ConnectTip, Disconnecting, Connecting, local
  <2>3. pc[t] = "step"
    BY <1>1, <2>2
  <2>4. u = t
    BY <2>2, <2>3 DEF LockInv
  <2> QED BY <2>1, <2>3, <2>4
<1>8. CASE \E u \in Threads : \/ TipAborts(u) \/ UndoFails(u) \/ ConnectTipInvalid(u)
                              \/ TipWriteError(u) \/ IndexWriteThrows(u)
  <2>1. PICK u \in Threads, p \in {"idle", "check"} : pc[u] = "step" /\ pc' = [pc EXCEPT ![u] = p]
    BY <1>8 DEF TipAborts, UndoFails, ConnectTipInvalid, TipWriteError, IndexWriteThrows,
                Disconnecting, Connecting
  <2>2. pc[t] = "step" /\ u # t
    BY <1>1, <2>1 DEF LockInv
  <2> QED BY <2>1, <2>2 DEF LockInv
<1>9. CASE PeriodicFlush \/ Shutdown \/ \E u \in Threads : FlushAndReturn(u)
  <2>1. \E u \in Threads : owner = NoThread /\ pc' \in {pc, [pc EXCEPT ![u] = "idle"]}
    BY <1>9 DEF PeriodicFlush, Shutdown, FlushAndReturn, Unlocked, local
  <2>2. pc[t] = "step"
    BY <1>1, <2>1
  <2> QED BY <1>0, <2>1, <2>2
<1>10. CASE \/ \E u \in Threads, b \in InvalidateTargets : InvalidateBlock(u, b)
            \/ \E u \in Threads, b \in ReconsiderTargets : ReconsiderBlock(u, b)
  <2>1. PICK u \in Threads, p \in {"inval", "loop"} : owner = NoThread /\ pc' = [pc EXCEPT ![u] = p]
    BY <1>10 DEF InvalidateBlock, ReconsiderBlock, Unlocked
  <2>2. pc[t] = "step"
    BY <1>1, <2>1
  <2> QED BY <1>0, <2>1, <2>2
<1>11. CASE \E u \in Threads : \/ InvalidateWalk(u) \/ InvalidateFails(u) \/ InvalidateEnd(u)
                               \/ InitPrune(u)
  <2>1. PICK u \in Threads, p \in {"idle", "loop"} :
           pc[u] \in {"inval", "init"} /\ pc' \in {pc, [pc EXCEPT ![u] = p]}
    BY <1>11 DEF InvalidateWalk, InvalidateFails, InvalidateEnd, InitPrune, local
  <2>2. pc[t] = "step"
    BY <1>1, <2>1
  <2> QED BY <2>1, <2>2 DEF LockInv
<1>12. CASE RequestShutdown \/ UNCHANGED vars
  BY <1>12 DEF RequestShutdown, vars, local
<1>13. CASE \E u \in Threads : Restart(u) \/ Crash(u)
  <2>1. \E u \in Threads : pc' = [v \in Threads |-> IF v = u THEN "init" ELSE "idle"]
    BY <1>13, RestartLoads DEF LoadBlockIndexDB
  <2> QED BY <2>1
<1> QED
  BY <1>2, <1>3, <1>4, <1>5, <1>6, <1>7, <1>8, <1>9, <1>10, <1>11, <1>12, <1>13
  DEF Next, Activation

\* The target of a step stays the best candidate; of its branch only blocks that
\* FindMostWorkChain has looked at, and found without fault, are still to connect.
StepInv ==
    \A t \in Threads : pc[t] = "step" =>
        /\ IsBest(target[t])
        /\ Ancestors[oldTip] \cap Ancestors[target[t]] \subseteq Ancestors[tip]
        /\ FailFree(status, Ancestors[target[t]] \ Ancestors[oldTip])

LEMMA StepInvNext == StepInv /\ LockInv /\ LinkInv /\ [Next]_vars => StepInv'
<1> SUFFICES ASSUME StepInv, LockInv, LinkInv, [Next]_vars, NEW t \in Threads, pc'[t] = "step"
    PROVE  /\ IsBest(target[t])'
           /\ Ancestors[oldTip'] \cap Ancestors[target'[t]] \subseteq Ancestors[tip']
           /\ FailFree(status', Ancestors[target'[t]] \ Ancestors[oldTip'])
  BY DEF StepInv
<1>0. target[t] \in Blocks /\ tip \in Blocks /\ oldTip \in Blocks /\ candidates \subseteq Blocks
  BY DEF LockInv, LinkInv
<1>1. CASE BeginStep(t)
  <2>1. PICK c \in candidates : IsBest(c) /\ Obstacles(c) = {} /\ target' = [target EXCEPT ![t] = c]
    BY <1>1 DEF BeginStep
  <2>2. target'[t] = c /\ oldTip' = tip /\ UNCHANGED <<status, seq, candidates, tip>>
    BY <1>1, <2>1 DEF BeginStep, LockInv, memory
  <2>3. FailFree(status, Ancestors[c] \ Ancestors[tip])
    BY <2>1 DEF FailFree, Obstacles, Active, Failed
  <2> QED BY <2>1, <2>2, <2>3 DEF IsBest
<1>2. CASE pc[t] = "step" /\ UNCHANGED <<memory, target, oldTip>>
  BY <1>2 DEF StepInv, memory, IsBest
<1>3. CASE pc[t] = "step" /\ DisconnectTip(t)
  <2>1. /\ tip' = Parent[tip] /\ tip \notin Ancestors[target[t]]
        /\ UNCHANGED <<seq, candidates, target, oldTip>>
    BY <1>3 DEF DisconnectTip, Disconnecting, local
  <2>2. Ancestors[tip] = Ancestors[tip'] \cup {tip}
    BY <1>3, <2>1, TipNotGenesis, AncestorsParent DEF DisconnectTip
  <2>3. SameVerdicts(status, status')
    BY <1>3, FlushVerdicts DEF DisconnectTip
  <2>4. FailFree(status', Ancestors[target[t]] \ Ancestors[oldTip])
    BY <1>0, <1>3, <2>3, AncestorsType DEF StepInv, FailFree, SameVerdicts
  <2> QED BY <1>3, <2>1, <2>2, <2>4 DEF StepInv, IsBest
<1>4. CASE pc[t] = "step" /\ ConnectTip(t)
  <2>1. PICK n \in Blocks \ InvalidScripts :
          /\ Connecting(t, n)
          /\ FlushStateToDisk("IF_NEEDED", Connected(n), DirtyConnected(n), unlinked, n)
          /\ tip' = n /\ candidates' = PrunedCandidates(candidates, seq, n)
          /\ UNCHANGED <<seq, target, oldTip>>
          /\ StepEnds(t, n) => pc' = [pc EXCEPT ![t] = "check"]
    BY <1>4 DEF ConnectTip
  <2>2. ~StepEnds(t, n)
    BY <2>1 DEF LockInv
  <2>3. n \in Ancestors[target[t]] \ {Genesis} /\ Parent[n] = tip /\ n # target[t]
    BY <2>1, <2>2 DEF Connecting, StepEnds
  <2>4. ~Worse(seq, target[t], n)
    BY <1>0, <2>3, AncestorIsLower, MoreWorkNotWorse
  <2>5. IsBest(target[t])'
    BY <1>4, <2>1, <2>4 DEF StepInv, IsBest, PrunedCandidates
  <2>6. Ancestors[tip] \subseteq Ancestors[tip']
    BY <2>1, <2>3, AncestorsParent
  <2>7. SameVerdicts(status, status')
    <3>1. SameVerdicts(Connected(n), status')
      BY <2>1, FlushVerdicts
    <3>2. SameVerdicts(status, Connected(n))
      BY DEF SameVerdicts, Connected, Mark, HasTx, FailedMask
    <3> QED BY <3>1, <3>2 DEF SameVerdicts
  <2>8. FailFree(status', Ancestors[target[t]] \ Ancestors[oldTip])
    BY <1>0, <1>4, <2>7, AncestorsType DEF StepInv, FailFree, SameVerdicts
  <2> QED BY <1>4, <2>1, <2>5, <2>6, <2>8 DEF StepInv
<1> QED BY <1>1, <1>2, <1>3, <1>4, StepFrame
-----------------------------------------------------------------------------
(* The shape of nChainTx # 0, and candidates against the tip *)

\* nChainTx is set along branches, and candidates have it.
ShapeInv == ParentClosed(linked) /\ linked \subseteq Blocks /\ candidates \subseteq linked

LEMMA StoreBlockShape ==
    ASSUME ShapeInv, NEW b \in Blocks \ {Genesis}, StoreBlock(b)
    PROVE  ShapeInv'
<1>1. CASE Parent[b] \in linked
  <2> DEFINE L == NowLinked(b)
  <2>1. linked' = linked \cup L /\ candidates' \subseteq candidates \cup L
    BY <1>1 DEF StoreBlock, NewCandidates
  <2>2. L \subseteq Blocks
    BY DEF NowLinked
  <2>3. ASSUME NEW c \in L \ {Genesis} PROVE Parent[c] \in linked \cup L
    <3>1. c \in Blocks \ {Genesis} /\ b \in Ancestors[c] /\ Ancestors[c] \ Ancestors[b] \subseteq unlinked
      BY DEF NowLinked
    <3>2. Parent[c] \in Blocks /\ Ancestors[c] = Ancestors[Parent[c]] \cup {c}
      BY <3>1, AncestorsParent
    <3>3. CASE c = b
      BY <1>1, <3>3
    <3>4. CASE c # b
      BY <3>1, <3>2, <3>4 DEF NowLinked
    <3> QED BY <3>3, <3>4
  <2> HIDE DEF L
  <2> QED BY <2>1, <2>2, <2>3 DEF ShapeInv, ParentClosed
<1>2. CASE Parent[b] \notin linked
  <2>1. b \notin linked
    BY <1>2 DEF ShapeInv, ParentClosed
  <2>2. linked' = linked /\ candidates' = candidates
    BY <1>2, <2>1 DEF StoreBlock
  <2> QED BY <2>2 DEF ShapeInv
<1> QED BY <1>1, <1>2

LEMMA LoadShape ==
    ASSUME NEW t, NEW ds, LoadBlockIndexDB(t, ds)
    PROVE  ShapeInv'
<1>1. linked' = LoadLinked(ds) /\ candidates' \subseteq LoadLinked(ds)
  BY DEF LoadBlockIndexDB, PrunedCandidates
<1>2. ASSUME NEW c \in LoadLinked(ds) \ {Genesis} PROVE Parent[c] \in LoadLinked(ds)
  <2>1. c \in Blocks \ {Genesis} /\ \A a \in Ancestors[c] : "TRANSACTIONS" \in ds[a]
    BY DEF LoadLinked
  <2> QED BY <2>1, AncestorsParent DEF LoadLinked
<1> QED BY <1>1, <1>2 DEF ShapeInv, ParentClosed, LoadLinked

LEMMA ShapeInvNext == ShapeInv /\ [Next]_vars => ShapeInv'
<1> SUFFICES ASSUME ShapeInv, [Next]_vars PROVE ShapeInv'
  OBVIOUS
<1>1. CASE \E t \in Threads, b \in Blocks \ {Genesis}, r \in BOOLEAN : ProcessNewBlock(t, b, r)
  <2>1. PICK b \in Blocks \ {Genesis} : StoreBlock(b) \/ UNCHANGED <<linked, candidates>>
    BY <1>1 DEF ProcessNewBlock
  <2> QED BY <2>1, StoreBlockShape DEF ShapeInv
<1>2. CASE \E t \in Threads : Restart(t) \/ Crash(t)
  BY <1>2, RestartLoads, LoadShape
<1>3. CASE linked' = linked /\ candidates' \subseteq candidates \cup linked
  BY <1>3 DEF ShapeInv
<1>4. CASE \E t \in Threads : Activation(t)
  <2>1. linked' = linked /\ candidates' \subseteq candidates
    BY <1>4 DEF Activation, EnterLoop, DiscardCandidate, NothingToDo, BeginStep, DisconnectTip,
                TipAborts, UndoFails, ConnectTip, ConnectTipInvalid, TipWriteError,
                IndexWriteThrows, CheckTip, FlushAndReturn, PrunedCandidates, memory
  <2> QED BY <1>3, <2>1
<1>5. CASE \/ \E b \in HeaderFirst : AcceptBlockHeader(b)
           \/ PeriodicFlush \/ RequestShutdown \/ Shutdown \/ UNCHANGED vars
           \/ \E t \in Threads : InitPrune(t)
  BY <1>3, <1>5 DEF AcceptBlockHeader, PeriodicFlush, RequestShutdown, Shutdown, InitPrune, vars, memory
<1>6. CASE \/ \E t \in Threads, b \in InvalidateTargets : InvalidateBlock(t, b)
           \/ \E t \in Threads : InvalidateWalk(t) \/ InvalidateFails(t) \/ InvalidateEnd(t)
           \/ \E t \in Threads, b \in ReconsiderTargets : ReconsiderBlock(t, b)
  BY <1>3, <1>6 DEF InvalidateBlock, InvalidateWalk, InvalidateFails, InvalidateEnd,
                    ReconsiderBlock, BackInPlay
<1> QED BY <1>1, <1>2, <1>4, <1>5, <1>6 DEF Next

\* Without pruning, a block's data is there when its transactions are.
DataTx(st) == \A b \in Blocks : "DATA" \in st[b] <=> HasTx(st, b)
DataInv    == DataTx(status) /\ DataTx(diskStatus)

LEMMA FlushData ==
    ASSUME PruneMode = FALSE, NEW mode, NEW st, NEW drt, NEW unl, NEW best,
           \/ FlushStateToDisk(mode, st, drt, unl, best)
           \/ FlushFails(mode, st, drt, unl)
           \/ FlushIgnored(mode, st, drt, unl)
    PROVE  /\ status' = [b \in Blocks |-> st[b]]
           /\ unlinked' = unl
           /\ \A b \in Blocks : diskStatus'[b] \in {diskStatus[b], st[b]}
           /\ DataTx(st) /\ DataTx(diskStatus) => DataTx(status') /\ DataTx(diskStatus')
<1>1. PruneSets(st) = {{}} /\ Unmark(st, {}, {"DATA", "UNDO"}) = [b \in Blocks |-> st[b]]
  BY DEF PruneSets, Unmark
<1> DEFINE st1 == [b \in Blocks |-> st[b]]
<1>2. \A D : \A b \in Blocks : Written(st1, D)[b] \in {diskStatus[b], st[b]}
  BY DEF Written
<1>3. /\ status' = st1 /\ unlinked' = unl
      /\ diskStatus' = diskStatus \/ \E D : diskStatus' = Written(st1, D)
  BY <1>1 DEF FlushStateToDisk, FlushFails, FlushIgnored, disk
<1>4. \A b \in Blocks : diskStatus'[b] \in {diskStatus[b], st[b]}
  BY <1>2, <1>3
<1> QED BY <1>3, <1>4 DEF DataTx, HasTx

LEMMA MarkData ==
    ASSUME NEW st, NEW S, NEW F, DataTx(st), {"DATA", "TRANSACTIONS"} \cap F = {}
    PROVE  DataTx(Mark(st, S, F)) /\ DataTx(Unmark(st, S, F))
BY DEF DataTx, HasTx, Mark, Unmark

LEMMA FlushingData ==
    ASSUME DataInv, NEW st, NEW drt, Flushing(st, drt)
    PROVE  DataTx(st)
<1>1. \A b : DataTx(Stored(b))
  <2> TAKE b
  <2>1. DataTx(WithHeader(b))
    BY MarkData DEF DataInv, WithHeader
  <2> QED BY <2>1 DEF Stored, DataTx, HasTx, Mark
<1>2. \A n : DataTx(Connected(n))
  BY MarkData DEF DataInv, Connected
<1>3. DataTx(MarkedTip)
  BY MarkData DEF DataInv, MarkedTip
<1> QED BY <1>1, <1>2, <1>3 DEF Flushing, DataInv

LEMMA LoadData ==
    ASSUME PruneMode = FALSE, DataInv, NEW t, Restart(t) \/ Crash(t)
    PROVE  DataInv'
<1>1. PICK ds : /\ status' = ds /\ diskStatus' = ds
                /\ \/ ds = diskStatus
                   \/ \E st, drt : ds = Written(st, drt) /\ Flushing(st, drt)
  BY RestartCases DEF LoadBlockIndexDB
<1>2. ASSUME NEW st, NEW drt, Flushing(st, drt) PROVE DataTx(Written(st, drt))
  <2>1. DataTx(st) /\ DataTx(diskStatus)
    BY <1>2, FlushingData DEF DataInv
  <2> QED BY <2>1 DEF DataTx, HasTx, Written
<1> QED BY <1>1, <1>2 DEF DataInv

LEMMA DataInvNext ==
    ASSUME PruneMode = FALSE
    PROVE  DataInv /\ [Next]_vars => DataInv'
<1> SUFFICES ASSUME DataInv, [Next]_vars PROVE DataInv'
  OBVIOUS
<1> USE FlushData, MarkData DEF DataInv
<1>1. CASE \E b \in HeaderFirst : AcceptBlockHeader(b)
  BY <1>1 DEF AcceptBlockHeader, WithHeader, disk
<1>2. CASE \E t \in Threads, b \in Blocks \ {Genesis}, r \in BOOLEAN : ProcessNewBlock(t, b, r)
  <2>1. PICK t \in Threads, b \in Blocks \ {Genesis}, r \in BOOLEAN : ProcessNewBlock(t, b, r)
    BY <1>2
  <2>2. DataTx(WithHeader(b))
    BY DEF WithHeader
  <2>3. DataTx(Stored(b))
    BY <2>2 DEF DataTx, HasTx, Mark, Stored
  <2>4. CASE StoreBlock(b)
    BY <2>3, <2>4 DEF StoreBlock
  <2> QED BY <2>1, <2>2, <2>4 DEF ProcessNewBlock, disk
<1>3. CASE \E t \in Threads : ConnectTip(t) \/ TipWriteError(t) \/ IndexWriteThrows(t)
  <2>1. \A n : DataTx(Connected(n))
    BY DEF Connected
  <2> QED BY <1>3, <2>1 DEF ConnectTip, TipWriteError, IndexWriteThrows, disk
<1>4. CASE \E t \in Threads : \/ EnterLoop(t) \/ NothingToDo(t) \/ BeginStep(t) \/ TipAborts(t)
                              \/ UndoFails(t) \/ CheckTip(t)
  BY <1>4 DEF EnterLoop, NothingToDo, BeginStep, TipAborts, UndoFails, CheckTip, memory, disk
<1>5. CASE \E t \in Threads : DiscardCandidate(t) \/ ConnectTipInvalid(t)
  <2>1. diskStatus' = diskStatus /\ (status' = status \/ \E S, f :
            f \in {"FAILED_VALID", "FAILED_CHILD"} /\ status' = Mark(status, S, {f}))
    BY <1>5 DEF DiscardCandidate, ConnectTipInvalid, disk
  <2> QED BY <2>1
<1>6. CASE \E t \in Threads : DisconnectTip(t) \/ FlushAndReturn(t) \/ InitPrune(t)
  BY <1>6 DEF DisconnectTip, FlushAndReturn, InitPrune
<1>7. CASE PeriodicFlush \/ Shutdown
  BY <1>7 DEF PeriodicFlush, Shutdown
<1>8. CASE \E t \in Threads, b \in InvalidateTargets : InvalidateBlock(t, b)
  BY <1>8 DEF InvalidateBlock, disk
<1>9. CASE \E t \in Threads : InvalidateWalk(t) \/ InvalidateFails(t)
  <2>1. DataTx(MarkedTip)
    BY DEF MarkedTip
  <2> QED BY <1>9, <2>1 DEF InvalidateWalk, InvalidateFails, disk
<1>10. CASE \E t \in Threads : InvalidateEnd(t)
  BY <1>10 DEF InvalidateEnd, disk
<1>11. CASE \E t \in Threads, b \in ReconsiderTargets : ReconsiderBlock(t, b)
  <2>1. diskStatus' = diskStatus /\ \E S : status' = Unmark(status, S, FailedMask)
    BY <1>11 DEF ReconsiderBlock, disk
  <2> QED BY <2>1 DEF FailedMask
<1>12. CASE RequestShutdown \/ UNCHANGED vars
  BY <1>12 DEF RequestShutdown, vars, memory, disk
<1>13. CASE \E t \in Threads : Restart(t) \/ Crash(t)
  BY <1>13, LoadData
<1> QED
  BY <1>1, <1>2, <1>3, <1>4, <1>5, <1>6, <1>7, <1>8, <1>9, <1>10, <1>11, <1>12, <1>13
  DEF Next, Activation

\* No candidate sorts below the tip, and the target of a step not below the tip
\* it started from.
SoundInv ==
    /\ \A x \in candidates : ~Worse(seq, x, tip)
    /\ \A t \in Threads : pc[t] = "step" => ~Worse(seq, target[t], oldTip)

\* What holds besides in a node that does not prune and whose writes succeed
PlainInv == LinkInv /\ DiskInv /\ LockInv /\ ShapeInv /\ DataInv

LEMMA PlainFacts ==
    ASSUME PlainInv
    PROVE  /\ tip \in Blocks /\ Processed(status, tip) /\ seq \in [Blocks -> Nat]
           /\ candidates \subseteq Blocks /\ \A x \in candidates : Processed(status, x)
           /\ linked \subseteq Blocks /\ \A x \in linked : Processed(status, x)
BY DEF PlainInv, LinkInv, DiskInv, Rest, Position, Verified

\* A block that is stored was not there before: it and what it links get new
\* sequence ids, no block that is linked or active does.
LEMMA StoreBlockSeq ==
    ASSUME PlainInv, NEW b \in Blocks \ {Genesis}, StoreBlock(b), "DATA" \notin status[b]
    PROVE  /\ \A x \in Blocks : Processed(status, x) => b \notin Ancestors[x] /\ seq'[x] = seq[x]
           /\ \A x \in candidates' \ candidates : x \in Blocks /\ ~Worse(seq', x, tip)
<1>1. ~HasTx(status, b)
  BY DEF PlainInv, DataInv, DataTx
<1>2. \A x \in Blocks : Processed(status, x) => b \notin Ancestors[x]
  BY <1>1 DEF Processed
<1>3. CASE Parent[b] \in linked
  <2>1. /\ \E f \in NewSeqs(NowLinked(b)) :
             seq' = [x \in Blocks |-> IF x \in NowLinked(b) THEN f[x] ELSE seq[x]]
        /\ candidates' = candidates \cup NewCandidates(NowLinked(b), seq')
    BY <1>3 DEF StoreBlock
  <2>2. \A x \in Blocks : Processed(status, x) => seq'[x] = seq[x]
    BY <1>2, <2>1 DEF NowLinked
  <2> QED BY <1>2, <2>1, <2>2 DEF NewCandidates, NowLinked
<1>4. CASE Parent[b] \notin linked
  BY <1>2, <1>4 DEF StoreBlock
<1> QED BY <1>3, <1>4

LEMMA StoreBlockSound ==
    ASSUME PlainInv, NEW b \in Blocks \ {Genesis}, StoreBlock(b), "DATA" \notin status[b],
           tip' = tip, \A x \in candidates : ~Worse(seq, x, tip)
    PROVE  \A x \in candidates' : ~Worse(seq', x, tip')
<1> SUFFICES ASSUME NEW x \in candidates, x \in candidates' PROVE ~Worse(seq', x, tip)
  BY StoreBlockSeq
<1>1. seq'[x] = seq[x] /\ seq'[tip] = seq[tip]
  BY StoreBlockSeq, PlainFacts
<1> QED BY <1>1 DEF Worse

LEMMA ProcessNewBlockSound ==
    ASSUME PlainInv, \A x \in candidates : ~Worse(seq, x, tip),
           NEW t, NEW b \in Blocks \ {Genesis}, NEW r, ProcessNewBlock(t, b, r)
    PROVE  \A x \in candidates' : ~Worse(seq', x, tip')
<1>1. CASE StoreBlock(b) /\ "DATA" \notin status[b] /\ tip' = tip
  BY <1>1, StoreBlockSound
<1>2. CASE UNCHANGED <<seq, candidates, tip>>
  BY <1>2
<1> QED BY <1>1, <1>2 DEF ProcessNewBlock, NotWanted

LEMMA CandidatesStaySound ==
    ASSUME PlainInv, \A x \in candidates : ~Worse(seq, x, tip), [Next]_vars
    PROVE  \A x \in candidates' : ~Worse(seq', x, tip')
<1>0. tip \in Blocks /\ candidates \subseteq Blocks /\ seq \in [Blocks -> Nat] /\ linked \subseteq Blocks
  BY PlainFacts
<1>1. CASE \E t \in Threads, b \in Blocks \ {Genesis}, r \in BOOLEAN : ProcessNewBlock(t, b, r)
  BY <1>1, ProcessNewBlockSound
<1>2. CASE UNCHANGED <<seq, tip>> /\ candidates' \subseteq candidates
  BY <1>2
<1>10. CASE \E t \in Threads : InvalidateFails(t)
  BY <1>2, <1>10 DEF InvalidateFails
<1>3. CASE \E t \in Threads : DisconnectTip(t) \/ InvalidateWalk(t)
  <2>1. UNCHANGED <<seq>> /\ candidates' \subseteq candidates /\ tip' \in {tip, Parent[tip]}
    BY <1>3 DEF DisconnectTip, InvalidateWalk
  <2>2. tip \in Blocks \ {Genesis} /\ Parent[tip] \in Blocks
    BY <1>3, TipNotGenesis DEF PlainInv, DisconnectTip, InvalidateWalk
  <2>3. ASSUME NEW x \in candidates PROVE ~Worse(seq, x, Parent[tip])
    <3>1. Work[Parent[tip]] < Work[tip]
      BY <2>2, WorkAssumption
    <3>2. ~Worse(seq, tip, Parent[tip])
      BY <2>2, <3>1, MoreWorkNotWorse
    <3> QED BY <1>0, <2>2, <3>2, WorseOrder
  <2> QED BY <2>1, <2>3
<1>4. CASE \E t \in Threads : ConnectTip(t)
  BY <1>4 DEF ConnectTip, PrunedCandidates
<1>5. CASE \E t \in Threads : \/ EnterLoop(t) \/ DiscardCandidate(t) \/ NothingToDo(t) \/ BeginStep(t)
                              \/ TipAborts(t) \/ UndoFails(t) \/ ConnectTipInvalid(t)
                              \/ TipWriteError(t) \/ IndexWriteThrows(t)
                              \/ CheckTip(t) \/ FlushAndReturn(t) \/ InitPrune(t)
  BY <1>2, <1>5 DEF EnterLoop, DiscardCandidate, NothingToDo, BeginStep, TipAborts, UndoFails,
                    ConnectTipInvalid, TipWriteError, IndexWriteThrows, CheckTip, FlushAndReturn,
                    InitPrune, memory
<1>6. CASE \/ \E b \in HeaderFirst : AcceptBlockHeader(b)
           \/ PeriodicFlush \/ RequestShutdown \/ Shutdown \/ UNCHANGED vars
           \/ \E t \in Threads, b \in InvalidateTargets : InvalidateBlock(t, b)
  BY <1>2, <1>6 DEF AcceptBlockHeader, PeriodicFlush, RequestShutdown, Shutdown, vars, memory, InvalidateBlock
<1>7. CASE \E t \in Threads : InvalidateEnd(t)
  BY <1>7 DEF InvalidateEnd, BackInPlay
<1>8. CASE \E t \in Threads, b \in ReconsiderTargets : ReconsiderBlock(t, b)
  <2>1. /\ UNCHANGED <<seq, tip>>
        /\ \A x \in candidates' \ candidates : x \in linked /\ Worse(seq, tip, x)
    BY <1>8 DEF ReconsiderBlock
  <2>2. \A x \in candidates' \ candidates : ~Worse(seq, x, tip)
    BY <1>0, <2>1, WorseOrder
  <2> QED BY <2>1, <2>2
<1>9. CASE \E t \in Threads : Restart(t) \/ Crash(t)
  <2>1. PICK ds : /\ seq' = [b \in Blocks |-> 0] /\ tip' = diskCoins
                  /\ candidates' = PrunedCandidates({b \in LoadLinked(ds) : ValidTx(ds, b)},
                                                    [b \in Blocks |-> 0], diskCoins)
    BY <1>9, RestartLoads DEF LoadBlockIndexDB
  <2> QED BY <2>1 DEF PrunedCandidates
<1> QED
  BY <1>1, <1>3, <1>4, <1>5, <1>6, <1>7, <1>8, <1>9, <1>10 DEF Next, Activation

LEMMA SoundInvNext == PlainInv /\ SoundInv /\ [Next]_vars => SoundInv'
<1> SUFFICES ASSUME PlainInv, SoundInv, [Next]_vars PROVE SoundInv'
  OBVIOUS
<1>1. \A x \in candidates' : ~Worse(seq', x, tip')
  BY CandidatesStaySound DEF SoundInv
<1>2. ASSUME NEW t \in Threads, pc'[t] = "step" PROVE ~Worse(seq', target'[t], oldTip')
  <2>1. CASE BeginStep(t)
    <3>1. PICK c \in candidates : target' = [target EXCEPT ![t] = c]
      BY <2>1 DEF BeginStep
    <3>2. target'[t] = c /\ oldTip' = tip /\ seq' = seq
      BY <2>1, <3>1 DEF BeginStep, memory, PlainInv, LockInv
    <3> QED BY <3>2 DEF SoundInv
  <2>2. CASE pc[t] = "step" /\ (DisconnectTip(t) \/ ConnectTip(t))
    BY <2>2 DEF DisconnectTip, ConnectTip, local, SoundInv
  <2>3. CASE pc[t] = "step" /\ UNCHANGED <<memory, target, oldTip>>
    BY <2>3 DEF memory, SoundInv
  <2> QED BY <1>2, <2>1, <2>2, <2>3, StepFrame DEF PlainInv
<1> QED BY <1>1, <1>2 DEF SoundInv

LEMMA PlainInvNext ==
    ASSUME MaxErrors = 0, PruneMode = FALSE
    PROVE  PlainInv /\ [Next]_vars => PlainInv'
BY LinkInvNext, DiskInvNext, LockInvNext, ShapeInvNext, DataInvNext DEF PlainInv

LEMMA InitPlain == Init => PlainInv /\ SoundInv /\ StepInv
<1> SUFFICES ASSUME Init PROVE PlainInv /\ SoundInv /\ StepInv
  OBVIOUS
<1>1. LinkInv
  BY AncestorsGenesis, BlocksAssumption DEF Init, LinkInv, Processed, HasTx
<1>2. LockInv
  BY BlocksAssumption DEF Init, LockInv, PC
<1>3. ShapeInv
  BY BlocksAssumption DEF Init, ShapeInv, ParentClosed
<1>4. DataInv
  BY DEF Init, DataInv, DataTx, HasTx
<1>5. SoundInv
  <2>1. seq \in [Blocks -> Nat] /\ candidates = {Genesis} /\ tip = Genesis
    BY DEF Init
  <2>2. ~Worse(seq, Genesis, Genesis)
    BY <2>1, BlocksAssumption, WorseOrder
  <2> QED BY <2>1, <2>2 DEF Init, SoundInv
<1>6. StepInv
  BY DEF Init, StepInv
<1> QED BY <1>1, <1>2, <1>3, <1>4, <1>5, <1>6, InitDisk DEF PlainInv

\* ActivateBestChainStep never gives cs_main back on a chain that sorts below the
\* one it started from, unless it has just marked an invalid block: in a node that
\* does not prune and whose database writes succeed, with any threads,
\* invalidateblock and reconsiderblock calls and restarts.
THEOREM TipNeverWorse ==
    ASSUME MaxErrors = 0, PruneMode = FALSE
    PROVE  Spec => NoWorseTip
<1>1. PlainInv /\ SoundInv /\ StepInv /\ [Next]_vars => (PlainInv /\ SoundInv /\ StepInv)'
  BY PlainInvNext, SoundInvNext, StepInvNext DEF PlainInv
<1>2. ASSUME PlainInv, SoundInv, StepInv, [Next]_vars, NEW t \in Threads, pc[t] = "step", pc'[t] = "check"
      PROVE  \/ ~Worse(seq, tip', oldTip)
             \/ \E b \in Blocks : Failed(b)' /\ ~Failed(b)
  <2>0. target[t] \in Blocks /\ tip \in Blocks /\ oldTip \in Blocks
    BY <1>2 DEF PlainInv, LockInv
  <2>1. ConnectTip(t) \/ ConnectTipInvalid(t)
    <3> USE DEF PlainInv
    <3>1. ASSUME NEW u \in Threads, NEW p, p # "check", pc' \in {pc, [pc EXCEPT ![u] = p]} PROVE FALSE
      BY <1>2, <3>1 DEF LockInv
    <3>2. ASSUME NEW u \in Threads, ConnectTip(u) \/ ConnectTipInvalid(u) PROVE u = t
      BY <1>2, <3>2 DEF ConnectTip, ConnectTipInvalid, Connecting, LockInv
    <3>3. ASSUME NEW u \in Threads, Activation(u), ~ConnectTip(u), ~ConnectTipInvalid(u) PROVE FALSE
      <4>1. \E p \in {"lock", "flush", "idle", "step", "loop"} : pc' \in {pc, [pc EXCEPT ![u] = p]}
        BY <3>3 DEF Activation, EnterLoop, DiscardCandidate, NothingToDo, BeginStep, DisconnectTip,
                    TipAborts, UndoFails, TipWriteError, IndexWriteThrows, CheckTip,
                    FlushAndReturn, local
      <4> QED BY <3>1, <4>1
    <3>4. ASSUME \/ \E b \in HeaderFirst : AcceptBlockHeader(b)
                 \/ PeriodicFlush \/ RequestShutdown \/ Shutdown \/ UNCHANGED vars
          PROVE FALSE
      BY <1>2, <3>4 DEF AcceptBlockHeader, PeriodicFlush, RequestShutdown, Shutdown, vars, local
    <3>5. ASSUME \E u \in Threads, b \in Blocks \ {Genesis}, r \in BOOLEAN : ProcessNewBlock(u, b, r)
          PROVE FALSE
      <4>1. \E u \in Threads : pc' \in {pc, [pc EXCEPT ![u] = "loop"]}
        BY <3>5 DEF ProcessNewBlock
      <4> QED BY <3>1, <4>1
    <3>6. ASSUME \/ \E u \in Threads, b \in InvalidateTargets : InvalidateBlock(u, b)
                 \/ \E u \in Threads, b \in ReconsiderTargets : ReconsiderBlock(u, b)
                 \/ \E u \in Threads : \/ InvalidateWalk(u) \/ InvalidateFails(u)
                                      \/ InvalidateEnd(u) \/ InitPrune(u)
          PROVE FALSE
      <4>1. \E u \in Threads, p \in {"inval", "loop", "idle"} : pc' \in {pc, [pc EXCEPT ![u] = p]}
        BY <3>6 DEF InvalidateBlock, ReconsiderBlock, InvalidateWalk, InvalidateFails,
                    InvalidateEnd, InitPrune, local
      <4> QED BY <3>1, <4>1
    <3>7. ASSUME \E u \in Threads : Restart(u) \/ Crash(u) PROVE FALSE
      <4>1. \E u \in Threads : pc' = [v \in Threads |-> IF v = u THEN "init" ELSE "idle"]
        BY <3>7, RestartLoads DEF LoadBlockIndexDB
      <4> QED BY <1>2, <4>1
    <3> QED
      BY <1>2, <3>2, <3>3, <3>4, <3>5, <3>6, <3>7 DEF Next
  <2>2. CASE ConnectTip(t)
    <3>1. PICK n \in Blocks : Connecting(t, n) /\ tip' = n /\ (~StepEnds(t, n) => pc' = pc)
      BY <2>2 DEF ConnectTip
    <3>2. Work[n] > Work[oldTip] \/ n = target[t]
      BY <1>2, <3>1 DEF StepEnds
    <3>3. CASE Work[n] > Work[oldTip]
      <4>1. Work[oldTip] < Work[n]
        BY <2>0, <3>3, WorkAssumption
      <4> QED BY <2>0, <3>1, <4>1, MoreWorkNotWorse
    <3>4. CASE n = target[t]
      BY <1>2, <3>1, <3>4 DEF SoundInv
    <3> QED BY <3>2, <3>3, <3>4
  <2>3. CASE ConnectTipInvalid(t)
    <3>1. PICK n \in InvalidScripts : Connecting(t, n) /\ status' = Mark(status, {n}, {"FAILED_VALID"})
      BY <2>3 DEF ConnectTipInvalid
    <3>2. n \in Blocks \ {Genesis} /\ n \in Ancestors[target[t]] /\ Parent[n] = tip
      BY <3>1, InvalidAssumption DEF Connecting
    <3>3. n \notin Ancestors[tip]
      <4>1. Height[n] = Height[tip] + 1 /\ Height[n] \in Nat /\ Height[tip] \in Nat
        BY <2>0, <3>2, HeightAssumption
      <4>2. n # tip /\ ~(Height[n] < Height[tip])
        BY <4>1
      <4> QED BY <2>0, <3>2, <4>2, AncestorIsLower
    <3>4. n \notin Ancestors[oldTip]
      BY <1>2, <3>2, <3>3 DEF StepInv
    <3>5. status[n] \cap FailedMask = {}
      BY <1>2, <3>2, <3>4 DEF StepInv, FailFree
    <3>6. status'[n] \cap FailedMask # {}
      BY <3>1, <3>2 DEF Mark, FailedMask
    <3> QED BY <3>2, <3>5, <3>6 DEF Failed
  <2> QED BY <2>1, <2>2, <2>3
<1>3. PlainInv /\ SoundInv /\ StepInv /\ [Next]_vars =>
        [\A t \in Threads : pc[t] = "step" /\ pc'[t] = "check" =>
           \/ ~Worse(seq, tip', oldTip)
           \/ \E b \in Blocks : Failed(b)' /\ ~Failed(b)]_vars
  BY <1>2
<1> QED BY <1>1, <1>3, InitPlain, PTL DEF Spec, NoWorseTip
-----------------------------------------------------------------------------
(* Restarts: what ConnectBlock has accepted is never marked failed, unless *)
(* invalidateblock does it                                                 *)

CleanIndex(st) ==
    /\ \A b \in Blocks : "SCRIPTS" \in st[b] \/ b = Genesis => st[b] \cap FailedMask = {}
    /\ \A b \in Blocks : "SCRIPTS" \in st[b] => HasTx(st, b)
    /\ \A b \in Blocks : HasTx(st, b) => b \notin InvalidBody
    /\ \A b \in Blocks : "SCRIPTS" \in st[b] => \A a \in Ancestors[b] \ {Genesis} : "SCRIPTS" \in st[a]

CleanInv ==
    /\ CleanIndex(status) /\ CleanIndex(diskStatus)
    /\ \A t \in Threads : pc[t] # "inval"
    /\ \A t \in Threads : pc[t] = "step" => FailFree(status, Ancestors[target[t]])

\* Writing all dirty entries brings the validity levels on disk up to date.
LEMMA WrittenLevels ==
    ASSUME NEW st, NEW drt, Coherent(st, drt, diskStatus, diskCoins), NEW D, drt \subseteq D
    PROVE  \A b \in Blocks : /\ Level \cap Written(st, D)[b] = Level \cap st[b]
                             /\ Written(st, D)[b] \in {diskStatus[b], st[b]}
<1> SUFFICES ASSUME NEW b \in Blocks
    PROVE /\ Level \cap Written(st, D)[b] = Level \cap st[b]
          /\ Written(st, D)[b] \in {diskStatus[b], st[b]}
  OBVIOUS
<1>1. Written(st, D)[b] = IF b \in D THEN st[b] ELSE diskStatus[b]
  BY DEF Written
<1>2. b \notin D => Level \cap diskStatus[b] = Level \cap st[b]
  BY DEF Coherent
<1> QED BY <1>1, <1>2

\* The same after FlushStateToDisk, if it wrote anything.
LEMMA FlushLevels ==
    ASSUME NEW mode, NEW st, NEW drt, NEW unl, NEW best,
           Coherent(st, drt, diskStatus, diskCoins),
           FlushStateToDisk(mode, st, drt, unl, best)
    PROVE  /\ \A b \in Blocks : st[b] \ {"DATA", "UNDO"} = status'[b] \ {"DATA", "UNDO"}
           /\ \/ diskStatus' = diskStatus
              \/ \A b \in Blocks : /\ Level \cap diskStatus'[b] = Level \cap st[b]
                                   /\ diskStatus'[b] \in {diskStatus[b], status'[b]}
<1>1. PICK P \in PruneSets(st) :
         LET st1 == Unmark(st, P, {"DATA", "UNDO"}) IN
         /\ status' = st1
         /\ \/ diskStatus' = diskStatus
            \/ diskStatus' = Written(st1, drt) \/ diskStatus' = Written(st1, drt \cup P)
  BY DEF FlushStateToDisk, disk
<1> DEFINE st1 == Unmark(st, P, {"DATA", "UNDO"})
<1>2. \A b \in Blocks : /\ st[b] \ {"DATA", "UNDO"} = st1[b] \ {"DATA", "UNDO"}
                        /\ Level \cap st1[b] = Level \cap st[b]
  BY DEF Unmark, Level
<1>3. ASSUME NEW D, drt \subseteq D, NEW b \in Blocks
      PROVE  /\ Level \cap Written(st1, D)[b] = Level \cap st[b]
             /\ Written(st1, D)[b] \in {diskStatus[b], st1[b]}
  <2>1. Written(st1, D)[b] = IF b \in D THEN st1[b] ELSE diskStatus[b]
    BY DEF Written
  <2>2. b \notin D => Level \cap diskStatus[b] = Level \cap st[b]
    BY <1>3 DEF Coherent
  <2> HIDE DEF st1
  <2> QED BY <1>2, <2>1, <2>2
<1> HIDE DEF st1
<1> QED BY <1>1, <1>2, <1>3 DEF st1

\* Whatever flush happens, memory and disk stay clean.
LEMMA FlushClean ==
    ASSUME NEW mode, NEW st, NEW drt, NEW unl, NEW best,
           Coherent(st, drt, diskStatus, diskCoins), CleanIndex(st), CleanIndex(diskStatus),
           FlushStateToDisk(mode, st, drt, unl, best)
    PROVE  CleanIndex(status') /\ CleanIndex(diskStatus')
<1>1. /\ \A b \in Blocks : st[b] \ {"DATA", "UNDO"} = status'[b] \ {"DATA", "UNDO"}
      /\ \/ diskStatus' = diskStatus
         \/ \A b \in Blocks : /\ Level \cap diskStatus'[b] = Level \cap st[b]
                              /\ diskStatus'[b] \in {diskStatus[b], status'[b]}
  BY FlushLevels
<1>2. \A b \in Blocks : /\ "SCRIPTS" \in st[b] <=> "SCRIPTS" \in status'[b]
                        /\ HasTx(st, b) <=> HasTx(status', b)
                        /\ st[b] \cap FailedMask = status'[b] \cap FailedMask
  BY <1>1 DEF HasTx, FailedMask
<1>3. CleanIndex(status')
  BY <1>2, AncestorsType DEF CleanIndex
<1>4. ASSUME \A b \in Blocks : /\ Level \cap diskStatus'[b] = Level \cap st[b]
                               /\ diskStatus'[b] \in {diskStatus[b], status'[b]}
      PROVE  CleanIndex(diskStatus')
  <2>1. \A b \in Blocks : /\ "SCRIPTS" \in st[b] <=> "SCRIPTS" \in diskStatus'[b]
                          /\ HasTx(st, b) <=> HasTx(diskStatus', b)
    BY <1>4 DEF HasTx, Level
  <2>2. \A b \in Blocks : "SCRIPTS" \in diskStatus'[b] \/ b = Genesis => diskStatus'[b] \cap FailedMask = {}
    BY <1>3, <1>4 DEF CleanIndex
  <2> QED BY <2>1, <2>2, AncestorsType DEF CleanIndex
<1> QED BY <1>1, <1>3, <1>4

LEMMA HeaderClean ==
    ASSUME NEW b, CleanIndex(status)
    PROVE  CleanIndex(WithHeader(b))
<1>1. \A x \in Blocks : /\ "SCRIPTS" \in WithHeader(b)[x] <=> "SCRIPTS" \in status[x]
                        /\ HasTx(WithHeader(b), x) <=> HasTx(status, x)
                        /\ WithHeader(b)[x] \cap FailedMask = status[x] \cap FailedMask
  BY DEF WithHeader, Mark, HasTx, FailedMask
<1> QED BY <1>1, AncestorsType DEF CleanIndex

\* Blocks that were never verified may be marked failed.
LEMMA MarkClean ==
    ASSUME NEW st, CleanIndex(st), NEW S, NEW F \in SUBSET FailedMask,
           \A b \in S : b # Genesis /\ "SCRIPTS" \notin st[b]
    PROVE  CleanIndex(Mark(st, S, F))
<1>1. \A x \in Blocks : /\ "SCRIPTS" \in Mark(st, S, F)[x] <=> "SCRIPTS" \in st[x]
                        /\ HasTx(Mark(st, S, F), x) <=> HasTx(st, x)
                        /\ x \notin S => Mark(st, S, F)[x] = st[x]
  BY DEF Mark, HasTx, FailedMask
<1> QED BY <1>1, AncestorsType DEF CleanIndex

\* A step that leaves the disk alone or flushes
LEMMA KeepsClean ==
    ASSUME CleanInv, CleanIndex(status'), CleanIndex(diskStatus'),
           \A t \in Threads : pc'[t] # "inval",
           \A t \in Threads : pc'[t] = "step" => FailFree(status', Ancestors[target'[t]])
    PROVE  CleanInv'
BY DEF CleanInv

\* The blocks of the active chain, and so those of a chain without obstacles
LEMMA ActiveFailFree ==
    ASSUME DiskInv, CleanInv
    PROVE  FailFree(status, Ancestors[tip])
BY AncestorsType DEF DiskInv, Rest, Position, Verified, CleanInv, CleanIndex, FailFree

LEMMA StepClean ==
    ASSUME DiskInv, LockInv, LinkInv, CleanInv, [Next]_vars, NEW t \in Threads, pc'[t] = "step"
    PROVE  FailFree(status', Ancestors[target'[t]])
<1>0. target[t] \in Blocks
  BY DEF LockInv
<1>1. CASE BeginStep(t)
  <2>1. PICK c \in candidates : Obstacles(c) = {} /\ target' = [target EXCEPT ![t] = c]
    BY <1>1 DEF BeginStep
  <2>2. target'[t] = c /\ status' = status
    BY <1>1, <2>1 DEF BeginStep, LockInv, memory
  <2> QED BY <2>1, <2>2, ActiveFailFree DEF FailFree, Obstacles, Active, Failed
<1>2. CASE pc[t] = "step" /\ UNCHANGED <<memory, target, oldTip>>
  BY <1>2 DEF CleanInv, memory
<1>3. CASE pc[t] = "step" /\ (DisconnectTip(t) \/ ConnectTip(t))
  <2>1. \A n \in Blocks : SameVerdicts(status, Connected(n))
    BY DEF SameVerdicts, Connected, Mark, HasTx, FailedMask
  <2>2. \/ SameVerdicts(status, status')
        \/ \E n \in Blocks : SameVerdicts(Connected(n), status')
    BY <1>3, FlushVerdicts DEF DisconnectTip, ConnectTip
  <2>3. SameVerdicts(status, status') /\ target' = target
    BY <1>3, <2>1, <2>2 DEF SameVerdicts, DisconnectTip, ConnectTip, local
  <2> QED BY <1>0, <1>3, <2>3, AncestorsType DEF CleanInv, FailFree, SameVerdicts
<1> QED BY <1>1, <1>2, <1>3, StepFrame

\* What a step may do to the index: st and drt are the entries and the dirty set
\* before any flush.
IndexStep(st, drt) ==
    /\ dirty \subseteq drt
    /\ \/ st = status
       \/ \E b \in Blocks : st = WithHeader(b)
       \/ \E b \in InvalidBody :
            b \in drt /\ st = Mark(WithHeader(b), {b}, {"FAILED_VALID"})
       \/ \E b \in Blocks \ (InvalidBody \cup {Genesis}) :
            HeaderAccepted(b) /\ st = Mark(WithHeader(b), {b}, {"TRANSACTIONS", "DATA"})
       \/ \E c \in candidates : \E test \in Obstacles(c) :
            Failed(test) /\ st = Mark(status, {x \in Ancestors[c] : Height[x] > Height[test]}, {"FAILED_CHILD"})
       \/ \E t \in Threads, n \in Blocks \ InvalidScripts : Connecting(t, n) /\ st = Connected(n)
       \/ \E t \in Threads, n \in InvalidScripts :
            Connecting(t, n) /\ n \in drt /\ st = Mark(status, {n}, {"FAILED_VALID"})

IndexOutcome(st, drt) ==
    \/ status' = st /\ dirty' = drt /\ UNCHANGED disk
    \/ \E mode, unl, best : FlushStateToDisk(mode, st, drt, unl, best)

LEMMA IndexEffectOfBlock ==
    ASSUME MaxErrors = 0, DiskInv, NEW t, NEW b \in Blocks \ {Genesis}, NEW r, ProcessNewBlock(t, b, r)
    PROVE  \E st, drt : /\ IndexStep(st, drt) /\ Coherent(st, drt, diskStatus, diskCoins)
                        /\ IndexOutcome(st, drt)
<1>1. CASE status' = WithHeader(b) /\ dirty' = DirtyHeader(b) /\ UNCHANGED disk
  <2>1. Coherent(WithHeader(b), DirtyHeader(b), diskStatus, diskCoins)
    BY HeaderCoherent
  <2>2. IndexStep(WithHeader(b), DirtyHeader(b))
    BY DEF IndexStep, DirtyHeader
  <2> QED BY <1>1, <2>1, <2>2 DEF IndexOutcome
<1>2. CASE /\ b \in InvalidBody /\ status' = Mark(WithHeader(b), {b}, {"FAILED_VALID"})
           /\ dirty' = dirty \cup {b} /\ UNCHANGED disk
  <2> DEFINE st == Mark(WithHeader(b), {b}, {"FAILED_VALID"})
  <2>1. {"FAILED_VALID"} \in SUBSET (Flags \ {"SCRIPTS"})
    BY DEF Flags
  <2>2. Coherent(st, dirty \cup {b}, diskStatus, diskCoins)
    BY <2>1, StoredCoherent
  <2>3. IndexStep(st, dirty \cup {b})
    BY <1>2 DEF IndexStep
  <2> HIDE DEF st
  <2> QED BY <1>2, <2>2, <2>3 DEF IndexOutcome, st
<1>3. CASE b \notin InvalidBody /\ HeaderAccepted(b) /\ StoreBlock(b)
  <2> DEFINE st == Mark(WithHeader(b), {b}, {"TRANSACTIONS", "DATA"})
  <2>1. {"TRANSACTIONS", "DATA"} \in SUBSET (Flags \ {"SCRIPTS"})
    BY DEF Flags
  <2>2. Coherent(st, dirty \cup {b}, diskStatus, diskCoins)
    BY <2>1, StoredCoherent
  <2>3. IndexStep(st, dirty \cup {b})
    BY <1>3 DEF IndexStep
  <2>4. \E unl : FlushStateToDisk("NONE", st, dirty \cup {b}, unl, coins)
    BY <1>3, NoErrors DEF StoreBlock, Stored
  <2> HIDE DEF st
  <2> QED BY <2>2, <2>3, <2>4 DEF IndexOutcome
<1> QED BY <1>1, <1>2, <1>3 DEF ProcessNewBlock

\* The index that a restart finds: as it was last written, or as a step that the
\* crash interrupted had just written it.
CutIndex(ds) ==
    \/ ds = diskStatus
    \/ \E mode, st, drt : /\ ds \in CutFlush(mode, st, drt) /\ IndexStep(st, drt)
                          /\ Coherent(st, drt, diskStatus, diskCoins)

LEMMA RestartIndex ==
    ASSUME DiskInv, \A u \in Threads : pc[u] # "inval", NEW t, Restart(t) \/ Crash(t)
    PROVE  \E ds : CutIndex(ds) /\ LoadBlockIndexDB(t, ds)
<1>1. ASSUME NEW st, NEW drt, Flushing(st, drt)
      PROVE  IndexStep(st, drt) /\ Coherent(st, drt, diskStatus, diskCoins)
  BY <1>1, FlushingCoherent DEF Flushing, IndexStep, Stored, DirtyConnected
<1> QED BY <1>1, CrashCases DEF Restart, CutIndex

\* Without RPC calls and failed writes, every step is of this kind or restarts
\* the node.
LEMMA IndexEffects ==
    ASSUME MaxErrors = 0, MaxCalls = 0, DiskInv, LinkInv, \A t \in Threads : pc[t] # "inval", [Next]_vars
    PROVE  \/ \E st, drt : /\ IndexStep(st, drt) /\ Coherent(st, drt, diskStatus, diskCoins)
                           /\ IndexOutcome(st, drt)
           \/ \E t \in Threads : \E ds : CutIndex(ds) /\ LoadBlockIndexDB(t, ds)
<1>0. /\ Coherent(status, dirty, diskStatus, diskCoins) /\ IndexStep(status, dirty)
      /\ ~(calls < MaxCalls) /\ dirty \subseteq Blocks
  BY DiskFacts DEF Rest, IndexStep
<1>1. CASE \E b \in HeaderFirst : AcceptBlockHeader(b)
  <2>1. PICK b \in Blocks : status' = WithHeader(b) /\ dirty' = DirtyHeader(b) /\ UNCHANGED disk
    BY <1>1, InvalidAssumption DEF AcceptBlockHeader
  <2>2. Coherent(WithHeader(b), DirtyHeader(b), diskStatus, diskCoins)
    BY HeaderCoherent
  <2>3. IndexStep(WithHeader(b), DirtyHeader(b))
    BY DEF IndexStep, DirtyHeader
  <2> QED BY <2>1, <2>2, <2>3 DEF IndexOutcome
<1>2. CASE \E t \in Threads, b \in Blocks \ {Genesis}, r \in BOOLEAN : ProcessNewBlock(t, b, r)
  BY <1>2, IndexEffectOfBlock
<1>3. CASE UNCHANGED <<status, dirty, disk>>
  BY <1>0, <1>3 DEF IndexOutcome
<1>4. CASE \E mode, unl, best : FlushStateToDisk(mode, status, dirty, unl, best)
  BY <1>0, <1>4 DEF IndexOutcome
<1>5. CASE \E t \in Threads : \/ EnterLoop(t) \/ NothingToDo(t) \/ BeginStep(t) \/ TipAborts(t)
                              \/ UndoFails(t) \/ CheckTip(t)
  BY <1>3, <1>5 DEF EnterLoop, NothingToDo, BeginStep, TipAborts, UndoFails, CheckTip, memory
<1>6. CASE \E t \in Threads : DiscardCandidate(t)
  <2>1. CASE UNCHANGED status
    BY <1>3, <1>6, <2>1 DEF DiscardCandidate
  <2>2. CASE ~UNCHANGED status
    <3>1. PICK c \in candidates : \E test \in Obstacles(c) :
            /\ Failed(test)
            /\ status' = Mark(status, {x \in Ancestors[c] : Height[x] > Height[test]}, {"FAILED_CHILD"})
      BY <1>6, <2>2 DEF DiscardCandidate
    <3>2. PICK test \in Obstacles(c) :
            /\ Failed(test)
            /\ status' = Mark(status, {x \in Ancestors[c] : Height[x] > Height[test]}, {"FAILED_CHILD"})
      BY <3>1
    <3>3. UNCHANGED <<dirty, disk>>
      BY <1>6 DEF DiscardCandidate
    <3> DEFINE above == {x \in Ancestors[c] : Height[x] > Height[test]}
    <3>4. c \in Blocks /\ Processed(status, c)
      BY DEF LinkInv
    <3>5. /\ above \in SUBSET Blocks /\ \A x \in above : "TREE" \in status[x]
          /\ {"FAILED_CHILD"} \in SUBSET (Flags \ {"SCRIPTS"}) /\ {"FAILED_CHILD"} \cap Level = {}
      BY <3>4, AncestorsType, DiskFacts DEF Processed, Flags, Level
    <3>6. IndexStep(Mark(status, above, {"FAILED_CHILD"}), dirty)
      BY <3>2 DEF IndexStep
    <3>7. status' = Mark(status, above, {"FAILED_CHILD"})
      BY <3>2
    <3> HIDE DEF above
    <3>8. Coherent(Mark(status, above, {"FAILED_CHILD"}), dirty, diskStatus, diskCoins)
      BY <1>0, <3>5, MarkCoherent
    <3> QED BY <3>3, <3>6, <3>7, <3>8 DEF IndexOutcome
  <2> QED BY <2>1, <2>2
<1>7. CASE \E t \in Threads : ConnectTip(t)
  <2>1. PICK t \in Threads, n \in Blocks \ InvalidScripts :
           /\ Connecting(t, n)
           /\ FlushStateToDisk("IF_NEEDED", Connected(n), DirtyConnected(n), unlinked, n)
    BY <1>7 DEF ConnectTip
  <2>2. Coherent(Connected(n), DirtyConnected(n), diskStatus, diskCoins)
    BY <2>1, ConnectedCoherent
  <2>3. IndexStep(Connected(n), DirtyConnected(n))
    BY <2>1 DEF IndexStep, DirtyConnected
  <2> QED BY <2>1, <2>2, <2>3 DEF IndexOutcome
<1>8. CASE \E t \in Threads : ConnectTipInvalid(t)
  <2>1. PICK t \in Threads, n \in InvalidScripts :
           /\ Connecting(t, n) /\ status' = Mark(status, {n}, {"FAILED_VALID"})
           /\ dirty' = dirty \cup {n} /\ UNCHANGED disk
    BY <1>8 DEF ConnectTipInvalid, DirtyInvalid
  <2>2. n \in Blocks /\ HasTx(status, n)
    BY <2>1, InvalidAssumption, DiskFacts DEF Connecting, Position, Processed
  <2>3. /\ {n} \in SUBSET Blocks /\ \A x \in {n} : "TREE" \in status[x]
        /\ {"FAILED_VALID"} \in SUBSET (Flags \ {"SCRIPTS"})
        /\ dirty \cup {n} \in SUBSET Blocks /\ {n} \subseteq dirty \cup {n}
    BY <1>0, <2>2, DiskFacts DEF Flags
  <2>4. Coherent(Mark(status, {n}, {"FAILED_VALID"}), dirty \cup {n}, diskStatus, diskCoins)
    BY <1>0, <2>3, MarkCoherent
  <2>5. IndexStep(Mark(status, {n}, {"FAILED_VALID"}), dirty \cup {n})
    BY <2>1 DEF IndexStep
  <2> QED BY <2>1, <2>4, <2>5 DEF IndexOutcome
<1>9. CASE \E t \in Threads : DisconnectTip(t) \/ FlushAndReturn(t) \/ InitPrune(t)
  BY <1>4, <1>9, NoErrors DEF DisconnectTip, FlushAndReturn, InitPrune
<1>10. CASE PeriodicFlush \/ Shutdown
  BY <1>4, <1>10, NoErrors DEF PeriodicFlush, Shutdown
<1>11. CASE RequestShutdown \/ UNCHANGED vars
  BY <1>3, <1>11 DEF RequestShutdown, vars, memory
<1>12. CASE \E t \in Threads : Restart(t) \/ Crash(t)
  BY <1>12, RestartIndex
<1>13. \A t \in Threads : /\ ~TipWriteError(t) /\ ~IndexWriteThrows(t)
                          /\ ~InvalidateWalk(t) /\ ~InvalidateFails(t) /\ ~InvalidateEnd(t)
                          /\ \A b : ~InvalidateBlock(t, b) /\ ~ReconsiderBlock(t, b)
  BY <1>0, NoErrors DEF TipWriteError, IndexWriteThrows, InvalidateWalk, InvalidateFails,
                        InvalidateEnd, InvalidateBlock, ReconsiderBlock
<1> QED
  BY <1>1, <1>2, <1>5, <1>6, <1>7, <1>8, <1>9, <1>10, <1>11, <1>12, <1>13 DEF Next, Activation

LEMMA IndexStepClean ==
    ASSUME DiskInv, LinkInv, CleanInv, NEW st, NEW drt, IndexStep(st, drt)
    PROVE  CleanIndex(st)
<1>0. CleanIndex(status)
  BY DEF CleanInv
<1>1. CASE st = status
  BY <1>0, <1>1
<1>2. CASE \E b \in Blocks : st = WithHeader(b)
  BY <1>0, <1>2, HeaderClean
<1>3. CASE \E b \in InvalidBody : st = Mark(WithHeader(b), {b}, {"FAILED_VALID"})
  <2>1. PICK b \in InvalidBody : st = Mark(WithHeader(b), {b}, {"FAILED_VALID"})
    BY <1>3
  <2>2. CleanIndex(WithHeader(b)) /\ b \in Blocks \ {Genesis}
    BY <1>0, HeaderClean, InvalidAssumption
  <2>3. "SCRIPTS" \notin WithHeader(b)[b]
    BY <2>2 DEF CleanIndex
  <2> QED BY <2>1, <2>2, <2>3, MarkClean DEF FailedMask
<1>4. CASE \E b \in Blocks \ (InvalidBody \cup {Genesis}) :
             st = Mark(WithHeader(b), {b}, {"TRANSACTIONS", "DATA"})
  <2>1. PICK b \in Blocks \ (InvalidBody \cup {Genesis}) :
               st = Mark(WithHeader(b), {b}, {"TRANSACTIONS", "DATA"})
    BY <1>4
  <2>2. CleanIndex(WithHeader(b))
    BY <1>0, HeaderClean
  <2> DEFINE w == WithHeader(b)
  <2>3. \A x \in Blocks : /\ "SCRIPTS" \in st[x] <=> "SCRIPTS" \in w[x]
                          /\ HasTx(st, x) <=> HasTx(w, x) \/ x = b
                          /\ st[x] \cap FailedMask = w[x] \cap FailedMask
    <3> HIDE DEF w
    <3>1. st = Mark(w, {b}, {"TRANSACTIONS", "DATA"})
      BY <2>1 DEF w
    <3> QED BY <3>1 DEF Mark, HasTx, FailedMask
  <2> HIDE DEF w
  <2>4. CleanIndex(w)
    BY <2>2 DEF w
  <2> QED BY <2>3, <2>4, AncestorsType DEF CleanIndex
<1>5. CASE \E c \in candidates : \E test \in Obstacles(c) :
             Failed(test) /\ st = Mark(status, {x \in Ancestors[c] : Height[x] > Height[test]}, {"FAILED_CHILD"})
  <2>1. PICK c \in candidates : \E test \in Obstacles(c) :
             Failed(test) /\ st = Mark(status, {x \in Ancestors[c] : Height[x] > Height[test]}, {"FAILED_CHILD"})
    BY <1>5
  <2>2. PICK test \in Obstacles(c) :
             Failed(test) /\ st = Mark(status, {x \in Ancestors[c] : Height[x] > Height[test]}, {"FAILED_CHILD"})
    BY <2>1
  <2>3. c \in Blocks /\ test \in Ancestors[c]
    BY <2>2 DEF LinkInv, Obstacles
  <2>4. ASSUME NEW x \in Ancestors[c], Height[x] > Height[test]
        PROVE  x # Genesis /\ "SCRIPTS" \notin status[x]
    <3>1. x \in Blocks /\ test \in Blocks
      BY <2>3, AncestorsType
    <3>2. test \in Ancestors[x]
      <4>1. ~(Height[x] < Height[test]) /\ x # test
        BY <2>4, <3>1, HeightAssumption
      <4>2. x \notin Ancestors[test]
        BY <3>1, <4>1, AncestorIsLower
      <4> QED BY <2>3, <4>2, BranchIsChain
    <3>3. status[test] \cap FailedMask # {}
      BY <2>2 DEF Failed
    <3>4. test # Genesis /\ "SCRIPTS" \notin status[test]
      BY <1>0, <3>1, <3>3 DEF CleanIndex
    <3>5. x # Genesis
      BY <3>2, <3>4, AncestorsGenesis
    <3> QED BY <1>0, <3>1, <3>2, <3>4, <3>5 DEF CleanIndex
  <2> QED BY <1>0, <2>2, <2>4, MarkClean DEF FailedMask
<1>6. CASE \E t \in Threads, n \in Blocks \ InvalidScripts : Connecting(t, n) /\ st = Connected(n)
  <2>1. PICK t \in Threads, n \in Blocks \ InvalidScripts : Connecting(t, n) /\ st = Connected(n)
    BY <1>6
  <2>2. /\ n \in Ancestors[target[t]] \ {Genesis} /\ Parent[n] = tip /\ pc[t] = "step"
        /\ Processed(status, target[t]) /\ FailFree(status, Ancestors[target[t]])
        /\ Verified(status, tip)
    BY <2>1 DEF Connecting, CleanInv, DiskInv, Position
  <2>3. HasTx(status, n) /\ status[n] \cap FailedMask = {}
    BY <2>2 DEF Processed, FailFree
  <2>4. Ancestors[n] = Ancestors[tip] \cup {n}
    BY <2>2, AncestorsParent
  <2>5. \A x \in Blocks : /\ "SCRIPTS" \in st[x] <=> "SCRIPTS" \in status[x] \/ x = n
                          /\ HasTx(st, x) <=> HasTx(status, x)
                          /\ st[x] \cap FailedMask = status[x] \cap FailedMask
    BY <2>1 DEF Connected, Mark, HasTx, FailedMask
  <2>6. \A a \in Ancestors[n] \ {Genesis} : "SCRIPTS" \in st[a]
    BY <2>2, <2>4, <2>5, AncestorsType DEF Verified, DiskInv, Rest
  <2>7. \A b \in Blocks : "SCRIPTS" \in st[b] => \A a \in Ancestors[b] \ {Genesis} : "SCRIPTS" \in st[a]
    BY <1>0, <2>5, <2>6, AncestorsType DEF CleanIndex
  <2> QED BY <1>0, <2>3, <2>5, <2>7 DEF CleanIndex
<1>7. CASE \E n \in InvalidScripts : st = Mark(status, {n}, {"FAILED_VALID"})
  <2>1. PICK n \in InvalidScripts : st = Mark(status, {n}, {"FAILED_VALID"})
    BY <1>7
  <2>2. n \in Blocks \ {Genesis} /\ "SCRIPTS" \notin status[n]
    BY InvalidAssumption DEF DiskInv, Coherent
  <2> QED BY <1>0, <2>1, <2>2, MarkClean DEF FailedMask
<1> QED BY <1>1, <1>2, <1>3, <1>4, <1>5, <1>6, <1>7 DEF IndexStep

LEMMA NoInvalidation ==
    ASSUME MaxCalls = 0, LockInv, DiskInv, \A t \in Threads : pc[t] # "inval", [Next]_vars, NEW t \in Threads
    PROVE  pc'[t] # "inval"
<1>1. ~(calls < MaxCalls) /\ pc \in [Threads -> PC]
  BY DEF DiskInv, Rest
<1>2. ASSUME NEW u \in Threads, NEW p \in {"lock", "flush", "idle", "step", "check", "loop", "init"},
             \/ pc' \in {pc, [pc EXCEPT ![u] = p]}
             \/ pc' = [v \in Threads |-> IF v = u THEN "init" ELSE "idle"]
      PROVE  pc'[t] # "inval"
  BY <1>1, <1>2
<1>3. ASSUME NEW u \in Threads, Activation(u) PROVE pc'[t] # "inval"
  <2>1. \E p \in {"lock", "flush", "idle", "step", "check", "loop"} : pc' \in {pc, [pc EXCEPT ![u] = p]}
    BY <1>3 DEF Activation, EnterLoop, DiscardCandidate, NothingToDo, BeginStep, DisconnectTip, ConnectTip,
                ConnectTipInvalid, TipAborts, UndoFails, TipWriteError, IndexWriteThrows,
                CheckTip, FlushAndReturn, local
  <2> QED BY <1>2, <2>1
<1>4. ASSUME NEW u \in Threads, InitPrune(u) \/ Restart(u) \/ Crash(u)
             \/ \E b \in Blocks \ {Genesis}, r \in BOOLEAN : ProcessNewBlock(u, b, r)
      PROVE pc'[t] # "inval"
  <2>1. \/ pc' \in {pc, [pc EXCEPT ![u] = "loop"]}
        \/ pc' = [v \in Threads |-> IF v = u THEN "init" ELSE "idle"]
    BY <1>4, RestartLoads DEF InitPrune, LoadBlockIndexDB, ProcessNewBlock
  <2> QED BY <1>2, <2>1
<1>5. CASE pc' = pc
  BY <1>5
<1> QED
  BY <1>1, <1>3, <1>4, <1>5
  DEF Next, AcceptBlockHeader, PeriodicFlush, RequestShutdown, Shutdown, vars, local,
      InvalidateBlock, ReconsiderBlock, InvalidateWalk, InvalidateFails, InvalidateEnd

LEMMA LoadClean ==
    ASSUME DiskInv, LinkInv, CleanInv, NEW ds, CutIndex(ds)
    PROVE  CleanIndex(ds)
<1>1. CASE ds = diskStatus
  BY <1>1 DEF CleanInv
<1>2. ASSUME NEW mode, NEW st, NEW drt, ds \in CutFlush(mode, st, drt), IndexStep(st, drt),
             Coherent(st, drt, diskStatus, diskCoins)
      PROVE  CleanIndex(ds)
  <2>1. PICK P \in PruneSets(st) : ds = Written(Unmark(st, P, {"DATA", "UNDO"}), drt \cup P)
    BY <1>2 DEF CutFlush
  <2> DEFINE st1 == Unmark(st, P, {"DATA", "UNDO"})
  <2>2. CleanIndex(st) /\ CleanIndex(diskStatus)
    BY <1>2, IndexStepClean DEF CleanInv
  <2>3. \A b \in Blocks : /\ Level \cap st1[b] = Level \cap st[b]
                          /\ st1[b] \cap FailedMask = st[b] \cap FailedMask
    BY DEF Unmark, Level, FailedMask
  <2> HIDE DEF st1
  <2>4. \A b \in Blocks : ds[b] = IF b \in drt \cup P THEN st1[b] ELSE diskStatus[b]
    BY <2>1 DEF Written, st1
  <2>5. \A b \in Blocks \ drt : Level \cap diskStatus[b] = Level \cap st[b]
    BY <1>2 DEF Coherent
  <2>6. \A b \in Blocks : Level \cap ds[b] = Level \cap st[b]
    BY <2>3, <2>4, <2>5
  <2>7. \A b \in Blocks : /\ "SCRIPTS" \in st[b] <=> "SCRIPTS" \in ds[b]
                          /\ HasTx(st, b) <=> HasTx(ds, b)
    BY <2>6 DEF HasTx, Level
  <2>8. \A b \in Blocks : "SCRIPTS" \in ds[b] \/ b = Genesis => ds[b] \cap FailedMask = {}
    <3> SUFFICES ASSUME NEW b \in Blocks, "SCRIPTS" \in ds[b] \/ b = Genesis
                 PROVE  ds[b] \cap FailedMask = {}
      OBVIOUS
    <3>1. CASE ds[b] = diskStatus[b]
      BY <2>2, <3>1 DEF CleanIndex
    <3>2. CASE ds[b] = st1[b]
      BY <2>2, <2>3, <2>7, <3>2 DEF CleanIndex
    <3> QED BY <2>4, <3>1, <3>2
  <2> QED BY <2>2, <2>7, <2>8, AncestorsType DEF CleanIndex
<1> QED BY <1>1, <1>2 DEF CutIndex

LEMMA CleanInvNext ==
    ASSUME MaxErrors = 0, MaxCalls = 0
    PROVE  DiskInv /\ LockInv /\ LinkInv /\ CleanInv /\ [Next]_vars => CleanInv'
<1> SUFFICES ASSUME DiskInv, LockInv, LinkInv, CleanInv, [Next]_vars PROVE CleanInv'
  OBVIOUS
<1>1. CleanIndex(status') /\ CleanIndex(diskStatus')
  <2>1. CASE \E st, drt : /\ IndexStep(st, drt) /\ Coherent(st, drt, diskStatus, diskCoins)
                          /\ IndexOutcome(st, drt)
    <3>1. PICK st, drt : /\ IndexStep(st, drt) /\ Coherent(st, drt, diskStatus, diskCoins)
                         /\ IndexOutcome(st, drt)
      BY <2>1
    <3>2. CleanIndex(st) /\ CleanIndex(diskStatus)
      BY <3>1, IndexStepClean DEF CleanInv
    <3>3. CASE status' = st /\ UNCHANGED disk
      BY <3>2, <3>3 DEF disk
    <3>4. CASE \E mode, unl, best : FlushStateToDisk(mode, st, drt, unl, best)
      BY <3>1, <3>2, <3>4, FlushClean
    <3> QED BY <3>1, <3>3, <3>4 DEF IndexOutcome
  <2>2. CASE \E t \in Threads : \E ds : CutIndex(ds) /\ LoadBlockIndexDB(t, ds)
    BY <2>2, LoadClean DEF LoadBlockIndexDB
  <2> QED BY <2>1, <2>2, IndexEffects DEF CleanInv
<1>2. \A t \in Threads : pc'[t] # "inval"
  BY NoInvalidation DEF CleanInv
<1> QED BY <1>1, <1>2, StepClean, KeepsClean

LEMMA CleanInit == Init => CleanInv
<1> SUFFICES ASSUME Init PROVE CleanInv
  OBVIOUS
<1>1. status = [b \in Blocks |-> IF b = Genesis THEN {"TREE", "TRANSACTIONS", "DATA"} ELSE {}]
      /\ diskStatus = status /\ Genesis \notin InvalidBody
  BY InvalidAssumption DEF Init
<1>2. \A b \in Blocks : /\ "SCRIPTS" \notin status[b] /\ status[b] \cap FailedMask = {}
                        /\ HasTx(status, b) => b = Genesis
  BY <1>1 DEF HasTx, FailedMask
<1> QED BY <1>1, <1>2 DEF CleanInv, CleanIndex, Init

\* The same for nodes that are restarted: in the block index that LoadBlockIndexDB
\* reads back after a shutdown or a crash, no block below the best block of the
\* coins is failed, if nobody called invalidateblock and all writes succeeded.
THEOREM NotFailedAcrossRestarts ==
    ASSUME MaxErrors = 0, MaxCalls = 0
    PROVE  Spec => []ActiveChainNotFailed
<1>1. Init => CleanInv
  BY CleanInit
<1>2. DiskInv /\ LockInv /\ LinkInv /\ CleanInv /\ [Next]_vars => (DiskInv /\ LockInv /\ LinkInv /\ CleanInv)'
  BY DiskInvNext, LockInvNext, LinkInvNext, CleanInvNext
<1>3. DiskInv /\ CleanInv => ActiveChainNotFailed
  BY ActiveFailFree DEF ActiveChainNotFailed, Active, Failed, FailFree
<1> QED BY <1>1, <1>2, <1>3, InitPlain, PTL DEF Spec, PlainInv

\* While AppInit2 holds cs_main after loading, the candidates stay what they are.
LEMMA InitFrame ==
    ASSUME LockInv, [Next]_vars, NEW t \in Threads, pc'[t] = "init"
    PROVE  \/ pc[t] = "init" /\ candidates' = candidates
           \/ Restart(t) \/ Crash(t)
<1>0. pc \in [Threads -> PC] /\ \A u \in Threads : pc[u] \in {"step", "inval", "init"} => owner = u
  BY DEF LockInv
<1>1. ASSUME NEW u \in Threads, NEW p, p # "init", pc' \in {pc, [pc EXCEPT ![u] = p]}
      PROVE  pc[t] = "init" /\ owner = t
  BY <1>0, <1>1
<1>2. ASSUME NEW u \in Threads, Activation(u) PROVE pc[t] = "init" /\ candidates' = candidates
  <2>1. \E p \in {"lock", "flush", "idle", "step", "check", "loop"} : pc' \in {pc, [pc EXCEPT ![u] = p]}
    BY <1>2 DEF Activation, EnterLoop, DiscardCandidate, NothingToDo, BeginStep, DisconnectTip, ConnectTip,
                ConnectTipInvalid, TipAborts, UndoFails, TipWriteError, IndexWriteThrows,
                CheckTip, FlushAndReturn, local
  <2>2. pc[t] = "init" /\ owner = t
    BY <1>1, <2>1
  <2>3. ~DiscardCandidate(u) /\ ~ConnectTip(u) /\ ~ConnectTipInvalid(u)
    BY <1>0, <2>2, ThreadsAssumption
    DEF DiscardCandidate, AtLoop, CanLock, ConnectTip, ConnectTipInvalid, Connecting
  <2> QED BY <1>2, <2>2, <2>3
      DEF Activation, EnterLoop, NothingToDo, BeginStep, DisconnectTip, TipAborts, UndoFails,
          TipWriteError, IndexWriteThrows, CheckTip, FlushAndReturn, memory
<1>3. ASSUME NEW u \in Threads, NEW b, NEW r, ProcessNewBlock(u, b, r) \/ InvalidateBlock(u, b) \/ ReconsiderBlock(u, b)
      PROVE  FALSE
  <2>1. Unlocked /\ \E p \in {"loop", "inval"} : pc' \in {pc, [pc EXCEPT ![u] = p]}
    BY <1>3 DEF ProcessNewBlock, InvalidateBlock, ReconsiderBlock
  <2> QED BY <1>1, <2>1, ThreadsAssumption DEF Unlocked
<1>4. ASSUME NEW u \in Threads,
             InvalidateWalk(u) \/ InvalidateFails(u) \/ InvalidateEnd(u) \/ InitPrune(u)
      PROVE  FALSE
  <2>1. \E p \in {"loop", "idle"} : pc' \in {pc, [pc EXCEPT ![u] = p]}
    BY <1>4 DEF InvalidateWalk, InvalidateFails, InvalidateEnd, InitPrune, local
  <2>2. pc[t] = "init" /\ u # t
    <3>1. pc[t] = "init"
      BY <1>1, <2>1
    <3> QED BY <1>0, <1>4, <3>1 DEF InvalidateWalk, InvalidateFails, InvalidateEnd, InitPrune
  <2> QED BY <1>0, <1>4, <2>2 DEF InvalidateWalk, InvalidateFails, InvalidateEnd, InitPrune
<1>5. ASSUME NEW u \in Threads, Restart(u) \/ Crash(u)
      PROVE  Restart(t) \/ Crash(t)
  <2>1. u = t
    BY <1>5, RestartLoads DEF LoadBlockIndexDB
  <2> QED BY <1>5, <2>1
<1>6. CASE \/ \E b \in HeaderFirst : AcceptBlockHeader(b)
           \/ PeriodicFlush \/ RequestShutdown \/ Shutdown \/ UNCHANGED vars
  BY <1>6 DEF AcceptBlockHeader, PeriodicFlush, RequestShutdown, Shutdown, vars, local, memory
<1> QED BY <1>2, <1>3, <1>4, <1>5, <1>6 DEF Next

\* After loading, the tip is a candidate.
LEMMA LoadedTipIsCandidate ==
    ASSUME DiskInv, LinkInv, CleanInv, NEW t, NEW ds, CutIndex(ds), LoadBlockIndexDB(t, ds)
    PROVE  tip' \in candidates'
<1>1. CleanIndex(ds) /\ diskCoins \in Blocks
  BY LoadClean DEF DiskInv, Coherent
<1>2. Verified(ds, diskCoins)
  <2>1. CASE ds = diskStatus
    BY <2>1 DEF DiskInv, Coherent
  <2>2. ASSUME NEW mode, NEW st, NEW drt, ds \in CutFlush(mode, st, drt),
               Coherent(st, drt, diskStatus, diskCoins)
        PROVE  Verified(ds, diskCoins)
    <3>1. \A b \in Blocks : Level \cap diskStatus[b] \subseteq ds[b]
      BY <2>2, CutCoherent DEF OnDisk
    <3>2. Verified(diskStatus, diskCoins)
      BY DEF DiskInv, Coherent
    <3> QED BY <1>1, <3>1, <3>2, LevelKeeps
  <2> QED BY <2>1, <2>2 DEF CutIndex
<1>3. diskCoins \in LoadLinked(ds)
  BY <1>1, <1>2 DEF Verified, Processed, HasTx, LoadLinked
<1>4. ValidTx(ds, diskCoins)
  BY <1>1, <1>2, AncestorsType DEF Verified, Processed, HasTx, ValidTx, CleanIndex
<1>5. ~Worse([b \in Blocks |-> 0], diskCoins, diskCoins)
  BY <1>1, WorseOrder
<1> QED BY <1>3, <1>4, <1>5 DEF LoadBlockIndexDB, PrunedCandidates

\* PruneBlockIndexCandidates never empties setBlockIndexCandidates (the assertion
\* main.cpp:3067): neither in a reorganisation, where the block the step moves to
\* stays the best candidate whatever other threads did before cs_main was taken,
\* nor at start-up, where the best block of the coins is a candidate.  The latter
\* fails if invalidateblock marked the tip, the index was written, and a crash kept
\* the coins from following: start-ups are covered if the RPC is not used.
THEOREM CandidatesNeverEmptied ==
    ASSUME MaxRestarts = 0 \/ (MaxErrors = 0 /\ MaxCalls = 0)
    PROVE  Spec => []CandidateLeft
<1> DEFINE Left == \A t \in Threads : pc[t] = "init" => candidates # {}
<1>1. StepInv /\ Left => CandidateLeft
  BY DEF StepInv, IsBest, CandidateLeft
<1>2. Init => Left
  BY DEF Init
<1>3. StepInv /\ LockInv /\ LinkInv /\ [Next]_vars => (StepInv /\ LockInv /\ LinkInv)'
  BY StepInvNext, LockInvNext, LinkInvNext
<1>4. CASE MaxRestarts = 0
  <2> DEFINE Stays == restarts \in Nat
  <2>1. Stays /\ LockInv /\ Left /\ [Next]_vars => Left' /\ Stays'
    <3> SUFFICES ASSUME Stays, LockInv, Left, [Next]_vars PROVE Left' /\ Stays'
      OBVIOUS
    <3>0. \A t \in Threads : ~Restart(t) /\ ~Crash(t)
      <4>1. ~(restarts < MaxRestarts)
        BY <1>4
      <4> QED BY <4>1 DEF Restart, Crash
    <3>1. \A t \in Threads : pc'[t] = "init" => pc[t] = "init" /\ candidates' = candidates
      BY <3>0, InitFrame
    <3>2. restarts' = restarts
      <4> QED BY <3>0
          DEF Next, Activation, EnterLoop, DiscardCandidate, NothingToDo, BeginStep, DisconnectTip, ConnectTip,
              ConnectTipInvalid, TipAborts, UndoFails, TipWriteError, IndexWriteThrows, CheckTip,
              FlushAndReturn, bounds, vars, AcceptBlockHeader, ProcessNewBlock, PeriodicFlush,
              RequestShutdown, Shutdown, InvalidateBlock, InvalidateWalk, InvalidateFails,
              InvalidateEnd, ReconsiderBlock, InitPrune
    <3> QED BY <3>1, <3>2
  <2>2. Init => Stays
    BY DEF Init
  <2> HIDE DEF Left, Stays
  <2> QED BY <1>1, <1>2, <1>3, <2>1, <2>2, InitPlain, PTL DEF Spec, PlainInv
<1>5. CASE MaxErrors = 0 /\ MaxCalls = 0
  <2>1. DiskInv /\ LinkInv /\ CleanInv /\ LockInv /\ Left /\ [Next]_vars => Left'
    <3> SUFFICES ASSUME DiskInv, LinkInv, CleanInv, LockInv, Left, [Next]_vars,
                        NEW t \in Threads, pc'[t] = "init"
                 PROVE  candidates' # {}
      OBVIOUS
    <3>1. CASE Restart(t) \/ Crash(t)
      BY <3>1, RestartIndex, LoadedTipIsCandidate DEF CleanInv
    <3> QED BY <3>1, InitFrame
  <2>2. DiskInv /\ LockInv /\ LinkInv /\ CleanInv /\ [Next]_vars => (DiskInv /\ CleanInv)'
    BY <1>5, DiskInvNext, CleanInvNext
  <2>3. Init => CleanInv
    BY CleanInit
  <2> HIDE DEF Left
  <2> QED BY <1>1, <1>2, <1>3, <2>1, <2>2, <2>3, InitPlain, PTL DEF Spec, PlainInv
<1> QED BY <1>4, <1>5
-----------------------------------------------------------------------------
(* The block index and the choice of the tip, in a node that does not prune, *)
(* whose writes succeed, and where nobody calls the two RPCs                 *)

\* Only a block that failed ContextualCheckBlock is marked failed before its
\* ancestors are all received; every mark is due to a block found invalid.
VerdictIndex(st) ==
    \A b \in Blocks : st[b] \cap FailedMask # {} =>
        /\ Processed(st, b) \/ (b \in InvalidBody /\ "FAILED_VALID" \in st[b])
        /\ \E a \in Ancestors[b] : "FAILED_VALID" \in st[a]

\* FAILED_VALID is on disk, or its block is dirty.
VerdictOnDisk(st, drt, ds) ==
    \A b \in Blocks : /\ "FAILED_VALID" \in ds[b] => "FAILED_VALID" \in st[b]
                      /\ "FAILED_VALID" \in st[b] /\ b \notin drt => "FAILED_VALID" \in ds[b]

VerdictInv ==
    VerdictIndex(status) /\ VerdictIndex(diskStatus) /\ VerdictOnDisk(status, dirty, diskStatus)

\* A received block that is not linked waits for its parent, or never will be.
WaitInv ==
    /\ \A b \in Blocks : Processed(status, b) => b \in linked
    /\ \A b \in Blocks : HasTx(status, b) /\ b \notin linked =>
         \/ b \in unlinked
         \/ Parent[b] \in InvalidBody /\ "FAILED_VALID" \in status[Parent[b]]

\* A verified block r below which PruneBlockIndexCandidates has cleared the
\* candidates: nothing from r upwards is missing.  It is not the tip while a
\* reorganisation to a chain that turned out invalid is being undone.
IsBase(r) ==
    /\ Verified(status, r)
    /\ \A b \in linked : ~HasInvalidAncestor(b) /\ ~Worse(seq, b, r) => b \in candidates
BaseInv == \E r \in Blocks : IsBase(r)

\* No thread has anything left to do.
Settled ==
    /\ phase = "up"
    /\ \A t \in Threads : pc[t] \in {"idle", "flush"} \/ (pc[t] = "check" /\ target[t] = tip)

SettledInv ==
    /\ owner \in Threads => pc[owner] \in {"lock", "step", "init", "inval"}
    /\ Settled => IsBest(tip)

\* Marks are only added, and levels only raised, so Processed stays; what is
\* newly marked satisfies VerdictIndex.
LEMMA VerdictGrows ==
    ASSUME NEW st, NEW st2, VerdictIndex(st),
           \A b \in Blocks : /\ HasTx(st, b) => HasTx(st2, b)
                             /\ "FAILED_VALID" \in st[b] => "FAILED_VALID" \in st2[b]
                             /\ st2[b] \cap FailedMask # {} =>
                                  \/ st[b] \cap FailedMask # {}
                                  \/ /\ Processed(st, b) \/ (b \in InvalidBody /\ "FAILED_VALID" \in st2[b])
                                     /\ \E a \in Ancestors[b] : "FAILED_VALID" \in st2[a]
    PROVE  VerdictIndex(st2)
<1>1. \A b \in Blocks : Processed(st, b) => Processed(st2, b)
  BY AncestorsType DEF Processed
<1> QED BY <1>1, AncestorsType DEF VerdictIndex

LEMMA HeaderVerdicts ==
    ASSUME NEW b, VerdictInv
    PROVE  VerdictIndex(WithHeader(b)) /\ VerdictOnDisk(WithHeader(b), dirty, diskStatus)
<1>1. \A x \in Blocks : /\ HasTx(WithHeader(b), x) <=> HasTx(status, x)
                        /\ WithHeader(b)[x] \cap FailedMask = status[x] \cap FailedMask
                        /\ "FAILED_VALID" \in WithHeader(b)[x] <=> "FAILED_VALID" \in status[x]
  BY DEF WithHeader, Mark, HasTx, FailedMask
<1>2. VerdictIndex(WithHeader(b))
  BY <1>1, VerdictGrows DEF VerdictInv
<1> QED BY <1>1, <1>2 DEF VerdictInv, VerdictOnDisk

\* A block found invalid is marked and dirty.
LEMMA MarkVerdicts ==
    ASSUME NEW st, NEW drt, NEW n \in Blocks, VerdictIndex(st), VerdictOnDisk(st, drt, diskStatus),
           Processed(st, n) \/ n \in InvalidBody, NEW D, drt \subseteq D, n \in D
    PROVE  /\ VerdictIndex(Mark(st, {n}, {"FAILED_VALID"}))
           /\ VerdictOnDisk(Mark(st, {n}, {"FAILED_VALID"}), D, diskStatus)
<1> DEFINE st2 == Mark(st, {n}, {"FAILED_VALID"})
<1>1. \A x \in Blocks : st2[x] = IF x = n THEN st[x] \cup {"FAILED_VALID"} ELSE st[x]
  BY DEF Mark
<1>2. n \in Ancestors[n]
  BY AncestorsType
<1> HIDE DEF st2
<1>3. VerdictIndex(st2)
  <2>1. \A x \in Blocks : /\ HasTx(st, x) => HasTx(st2, x)
                          /\ "FAILED_VALID" \in st[x] => "FAILED_VALID" \in st2[x]
                          /\ x # n => st2[x] = st[x]
    BY <1>1 DEF HasTx
  <2>2. "FAILED_VALID" \in st2[n]
    BY <1>1
  <2> QED BY <1>2, <2>1, <2>2, VerdictGrows
<1>4. VerdictOnDisk(st2, D, diskStatus)
  BY <1>1 DEF VerdictOnDisk
<1> QED BY <1>3, <1>4 DEF st2

LEMMA IndexStepVerdicts ==
    ASSUME DiskInv, LinkInv, CleanInv, VerdictInv, NEW st, NEW drt, IndexStep(st, drt)
    PROVE  VerdictIndex(st) /\ VerdictOnDisk(st, drt, diskStatus)
<1>0. VerdictIndex(status) /\ VerdictOnDisk(status, dirty, diskStatus) /\ dirty \subseteq drt
  BY DEF VerdictInv, IndexStep
<1>1. CASE st = status
  BY <1>0, <1>1 DEF VerdictOnDisk
<1>2. CASE \E b \in Blocks : st = WithHeader(b)
  BY <1>0, <1>2, HeaderVerdicts DEF VerdictOnDisk
<1>3. CASE \E b \in InvalidBody : b \in drt /\ st = Mark(WithHeader(b), {b}, {"FAILED_VALID"})
  BY <1>0, <1>3, HeaderVerdicts, MarkVerdicts, InvalidAssumption
<1>4. CASE \E b \in Blocks : st = Mark(WithHeader(b), {b}, {"TRANSACTIONS", "DATA"})
  <2>1. PICK b \in Blocks : st = Mark(WithHeader(b), {b}, {"TRANSACTIONS", "DATA"})
    BY <1>4
  <2> DEFINE w == WithHeader(b)
  <2>2. VerdictIndex(w) /\ VerdictOnDisk(w, dirty, diskStatus) /\ st = Mark(w, {b}, {"TRANSACTIONS", "DATA"})
    BY <2>1, HeaderVerdicts
  <2> HIDE DEF w
  <2>3. \A x \in Blocks : /\ HasTx(w, x) => HasTx(st, x)
                          /\ st[x] \cap FailedMask = w[x] \cap FailedMask
                          /\ "FAILED_VALID" \in st[x] <=> "FAILED_VALID" \in w[x]
    BY <2>2 DEF Mark, HasTx, FailedMask
  <2>4. VerdictIndex(st)
    <3>1. \A x \in Blocks : /\ HasTx(w, x) => HasTx(st, x)
                            /\ "FAILED_VALID" \in w[x] => "FAILED_VALID" \in st[x]
                            /\ st[x] \cap FailedMask # {} => w[x] \cap FailedMask # {}
      BY <2>3
    <3> QED BY <2>2, <3>1, VerdictGrows
  <2> QED BY <1>0, <2>2, <2>3, <2>4 DEF VerdictOnDisk
<1>5. CASE \E c \in candidates : \E test \in Obstacles(c) :
             Failed(test) /\ st = Mark(status, {x \in Ancestors[c] : Height[x] > Height[test]}, {"FAILED_CHILD"})
  <2>1. PICK c \in candidates : \E test \in Obstacles(c) :
             Failed(test) /\ st = Mark(status, {x \in Ancestors[c] : Height[x] > Height[test]}, {"FAILED_CHILD"})
    BY <1>5
  <2>2. PICK test \in Obstacles(c) :
             Failed(test) /\ st = Mark(status, {x \in Ancestors[c] : Height[x] > Height[test]}, {"FAILED_CHILD"})
    BY <2>1
  <2> DEFINE above == {x \in Ancestors[c] : Height[x] > Height[test]}
  <2>3. c \in Blocks /\ test \in Ancestors[c] /\ test \in Blocks /\ Processed(status, c)
    BY <2>2, AncestorsType DEF LinkInv, Obstacles
  <2>4. PICK a \in Ancestors[test] : "FAILED_VALID" \in status[a]
    BY <1>0, <2>2, <2>3 DEF VerdictIndex, Failed
  <2>5. ASSUME NEW x \in above PROVE Processed(status, x) /\ a \in Ancestors[x]
    BY <2>3, <2>4, OnBranchAbove DEF Processed
  <2>6. \A x \in Blocks : st[x] = IF x \in above THEN status[x] \cup {"FAILED_CHILD"} ELSE status[x]
    BY <2>2 DEF Mark
  <2> HIDE DEF above
  <2>7. \A x \in Blocks : /\ HasTx(status, x) => HasTx(st, x)
                          /\ "FAILED_VALID" \in st[x] <=> "FAILED_VALID" \in status[x]
                          /\ x \notin above => st[x] = status[x]
    <3> SUFFICES ASSUME NEW x \in Blocks
        PROVE /\ HasTx(status, x) => HasTx(st, x)
              /\ "FAILED_VALID" \in st[x] <=> "FAILED_VALID" \in status[x]
              /\ x \notin above => st[x] = status[x]
      OBVIOUS
    <3>1. CASE x \in above
      <4>1. st[x] = status[x] \cup {"FAILED_CHILD"}
        BY <2>6, <3>1
      <4> QED BY <3>1, <4>1 DEF HasTx
    <3>2. CASE x \notin above
      <4>1. st[x] = status[x]
        BY <2>6, <3>2
      <4> QED BY <4>1 DEF HasTx
    <3> QED BY <3>1, <3>2
  <2>8. "FAILED_VALID" \in st[a]
    BY <2>3, <2>4, <2>7, AncestorsType
  <2>9. VerdictIndex(st)
    BY <1>0, <2>5, <2>7, <2>8, VerdictGrows
  <2> QED BY <1>0, <2>7, <2>9 DEF VerdictOnDisk
<1>6. CASE \E n : st = Connected(n)
  <2>1. PICK n : st = Connected(n)
    BY <1>6
  <2>2. \A x \in Blocks : /\ HasTx(status, x) => HasTx(st, x)
                          /\ st[x] \cap FailedMask = status[x] \cap FailedMask
                          /\ "FAILED_VALID" \in st[x] <=> "FAILED_VALID" \in status[x]
    BY <2>1 DEF Connected, Mark, HasTx, FailedMask
  <2>3. VerdictIndex(st)
    BY <1>0, <2>2, VerdictGrows
  <2> QED BY <1>0, <2>2, <2>3 DEF VerdictOnDisk
<1>7. CASE \E t \in Threads, n \in InvalidScripts :
             Connecting(t, n) /\ n \in drt /\ st = Mark(status, {n}, {"FAILED_VALID"})
  <2>1. PICK t \in Threads, n \in InvalidScripts :
             Connecting(t, n) /\ n \in drt /\ st = Mark(status, {n}, {"FAILED_VALID"})
    BY <1>7
  <2>2. target[t] \in Blocks /\ n \in Ancestors[target[t]] /\ Processed(status, target[t])
    BY <2>1 DEF Connecting, DiskInv, Rest, Position
  <2>3. n \in Blocks /\ Processed(status, n)
    BY <2>2, AncestorsOfAncestor DEF Processed
  <2> QED BY <1>0, <2>1, <2>3, MarkVerdicts
<1> QED BY <1>1, <1>2, <1>3, <1>4, <1>5, <1>6, <1>7 DEF IndexStep

\* What a write of all dirty entries leaves on disk
LEMMA WrittenVerdicts ==
    ASSUME NEW st, NEW drt, NEW D, drt \subseteq D, Coherent(st, drt, diskStatus, diskCoins),
           VerdictIndex(st), VerdictIndex(diskStatus), VerdictOnDisk(st, drt, diskStatus)
    PROVE  VerdictIndex(Written(st, D)) /\ VerdictOnDisk(st, {}, Written(st, D))
<1> DEFINE ds == Written(st, D)
<1>1. \A b \in Blocks : /\ Level \cap ds[b] = Level \cap st[b]
                        /\ ds[b] \in {diskStatus[b], st[b]}
  BY WrittenLevels
<1>2. \A b \in Blocks : ds[b] = IF b \in D THEN st[b] ELSE diskStatus[b]
  BY DEF Written
<1> HIDE DEF ds
<1>3. \A b \in Blocks : "FAILED_VALID" \in ds[b] <=> "FAILED_VALID" \in st[b]
  BY <1>2 DEF VerdictOnDisk
<1>4. \A b \in Blocks : Processed(ds, b) <=> Processed(st, b)
  <2>1. \A b \in Blocks : HasTx(ds, b) <=> HasTx(st, b)
    BY <1>1 DEF HasTx, Level
  <2> QED BY <2>1, AncestorsType DEF Processed
<1>5. \A b \in Blocks : Processed(diskStatus, b) => Processed(st, b)
  <2>1. \A b \in Blocks : HasTx(diskStatus, b) => HasTx(st, b)
    BY DEF HasTx, Coherent, Level
  <2> QED BY <2>1, AncestorsType DEF Processed
<1>6. ASSUME NEW b \in Blocks, ds[b] \cap FailedMask # {}
      PROVE  /\ Processed(ds, b) \/ (b \in InvalidBody /\ "FAILED_VALID" \in ds[b])
             /\ \E a \in Ancestors[b] : "FAILED_VALID" \in ds[a]
  <2>1. CASE ds[b] = st[b]
    BY <1>3, <1>4, <1>6, <2>1, AncestorsType DEF VerdictIndex
  <2>2. CASE ds[b] = diskStatus[b]
    <3>1. PICK a \in Ancestors[b] : "FAILED_VALID" \in diskStatus[a]
      BY <1>6, <2>2 DEF VerdictIndex
    <3>2. "FAILED_VALID" \in ds[a]
      BY <1>3, <3>1, AncestorsType DEF VerdictOnDisk
    <3>3. Processed(diskStatus, b) \/ (b \in InvalidBody /\ "FAILED_VALID" \in diskStatus[b])
      BY <1>6, <2>2 DEF VerdictIndex
    <3> QED BY <1>4, <1>5, <2>2, <3>2, <3>3
  <2> QED BY <1>1, <2>1, <2>2
<1> QED BY <1>3, <1>6 DEF VerdictIndex, VerdictOnDisk, ds

LEMMA FlushVerdictInv ==
    ASSUME PruneMode = FALSE, NEW mode, NEW st, NEW drt, NEW unl, NEW best,
           Coherent(st, drt, diskStatus, diskCoins),
           VerdictIndex(st), VerdictIndex(diskStatus), VerdictOnDisk(st, drt, diskStatus),
           FlushStateToDisk(mode, st, drt, unl, best)
    PROVE  VerdictInv'
<1>1. PruneSets(st) = {{}} /\ Unmark(st, {}, {"DATA", "UNDO"}) = st
  BY DEF PruneSets, Unmark, Coherent
<1>2. \/ status' = st /\ dirty' = drt /\ diskStatus' = diskStatus
      \/ status' = st /\ dirty' = {} /\ \E D : drt \subseteq D /\ diskStatus' = Written(st, D)
  BY <1>1 DEF FlushStateToDisk, disk
<1> QED BY <1>2, WrittenVerdicts DEF VerdictInv

LEMMA VerdictInvNext ==
    ASSUME MaxErrors = 0, MaxCalls = 0, PruneMode = FALSE, PlainInv, CleanInv, VerdictInv, [Next]_vars
    PROVE  VerdictInv'
<1>0. DiskInv /\ LinkInv /\ \A t \in Threads : pc[t] # "inval"
  BY DEF PlainInv, CleanInv
<1>1. CASE \E st, drt : /\ IndexStep(st, drt) /\ Coherent(st, drt, diskStatus, diskCoins)
                        /\ IndexOutcome(st, drt)
  <2>1. PICK st, drt : /\ IndexStep(st, drt) /\ Coherent(st, drt, diskStatus, diskCoins)
                       /\ IndexOutcome(st, drt)
    BY <1>1
  <2>2. VerdictIndex(st) /\ VerdictOnDisk(st, drt, diskStatus) /\ VerdictIndex(diskStatus)
    BY <1>0, <2>1, IndexStepVerdicts DEF VerdictInv
  <2>3. CASE status' = st /\ dirty' = drt /\ UNCHANGED disk
    BY <2>2, <2>3 DEF VerdictInv, disk
  <2>4. CASE \E mode, unl, best : FlushStateToDisk(mode, st, drt, unl, best)
    BY <2>1, <2>2, <2>4, FlushVerdictInv
  <2> QED BY <2>1, <2>3, <2>4 DEF IndexOutcome
<1>2. CASE \E t \in Threads : \E ds : CutIndex(ds) /\ LoadBlockIndexDB(t, ds)
  <2>1. PICK ds : CutIndex(ds) /\ status' = ds /\ diskStatus' = ds /\ dirty' = {}
    BY <1>2 DEF LoadBlockIndexDB
  <2>2. VerdictIndex(ds)
    <3>1. CASE ds = diskStatus
      BY <3>1 DEF VerdictInv
    <3>2. ASSUME NEW mode, NEW st, NEW drt, ds \in CutFlush(mode, st, drt), IndexStep(st, drt),
                 Coherent(st, drt, diskStatus, diskCoins)
          PROVE  VerdictIndex(ds)
      <4>1. ds = Written(st, drt)
        BY <3>2, CutWhole
      <4>2. VerdictIndex(st) /\ VerdictOnDisk(st, drt, diskStatus)
        BY <1>0, <3>2, IndexStepVerdicts
      <4> QED BY <3>2, <4>1, <4>2, WrittenVerdicts DEF VerdictInv
    <3> QED BY <2>1, <3>1, <3>2 DEF CutIndex
  <2>3. VerdictOnDisk(ds, {}, ds)
    BY DEF VerdictOnDisk
  <2> QED BY <2>1, <2>2, <2>3 DEF VerdictInv
<1> QED BY <1>0, <1>1, <1>2, IndexEffects

\* What a step does to the memory: it stores a block, restarts the node, or adds
\* flags to blocks that keep their transactions, links and sequence ids.
StoresBlock(b) ==
    /\ StoreBlock(b) /\ "DATA" \notin status[b] /\ b \notin InvalidBody
    /\ UNCHANGED tip

AddsFlags ==
    /\ UNCHANGED <<linked, seq>>
    /\ unlinked \subseteq unlinked'
    /\ \A b \in Blocks : status[b] \subseteq status'[b] /\ (HasTx(status', b) => HasTx(status, b))

LEMMA MemoryEffects ==
    ASSUME MaxErrors = 0, MaxCalls = 0, PruneMode = FALSE, PlainInv, CleanInv, [Next]_vars
    PROVE  \/ \E b \in Blocks \ {Genesis} : StoresBlock(b)
           \/ \E t \in Threads : \E ds : CutIndex(ds) /\ LoadBlockIndexDB(t, ds)
           \/ AddsFlags /\ candidates' = candidates
           \/ AddsFlags /\ \E t \in Threads : DiscardCandidate(t) \/ ConnectTip(t) \/ ConnectTipInvalid(t)
<1> USE FlushData
<1>0. /\ ~(calls < MaxCalls) /\ status \in [Blocks -> SUBSET Flags] /\ DiskInv
      /\ \A t \in Threads : pc[t] # "inval"
  BY DEF PlainInv, DiskInv, Rest, Coherent, CleanInv
<1> DEFINE Adds(st) == \A b \in Blocks : status[b] \subseteq st[b] /\ (HasTx(st, b) => HasTx(status, b))
<1>1. \A S, F : "TRANSACTIONS" \notin F => Adds(Mark(status, S, F))
  BY DEF Mark, HasTx
<1>2. \A b : Adds(WithHeader(b))
  BY <1>1 DEF WithHeader
<1>3. \A b : Adds(Mark(WithHeader(b), {b}, {"FAILED_VALID"}))
  BY DEF WithHeader, Mark, HasTx
<1>4. \A n : Adds(Connected(n))
  BY <1>1 DEF Connected
<1>5. Adds(status)
  OBVIOUS
<1>6. ASSUME UNCHANGED <<linked, seq>>, NEW st, Adds(st),
             \/ status' = st /\ unlinked \subseteq unlinked'
             \/ \E mode, drt, best : FlushStateToDisk(mode, st, drt, unlinked, best)
      PROVE  AddsFlags
  <2> HIDE DEF Adds
  <2>1. unlinked \subseteq unlinked' /\ \A b \in Blocks : status'[b] = st[b]
    BY <1>6
  <2> QED BY <1>6, <2>1 DEF AddsFlags, HasTx, Adds
<1>7. CASE \E b \in HeaderFirst : AcceptBlockHeader(b)
  <2>1. PICK b \in HeaderFirst : AcceptBlockHeader(b)
    BY <1>7
  <2> HIDE DEF Adds
  <2> QED BY <1>2, <1>6, <2>1 DEF AcceptBlockHeader
<1>8. CASE \E t \in Threads, b \in Blocks \ {Genesis}, r \in BOOLEAN : ProcessNewBlock(t, b, r)
  <2>1. PICK t \in Threads, b \in Blocks \ {Genesis}, r \in BOOLEAN : ProcessNewBlock(t, b, r)
    BY <1>8
  <2> HIDE DEF Adds
  <2>2. CASE StoreBlock(b) /\ ~NotWanted(b, r) /\ b \notin InvalidBody
    BY <2>1, <2>2 DEF ProcessNewBlock, NotWanted, StoresBlock
  <2>3. CASE /\ status' \in {WithHeader(b), Mark(WithHeader(b), {b}, {"FAILED_VALID"})}
             /\ UNCHANGED <<linked, seq, candidates, unlinked>>
    BY <1>2, <1>3, <1>6, <2>3
  <2> QED BY <2>1, <2>2, <2>3 DEF ProcessNewBlock
<1>9. CASE UNCHANGED <<status, linked, seq, candidates, unlinked>>
  BY <1>5, <1>6, <1>9
<1>10. CASE \E t \in Threads : \/ EnterLoop(t) \/ NothingToDo(t) \/ BeginStep(t)
                             \/ TipAborts(t) \/ UndoFails(t) \/ CheckTip(t)
  BY <1>9, <1>10 DEF EnterLoop, NothingToDo, BeginStep, TipAborts, UndoFails, CheckTip, memory
<1>11. CASE \E t \in Threads : DiscardCandidate(t)
  <2>1. \E st : Adds(st) /\ status' = st
    <3>1. PICK S : status' \in {status, Mark(status, S, {"FAILED_CHILD"})}
      BY <1>11 DEF DiscardCandidate
    <3> HIDE DEF Adds
    <3> QED BY <1>1, <1>5, <3>1
  <2>2. UNCHANGED <<linked, seq>> /\ unlinked \subseteq unlinked'
    BY <1>11 DEF DiscardCandidate, Shelve
  <2> HIDE DEF Adds
  <2> QED BY <1>6, <1>11, <2>1, <2>2
<1>12. CASE \E t \in Threads : ConnectTip(t)
  <2> HIDE DEF Adds
  <2>1. /\ UNCHANGED <<linked, seq>>
        /\ \E n, drt : FlushStateToDisk("IF_NEEDED", Connected(n), drt, unlinked, n)
    BY <1>12 DEF ConnectTip
  <2> QED BY <1>4, <1>6, <1>12, <2>1
<1>13. CASE \E t \in Threads : ConnectTipInvalid(t)
  <2> HIDE DEF Adds
  <2>1. /\ UNCHANGED <<linked, seq, unlinked>>
        /\ \E n : status' = Mark(status, {n}, {"FAILED_VALID"})
    BY <1>13 DEF ConnectTipInvalid
  <2> QED BY <1>1, <1>6, <1>13, <2>1
<1>14. CASE /\ UNCHANGED <<linked, seq, candidates>>
            /\ \E mode, best : FlushStateToDisk(mode, status, dirty, unlinked, best)
  BY <1>5, <1>6, <1>14
<1>15. CASE \E t \in Threads : DisconnectTip(t) \/ FlushAndReturn(t) \/ InitPrune(t)
  BY <1>0, <1>14, <1>15, NoErrors DEF DisconnectTip, FlushAndReturn, InitPrune
<1>16. CASE PeriodicFlush \/ Shutdown
  BY <1>0, <1>14, <1>16, NoErrors DEF PeriodicFlush, Shutdown
<1>17. CASE RequestShutdown \/ UNCHANGED vars
  BY <1>9, <1>17 DEF RequestShutdown, vars, memory
<1>18. CASE \E t \in Threads : Restart(t) \/ Crash(t)
  BY <1>0, <1>18, RestartIndex
<1>19. \A t \in Threads : /\ ~TipWriteError(t) /\ ~IndexWriteThrows(t)
                          /\ ~InvalidateWalk(t) /\ ~InvalidateFails(t) /\ ~InvalidateEnd(t)
                          /\ \A b : ~InvalidateBlock(t, b) /\ ~ReconsiderBlock(t, b)
  BY <1>0, NoErrors DEF TipWriteError, IndexWriteThrows, InvalidateWalk, InvalidateFails, InvalidateEnd,
                        InvalidateBlock, ReconsiderBlock
<1> QED
  BY <1>7, <1>8, <1>10, <1>11, <1>12, <1>13, <1>15, <1>16, <1>17, <1>18, <1>19 DEF Next, Activation

\* Storing a block: the transactions known afterwards
LEMMA StoredTx ==
    ASSUME PruneMode = FALSE, NEW b \in Blocks \ {Genesis}, StoreBlock(b)
    PROVE  /\ \A x \in Blocks : status[x] \subseteq status'[x] /\ (HasTx(status', x) <=> HasTx(status, x) \/ x = b)
           /\ Parent[b] \in linked => linked' = linked \cup NowLinked(b) /\ unlinked' = unlinked \ (NowLinked(b) \ {b})
           /\ Parent[b] \notin linked => linked' = linked \ {b} /\ unlinked' = AwaitParent(b)
<1> DEFINE st == Stored(b)
<1>1. \A x \in Blocks : status[x] \subseteq st[x] /\ (HasTx(st, x) <=> HasTx(status, x) \/ x = b)
  BY DEF Stored, Mark, WithHeader, HasTx
<1>2. /\ Parent[b] \in linked => /\ linked' = linked \cup NowLinked(b)
                                 /\ \E drt : FlushIgnored("NONE", st, drt, unlinked \ (NowLinked(b) \ {b}))
      /\ Parent[b] \notin linked => /\ linked' = linked \ {b}
                                    /\ \E drt : FlushIgnored("NONE", st, drt, AwaitParent(b))
  BY DEF StoreBlock
<1> HIDE DEF st
<1>3. \A x \in Blocks : status'[x] = st[x]
  BY <1>2, FlushData
<1>4. \A x \in Blocks : HasTx(status', x) <=> HasTx(st, x)
  BY <1>3 DEF HasTx
<1> QED BY <1>1, <1>2, <1>3, <1>4, FlushData

LEMMA StoreWait ==
    ASSUME PruneMode = FALSE, PlainInv, CleanInv, CleanIndex(status'), VerdictInv, WaitInv,
           NEW b \in Blocks \ {Genesis}, StoresBlock(b)
    PROVE  WaitInv'
<1>0. /\ \A x \in Blocks : status[x] \subseteq status'[x] /\ (HasTx(status', x) <=> HasTx(status, x) \/ x = b)
      /\ ~HasTx(status, b) /\ b \notin linked
      /\ \A x \in linked : x \in Blocks /\ b \notin Ancestors[x]
      /\ Parent[b] \in Blocks /\ Ancestors[b] = Ancestors[Parent[b]] \cup {b}
  <2>1. StoreBlock(b) /\ ~HasTx(status, b)
    BY DEF StoresBlock, PlainInv, DataInv, DataTx
  <2>2. \A x \in linked : x \in Blocks /\ b \notin Ancestors[x]
    BY <2>1, PlainFacts DEF Processed
  <2> QED BY <2>1, <2>2, StoredTx, AncestorsParent, AncestorsType
<1>1. \A x \in Blocks : Processed(status', x) /\ b \notin Ancestors[x] => x \in linked
  BY <1>0, AncestorsType DEF Processed, WaitInv
<1>2. ASSUME NEW x \in Blocks, HasTx(status, x), x \notin linked
      PROVE  \/ x \in unlinked
             \/ Parent[x] \in InvalidBody /\ "FAILED_VALID" \in status'[Parent[x]]
  <2>1. \/ x \in unlinked
        \/ Parent[x] \in InvalidBody /\ "FAILED_VALID" \in status[Parent[x]]
    BY <1>2 DEF WaitInv
  <2> QED BY <1>0, <2>1, InvalidAssumption
<1>3. CASE Parent[b] \in linked
  <2> DEFINE L == NowLinked(b)
  <2>1. linked' = linked \cup L /\ unlinked' = unlinked \ (L \ {b}) /\ b \in L
    BY <1>3, StoredTx, AncestorsType DEF StoresBlock, NowLinked
  <2>2. ASSUME NEW x \in Blocks, Processed(status', x), b \in Ancestors[x] PROVE x \in L
    <3>1. ASSUME NEW y \in Ancestors[x] \ Ancestors[b] PROVE y \in unlinked
      <4>1. y \in Blocks \ {Genesis} /\ y # b
        BY GenesisIsAncestor, AncestorsType
      <4>2. HasTx(status, y)
        BY <1>0, <2>2, <4>1 DEF Processed
      <4>3. b \in Ancestors[y]
        BY <2>2, BranchIsChain
      <4>4. y \notin linked
        BY <1>0, <4>3
      <4>5. Parent[y] \in Ancestors[x] /\ Parent[y] \in Blocks
        BY <4>1, AncestorsType, ParentAssumption DEF ParentClosed
      <4>6. Parent[y] \notin InvalidBody
        BY <2>2, <4>5 DEF Processed, CleanIndex
      <4> QED BY <1>2, <4>1, <4>2, <4>4, <4>6
    <3> QED BY <2>2, <3>1 DEF NowLinked
  <2> HIDE DEF L
  <2>3. \A x \in Blocks : Processed(status', x) => x \in linked'
    BY <1>1, <2>1, <2>2
  <2>4. ASSUME NEW x \in Blocks, HasTx(status', x), x \notin linked'
        PROVE  \/ x \in unlinked'
               \/ Parent[x] \in InvalidBody /\ "FAILED_VALID" \in status'[Parent[x]]
    BY <1>0, <1>2, <2>1, <2>4
  <2> QED BY <2>3, <2>4 DEF WaitInv
<1>4. CASE Parent[b] \notin linked
  <2>0. linked' = linked \ {b} /\ unlinked' = AwaitParent(b)
    BY <1>4, StoredTx DEF StoresBlock
  <2>1. linked' = linked /\ unlinked' = AwaitParent(b)
    BY <1>0, <2>0
  <2>2. ASSUME NEW x \in Blocks, Processed(status', x) PROVE b \notin Ancestors[x]
    <3> SUFFICES ASSUME b \in Ancestors[x] PROVE FALSE
      OBVIOUS
    <3>1. Processed(status', Parent[b])
      BY <1>0, <2>2, AncestorsOfAncestor DEF Processed
    <3>2. b \notin Ancestors[Parent[b]]
      <4>1. Height[b] = Height[Parent[b]] + 1 /\ Height[b] \in Nat /\ Height[Parent[b]] \in Nat
        BY <1>0, HeightAssumption
      <4>2. b # Parent[b] /\ ~(Height[b] < Height[Parent[b]])
        BY <4>1
      <4> QED BY <1>0, <4>2, AncestorIsLower
    <3> QED BY <1>0, <1>1, <1>4, <3>1, <3>2
  <2>3. \A x \in Blocks : Processed(status', x) => x \in linked'
    BY <1>1, <2>1, <2>2
  <2>4. \/ b \in unlinked'
        \/ Parent[b] \in InvalidBody /\ "FAILED_VALID" \in status'[Parent[b]]
    <3>1. CASE ~Failed(Parent[b])
      BY <2>1, <3>1 DEF AwaitParent
    <3>2. CASE Failed(Parent[b])
      <4>1. ~Processed(status, Parent[b])
        BY <1>0, <1>4 DEF WaitInv
      <4>2. Parent[b] \in InvalidBody /\ "FAILED_VALID" \in status[Parent[b]]
        BY <1>0, <3>2, <4>1 DEF VerdictInv, VerdictIndex, Failed
      <4> QED BY <1>0, <4>2
    <3> QED BY <3>1, <3>2
  <2>5. unlinked \subseteq unlinked'
    BY <2>1 DEF AwaitParent
  <2>6. ASSUME NEW x \in Blocks, HasTx(status', x), x \notin linked'
        PROVE  \/ x \in unlinked'
               \/ Parent[x] \in InvalidBody /\ "FAILED_VALID" \in status'[Parent[x]]
    BY <1>0, <1>2, <2>1, <2>4, <2>5, <2>6
  <2> QED BY <2>3, <2>6 DEF WaitInv
<1> QED BY <1>3, <1>4

LEMMA LoadWait ==
    ASSUME NEW t, NEW ds, LoadBlockIndexDB(t, ds)
    PROVE  WaitInv'
<1>1. /\ status' = ds /\ linked' = LoadLinked(ds)
      /\ unlinked' = {b \in Blocks \ {Genesis} : "TRANSACTIONS" \in ds[b] /\ Parent[b] \notin LoadLinked(ds)}
  BY DEF LoadBlockIndexDB
<1>2. \A b \in Blocks : Processed(ds, b) => b \in LoadLinked(ds)
  BY DEF Processed, HasTx, LoadLinked
<1>3. ASSUME NEW b \in Blocks, HasTx(ds, b), b \notin LoadLinked(ds) PROVE b \in unlinked'
  <2>1. b # Genesis
    BY <1>3, AncestorsGenesis DEF LoadLinked, HasTx
  <2>2. Parent[b] \notin LoadLinked(ds)
    BY <1>3, <2>1, AncestorsParent DEF LoadLinked, HasTx
  <2> QED BY <1>1, <1>3, <2>1, <2>2 DEF HasTx
<1> QED BY <1>1, <1>2, <1>3 DEF WaitInv

LEMMA FlagsWait ==
    ASSUME WaitInv, AddsFlags
    PROVE  WaitInv'
<1>1. \A b \in Blocks : Processed(status', b) => Processed(status, b)
  BY AncestorsType DEF AddsFlags, Processed
<1>2. ASSUME NEW b \in Blocks, HasTx(status', b), b \notin linked'
      PROVE  \/ b \in unlinked'
             \/ Parent[b] \in InvalidBody /\ "FAILED_VALID" \in status'[Parent[b]]
  BY <1>2, InvalidAssumption DEF AddsFlags, WaitInv
<1> QED BY <1>1, <1>2 DEF WaitInv, AddsFlags

LEMMA WaitInvNext ==
    ASSUME MaxErrors = 0, MaxCalls = 0, PruneMode = FALSE, PlainInv, CleanInv, CleanInv', VerdictInv,
           WaitInv, [Next]_vars
    PROVE  WaitInv'
<1>1. CleanIndex(status')
  BY DEF CleanInv
<1> QED BY <1>1, MemoryEffects, StoreWait, LoadWait, FlagsWait

\* A base is a candidate that does not sort below the tip.
LEMMA BaseIsCandidate ==
    ASSUME PlainInv, SoundInv, CleanInv, WaitInv, NEW r \in Blocks, IsBase(r)
    PROVE  r \in candidates /\ r \in linked /\ ~Worse(seq, r, tip)
<1>1. Processed(status, r) /\ r \in linked
  BY DEF IsBase, Verified, WaitInv
<1>2. ~HasInvalidAncestor(r)
  <2>1. \A a \in Ancestors[r] : a \in Blocks /\ ("SCRIPTS" \in status[a] \/ a = Genesis)
    BY AncestorsType DEF IsBase, Verified
  <2> QED BY <2>1 DEF CleanInv, CleanIndex, HasInvalidAncestor, FailedMask
<1>3. ~Worse(seq, r, r)
  BY PlainFacts, WorseOrder
<1> QED BY <1>1, <1>2, <1>3 DEF IsBase, SoundInv

\* Flags that are added keep a base, as long as only blocks with an invalid
\* ancestor leave the candidates.
LEMMA FlagsBase ==
    ASSUME AddsFlags, NEW r \in Blocks, IsBase(r), linked \subseteq Blocks,
           \A x \in linked : x \in candidates /\ ~HasInvalidAncestor(x)' /\ ~Worse(seq, x, r) => x \in candidates'
    PROVE  IsBase(r)'
<1>1. \A a \in Blocks : Level \cap status[a] \subseteq status'[a]
  BY DEF AddsFlags
<1>2. Verified(status', r)
  BY <1>1, LevelKeeps DEF IsBase
<1>3. \A x \in linked : HasInvalidAncestor(x) => HasInvalidAncestor(x)'
  BY AncestorsType DEF AddsFlags, HasInvalidAncestor
<1>4. linked' = linked /\ seq' = seq
  BY DEF AddsFlags
<1> QED BY <1>2, <1>3, <1>4 DEF IsBase

LEMMA DiscardBase ==
    ASSUME PlainInv, VerdictInv, AddsFlags, NEW r \in Blocks, IsBase(r), NEW t \in Threads, DiscardCandidate(t)
    PROVE  IsBase(r)'
<1>1. PICK c \in candidates : \E test \in Obstacles(c) :
         candidates' = candidates \ ({x \in Ancestors[c] : Height[x] > Height[test]} \cup {test})
  BY DEF DiscardCandidate
<1>2. PICK test \in Obstacles(c) :
         candidates' = candidates \ ({x \in Ancestors[c] : Height[x] > Height[test]} \cup {test})
  BY <1>1
<1>3. c \in Blocks /\ Processed(status, c) /\ test \in Ancestors[c] /\ test \in Blocks
  BY <1>2, PlainFacts, AncestorsType DEF Obstacles
<1>4. Failed(test)
  BY <1>2, <1>3 DEF Obstacles, Processed, PlainInv, DataInv, DataTx
<1>5. PICK a \in Ancestors[test] : "FAILED_VALID" \in status[a]
  BY <1>3, <1>4 DEF VerdictInv, VerdictIndex, Failed
<1>6. ASSUME NEW x \in candidates, x \notin candidates' PROVE HasInvalidAncestor(x)'
  <2>1. a \in Ancestors[x] /\ x \in Blocks
    BY <1>2, <1>3, <1>5, <1>6, OnBranchAbove
  <2> QED BY <1>5, <2>1, AncestorsType DEF HasInvalidAncestor, AddsFlags
<1> QED BY <1>6, FlagsBase, PlainFacts

LEMMA ConnectBase ==
    ASSUME PlainInv, PlainInv', AddsFlags, NEW r \in Blocks, IsBase(r), NEW t \in Threads, ConnectTip(t)
    PROVE  BaseInv'
<1>1. PICK n \in Blocks : tip' = n /\ candidates' = PrunedCandidates(candidates, seq, n)
  BY DEF ConnectTip
<1>2. seq \in [Blocks -> Nat] /\ linked \subseteq Blocks /\ linked' = linked /\ seq' = seq
  BY PlainFacts DEF AddsFlags
<1>3. CASE Worse(seq, n, r)
  <2>1. ASSUME NEW x \in linked, x \in candidates, ~Worse(seq, x, r) PROVE x \in candidates'
    <3>1. ~Worse(seq, x, n)
      BY <1>2, <1>3, <2>1, WorseOrder
    <3> QED BY <1>1, <2>1, <3>1 DEF PrunedCandidates
  <2>2. IsBase(r)'
    BY <1>2, <2>1, FlagsBase
  <2> QED BY <2>2 DEF BaseInv
<1>4. CASE ~Worse(seq, n, r)
  <2>1. Verified(status', n)
    BY <1>1 DEF PlainInv, DiskInv, Position
  <2>2. \A x \in linked : HasInvalidAncestor(x) => HasInvalidAncestor(x)'
    BY <1>2, AncestorsType DEF AddsFlags, HasInvalidAncestor
  <2>3. ASSUME NEW x \in linked, ~HasInvalidAncestor(x)', ~Worse(seq, x, n) PROVE x \in candidates'
    <3>1. ~Worse(seq, x, r)
      BY <1>2, <1>4, <2>3, WorseOrder
    <3>2. x \in candidates
      BY <2>2, <2>3, <3>1 DEF IsBase
    <3> QED BY <1>1, <2>3, <3>2 DEF PrunedCandidates
  <2>4. IsBase(n)'
    BY <1>2, <2>1, <2>3 DEF IsBase
  <2> QED BY <2>4 DEF BaseInv
<1> QED BY <1>3, <1>4

LEMMA InvalidBase ==
    ASSUME PlainInv, AddsFlags, NEW r \in Blocks, IsBase(r), NEW t \in Threads, ConnectTipInvalid(t)
    PROVE  IsBase(r)'
<1>1. PICK n \in InvalidScripts :
         status' = Mark(status, {n}, {"FAILED_VALID"}) /\ candidates' = candidates \ {n}
  BY DEF ConnectTipInvalid
<1>2. n \in Blocks /\ "FAILED_VALID" \in status'[n]
  BY <1>1, InvalidAssumption DEF Mark
<1>3. HasInvalidAncestor(n)'
  BY <1>2, AncestorsType DEF HasInvalidAncestor
<1> QED BY <1>1, <1>3, FlagsBase, PlainFacts

LEMMA StoreBase ==
    ASSUME PruneMode = FALSE, PlainInv, PlainInv', SoundInv, CleanInv, WaitInv, NEW r \in Blocks, IsBase(r),
           NEW b \in Blocks \ {Genesis}, StoresBlock(b)
    PROVE  IsBase(r)'
<1>1. StoreBlock(b) /\ "DATA" \notin status[b] /\ tip' = tip
  BY DEF StoresBlock
<1>2. \A x \in Blocks : Processed(status, x) => b \notin Ancestors[x] /\ seq'[x] = seq[x]
  BY <1>1, StoreBlockSeq
<1>3. r \in candidates /\ r \in linked /\ ~Worse(seq, r, tip) /\ seq'[r] = seq[r] /\ seq'[tip] = seq[tip]
  BY <1>2, BaseIsCandidate, PlainFacts
<1>4. ~Worse(seq', r, tip)
  BY <1>3 DEF Worse
<1>5. \A a \in Blocks : status[a] \subseteq status'[a]
  BY <1>1, StoredTx
<1>6. Verified(status', r)
  BY <1>5, LevelKeeps DEF IsBase
<1>7. candidates \subseteq candidates'
  BY <1>1 DEF StoreBlock
<1>8. seq' \in [Blocks -> Nat] /\ tip \in Blocks
  <2>1. seq' \in [Blocks -> Nat]
    BY DEF PlainInv, DiskInv, Rest
  <2> QED BY <2>1, PlainFacts
<1>9. ASSUME NEW x \in linked', ~HasInvalidAncestor(x)', ~Worse(seq', x, r) PROVE x \in candidates'
  <2>1. CASE x \in linked
    <3>1. x \in Blocks /\ seq'[x] = seq[x]
      BY <1>2, <2>1, PlainFacts
    <3>2. ~Worse(seq, x, r)
      BY <1>3, <1>9, <3>1 DEF Worse
    <3>3. ~HasInvalidAncestor(x)
      BY <1>5, <1>9, <3>1, AncestorsType DEF HasInvalidAncestor
    <3> QED BY <1>7, <2>1, <3>2, <3>3 DEF IsBase
  <2>2. CASE x \notin linked
    <3>1. Parent[b] \in linked /\ x \in NowLinked(b)
      <4>1. /\ Parent[b] \in linked => linked' = linked \cup NowLinked(b)
            /\ Parent[b] \notin linked => linked' = linked \ {b}
        BY <1>1, StoredTx
      <4> QED BY <1>9, <2>2, <4>1
    <3>2. candidates' = candidates \cup NewCandidates(NowLinked(b), seq')
      BY <1>1, <3>1 DEF StoreBlock
    <3>3. x \in Blocks
      BY <3>1 DEF NowLinked
    <3>4. ~Worse(seq', x, tip)
      BY <1>4, <1>8, <1>9, <3>3, WorseOrder
    <3> QED BY <3>1, <3>2, <3>4 DEF NewCandidates
  <2> QED BY <2>1, <2>2
<1> QED BY <1>6, <1>9 DEF IsBase

LEMMA LoadBase ==
    ASSUME PlainInv', VerdictInv', NEW t, NEW ds, LoadBlockIndexDB(t, ds)
    PROVE  IsBase(tip)'
<1>1. /\ status' = ds /\ linked' = LoadLinked(ds) /\ seq' = [b \in Blocks |-> 0]
      /\ candidates' = PrunedCandidates({b \in LoadLinked(ds) : ValidTx(ds, b)}, seq', tip')
  BY DEF LoadBlockIndexDB
<1>2. Verified(status', tip')
  BY DEF PlainInv, DiskInv, Position
<1>3. ASSUME NEW x \in LoadLinked(ds), ~HasInvalidAncestor(x)' PROVE ValidTx(ds, x)
  <2>1. x \in Blocks /\ "TRANSACTIONS" \in ds[x]
    BY AncestorsType DEF LoadLinked
  <2>2. ds[x] \cap FailedMask = {}
    BY <1>1, <1>3, <2>1 DEF VerdictInv, VerdictIndex, HasInvalidAncestor
  <2> QED BY <2>1, <2>2 DEF ValidTx
<1> QED BY <1>1, <1>2, <1>3 DEF IsBase, PrunedCandidates

LEMMA BaseInvNext ==
    ASSUME MaxErrors = 0, MaxCalls = 0, PruneMode = FALSE, PlainInv, PlainInv', SoundInv, CleanInv,
           VerdictInv, VerdictInv', WaitInv, BaseInv, [Next]_vars
    PROVE  BaseInv'
<1>1. PICK r \in Blocks : IsBase(r)
  BY DEF BaseInv
<1>2. ASSUME IsBase(r)' PROVE BaseInv'
  BY <1>2 DEF BaseInv
<1>3. CASE \E b \in Blocks \ {Genesis} : StoresBlock(b)
  BY <1>1, <1>2, <1>3, StoreBase
<1>4. CASE \E t \in Threads : \E ds : CutIndex(ds) /\ LoadBlockIndexDB(t, ds)
  <2>1. IsBase(tip)'
    BY <1>4, LoadBase
  <2>2. tip' \in Blocks
    BY DEF PlainInv, DiskInv, Rest
  <2> QED BY <2>1, <2>2 DEF BaseInv
<1>5. CASE AddsFlags /\ candidates' = candidates
  BY <1>1, <1>2, <1>5, FlagsBase, PlainFacts
<1>6. CASE AddsFlags /\ \E t \in Threads : DiscardCandidate(t) \/ ConnectTip(t) \/ ConnectTipInvalid(t)
  BY <1>1, <1>2, <1>6, DiscardBase, ConnectBase, InvalidBase
<1> QED BY <1>3, <1>4, <1>5, <1>6, MemoryEffects

\* cs_main is held in the four places where an action leaves it held.
LEMMA HolderNext ==
    ASSUME LockInv, LockInv', SettledInv, [Next]_vars
    PROVE  owner' \in Threads => pc'[owner'] \in {"lock", "step", "init", "inval"}
<1>0. pc \in [Threads -> PC] /\ (owner \in Threads => pc[owner] \in {"lock", "step", "init", "inval"})
  BY DEF LockInv, SettledInv
<1>1. CASE owner' = NoThread
  BY <1>1, ThreadsAssumption
<1>2. ASSUME NEW u \in Threads, pc[u] \notin {"lock", "step", "init", "inval"}, owner' = owner,
             NEW p \in {"lock", "flush", "loop", "idle"}, pc' \in {pc, [pc EXCEPT ![u] = p]}
      PROVE  owner' \in Threads => pc'[owner'] \in {"lock", "step", "init", "inval"}
  BY <1>0, <1>2
<1>3. CASE owner' = owner /\ pc' = pc
  BY <1>0, <1>3
<1>4. CASE \E u \in Threads : EnterLoop(u) \/ CheckTip(u) \/ FlushAndReturn(u)
  <2>1. PICK u \in Threads : EnterLoop(u) \/ CheckTip(u) \/ FlushAndReturn(u)
    BY <1>4
  <2>2. pc[u] \in {"loop", "check", "flush"} /\ owner' = owner
    BY <2>1 DEF EnterLoop, CheckTip, FlushAndReturn
  <2>3. PICK p \in {"lock", "flush", "loop", "idle"} : pc' = [pc EXCEPT ![u] = p]
    BY <2>1 DEF EnterLoop, CheckTip, FlushAndReturn
  <2>4. pc[u] \notin {"lock", "step", "init", "inval"}
    BY <2>2
  <2> QED BY <1>2, <2>2, <2>3, <2>4
<1>5. CASE \E u \in Threads : DiscardCandidate(u)
  BY <1>5 DEF DiscardCandidate, AtLoop
<1>6. CASE \E u \in Threads : BeginStep(u) \/ \E b : InvalidateBlock(u, b)
  <2>1. PICK u \in Threads, p \in {"step", "inval"} : owner' = u /\ pc' = [pc EXCEPT ![u] = p]
    BY <1>6 DEF BeginStep, InvalidateBlock
  <2> QED BY <1>0, <2>1
<1>7. CASE \E u \in Threads : NothingToDo(u) \/ TipAborts(u) \/ UndoFails(u) \/ ConnectTipInvalid(u)
                              \/ TipWriteError(u) \/ IndexWriteThrows(u)
                              \/ InvalidateFails(u) \/ InvalidateEnd(u) \/ InitPrune(u)
  BY <1>1, <1>7 DEF NothingToDo, TipAborts, UndoFails, ConnectTipInvalid, TipWriteError, IndexWriteThrows,
                    InvalidateFails, InvalidateEnd, InitPrune
<1>8. CASE \E u \in Threads : DisconnectTip(u) \/ ConnectTip(u)
  BY <1>1, <1>3, <1>8 DEF DisconnectTip, ConnectTip, local
<1>9. CASE \E u \in Threads : InvalidateWalk(u)
  BY <1>1, <1>3, <1>9 DEF InvalidateWalk, local
<1>10. CASE \E u \in Threads : \E b, r : ProcessNewBlock(u, b, r) \/ ReconsiderBlock(u, b)
  <2>1. PICK u \in Threads : owner' = owner /\ pc[u] = "idle" /\ pc' \in {pc, [pc EXCEPT ![u] = "loop"]}
    BY <1>10 DEF ProcessNewBlock, ReconsiderBlock
  <2> QED BY <1>2, <2>1
<1>11. CASE \E u \in Threads : Restart(u) \/ Crash(u)
  BY <1>11, RestartLoads DEF LoadBlockIndexDB
<1>12. CASE \/ \E b \in HeaderFirst : AcceptBlockHeader(b)
            \/ PeriodicFlush \/ RequestShutdown \/ Shutdown \/ UNCHANGED vars
  BY <1>3, <1>12 DEF AcceptBlockHeader, PeriodicFlush, RequestShutdown, Shutdown, vars, local
<1> QED
  BY <1>4, <1>5, <1>6, <1>7, <1>8, <1>9, <1>10, <1>11, <1>12 DEF Next, Activation

\* The last thread that finds nothing to do has seen the best candidate, and a
\* step that ends at its target leaves the best candidate as the tip.
LEMMA SettledNext ==
    ASSUME LockInv, StepInv, SettledInv, candidates # {}, seq \in [Blocks -> Nat],
           owner \in Threads \cup {NoThread}, [Next]_vars, Settled'
    PROVE  IsBest(tip)'
<1>0. pc \in [Threads -> PC] /\ target \in [Threads -> Blocks] /\ tip \in Blocks
  BY DEF LockInv
<1>1. /\ phase' = "up"
      /\ \A t \in Threads : pc'[t] \in {"idle", "flush"} \/ (pc'[t] = "check" /\ target'[t] = tip')
  BY DEF Settled
<1>2. ASSUME NEW t \in Threads, NEW p, p \notin {"idle", "flush", "check"}, pc' = [pc EXCEPT ![t] = p]
      PROVE  FALSE
  BY <1>0, <1>1, <1>2
<1>3. CASE Settled /\ UNCHANGED <<candidates, seq, tip>>
  BY <1>3 DEF SettledInv, IsBest
<1>4. ASSUME phase = "up", UNCHANGED <<target, tip>>,
             \A t \in Threads : \/ pc'[t] = pc[t]
                                \/ pc[t] = "flush"
                                \/ pc[t] = "check" /\ target[t] = tip
      PROVE  Settled
  BY <1>1, <1>4 DEF Settled
<1>5. CASE \/ \E b \in HeaderFirst : AcceptBlockHeader(b)
           \/ PeriodicFlush \/ UNCHANGED vars
  <2>1. UNCHANGED <<candidates, seq, tip, target, pc, phase>>
    BY <1>1, <1>5 DEF AcceptBlockHeader, PeriodicFlush, FlushIgnored, vars, memory, local
  <2> QED BY <1>1, <1>3, <1>4, <2>1
<1>6. CASE \E t \in Threads, b \in Blocks \ {Genesis}, r \in BOOLEAN : ProcessNewBlock(t, b, r)
  <2>1. PICK t \in Threads : \/ pc' = [pc EXCEPT ![t] = "loop"]
                             \/ UNCHANGED <<candidates, seq, tip, target, pc, phase>>
    BY <1>6 DEF ProcessNewBlock
  <2> QED BY <1>1, <1>2, <1>3, <1>4, <2>1
<1>7. CASE \E t \in Threads : EnterLoop(t)
  <2>1. PICK t \in Threads : phase' = phase /\ pc' = [pc EXCEPT ![t] = IF phase = "up" THEN "lock" ELSE "flush"]
    BY <1>1, <1>7 DEF EnterLoop, Running
  <2> QED BY <1>1, <1>2, <2>1
<1>8. CASE \E t \in Threads : BeginStep(t) \/ InitPrune(t)
  BY <1>2, <1>8 DEF BeginStep, InitPrune
<1>9. CASE \E t \in Threads : DiscardCandidate(t) \/ DisconnectTip(t)
  BY <1>1, <1>9 DEF DiscardCandidate, AtLoop, DisconnectTip, Disconnecting, local
<1>10. CASE \/ RequestShutdown \/ Shutdown
            \/ \E t \in Threads : TipAborts(t) \/ UndoFails(t) \/ TipWriteError(t) \/ IndexWriteThrows(t)
                                   \/ InvalidateFails(t)
  BY <1>1, <1>10 DEF RequestShutdown, Shutdown, TipAborts, UndoFails, TipWriteError, IndexWriteThrows,
                     InvalidateFails, Torn
<1>11. CASE \E t \in Threads : NothingToDo(t)
  BY <1>11 DEF NothingToDo, memory, IsBest
<1>12. CASE \E t \in Threads : ConnectTip(t)
  <2>1. PICK t \in Threads, n \in Blocks :
          /\ pc[t] = "step" /\ tip' = n /\ candidates' = PrunedCandidates(candidates, seq, n)
          /\ UNCHANGED <<seq, target>>
          /\ IF StepEnds(t, n) THEN pc' = [pc EXCEPT ![t] = "check"] ELSE pc' = pc
    BY <1>12 DEF ConnectTip, Connecting
  <2>2. target[t] = n
    BY <1>0, <1>1, <2>1
  <2>3. IsBest(n)
    BY <2>1, <2>2 DEF StepInv
  <2>4. ~Worse(seq, n, n)
    BY <2>1, WorseOrder
  <2> QED BY <2>1, <2>3, <2>4 DEF IsBest, PrunedCandidates
<1>13. CASE \E t \in Threads : ConnectTipInvalid(t)
  <2>1. PICK t \in Threads, n \in InvalidScripts :
          Connecting(t, n) /\ pc' = [pc EXCEPT ![t] = "check"] /\ UNCHANGED <<target, tip>>
    BY <1>13 DEF ConnectTipInvalid
  <2>2. target[t] = tip
    BY <1>0, <1>1, <2>1
  <2>3. n \in Blocks \ {Genesis} /\ n \in Ancestors[tip] /\ Parent[n] = tip
    BY <2>1, <2>2, InvalidAssumption DEF Connecting
  <2>4. Height[n] = Height[tip] + 1 /\ Height[n] \in Nat /\ Height[tip] \in Nat
    BY <1>0, <2>3, HeightAssumption
  <2>5. n # tip /\ ~(Height[n] < Height[tip])
    BY <2>4
  <2> QED BY <1>0, <2>3, <2>5, AncestorIsLower
<1>14. CASE \E t \in Threads : CheckTip(t)
  <2>1. PICK t \in Threads : CheckTip(t)
    BY <1>14
  <2>2. UNCHANGED <<candidates, seq, tip, target, phase, owner>>
    BY <2>1 DEF CheckTip, memory
  <2>3. PICK next \in {"loop", "flush"} :
          /\ Unlocked => next = IF LoopAgain(t) THEN "loop" ELSE "flush"
          /\ pc' = [pc EXCEPT ![t] = next]
    BY <2>1 DEF CheckTip
  <2>4. Unlocked
    <3> SUFFICES ASSUME owner \in Threads PROVE FALSE
      BY <1>0 DEF Unlocked
    <3>1. pc[owner] \in {"lock", "step", "init", "inval"}
      BY DEF SettledInv
    <3>2. pc'[owner] = pc[owner]
      BY <1>0, <2>1, <2>3, <3>1 DEF CheckTip
    <3> QED BY <1>1, <3>1, <3>2
  <2>5. target[t] = tip /\ pc[t] = "check"
    BY <1>2, <2>1, <2>3, <2>4 DEF LoopAgain, CheckTip
  <2>6. \A u \in Threads : u # t => pc'[u] = pc[u]
    BY <1>0, <2>3
  <2> QED BY <1>1, <1>3, <1>4, <2>2, <2>5, <2>6
<1>15. CASE \E t \in Threads : FlushAndReturn(t)
  <2>1. PICK t \in Threads : FlushAndReturn(t)
    BY <1>15
  <2>2. UNCHANGED <<candidates, seq, tip, target, phase>> /\ pc[t] = "flush" /\ pc' = [pc EXCEPT ![t] = "idle"]
    BY <1>1, <2>1 DEF FlushAndReturn, FlushIgnored
  <2>3. \A u \in Threads : u # t => pc'[u] = pc[u]
    BY <1>0, <2>2
  <2> QED BY <1>1, <1>3, <1>4, <2>2, <2>3
<1>16. CASE \E t \in Threads : Restart(t) \/ Crash(t)
  <2>1. PICK t \in Threads : pc' = [u \in Threads |-> IF u = t THEN "init" ELSE "idle"]
    BY <1>16, RestartLoads DEF LoadBlockIndexDB
  <2> QED BY <1>1, <2>1
<1>17. CASE \E t \in Threads : InvalidateWalk(t)
  BY <1>1, <1>17 DEF InvalidateWalk, local
<1>18. CASE \E t \in Threads : InvalidateEnd(t) \/ \E b : InvalidateBlock(t, b) \/ ReconsiderBlock(t, b)
  BY <1>2, <1>18 DEF InvalidateEnd, InvalidateBlock, ReconsiderBlock
<1> QED
  BY <1>5, <1>6, <1>7, <1>8, <1>9, <1>10, <1>11, <1>12, <1>13, <1>14, <1>15, <1>16, <1>17, <1>18
  DEF Next, Activation

\* The whole inductive invariant
ChainInv == /\ PlainInv /\ SoundInv /\ StepInv /\ CleanInv
            /\ VerdictInv /\ WaitInv /\ BaseInv /\ SettledInv

LEMMA ChainInvInit == Init => ChainInv
<1> SUFFICES ASSUME Init PROVE ChainInv
  OBVIOUS
<1>1. /\ status = [b \in Blocks |-> IF b = Genesis THEN {"TREE", "TRANSACTIONS", "DATA"} ELSE {}]
      /\ diskStatus = status /\ linked = {Genesis} /\ candidates = {Genesis} /\ tip = Genesis
      /\ Genesis \in Blocks
  BY BlocksAssumption DEF Init
<1>2. \A b \in Blocks : /\ status[b] \cap FailedMask = {} /\ "FAILED_VALID" \notin status[b]
                        /\ HasTx(status, b) <=> b = Genesis
  BY <1>1 DEF FailedMask, HasTx
<1>3. VerdictInv
  BY <1>1, <1>2 DEF VerdictInv, VerdictIndex, VerdictOnDisk
<1>4. WaitInv
  BY <1>1, <1>2, AncestorsType DEF WaitInv, Processed
<1>5. IsBase(Genesis)
  BY <1>1, InitPlain DEF IsBase, PlainInv, DiskInv, Position
<1>6. SettledInv
  BY <1>1, ThreadsAssumption DEF SettledInv, IsBest, Init
<1> QED BY <1>1, <1>3, <1>4, <1>5, <1>6, InitPlain, CleanInit DEF ChainInv, BaseInv

LEMMA ChainInvNext ==
    ASSUME MaxErrors = 0, MaxCalls = 0, PruneMode = FALSE
    PROVE  ChainInv /\ [Next]_vars => ChainInv'
<1> SUFFICES ASSUME ChainInv, [Next]_vars PROVE ChainInv'
  OBVIOUS
<1>1. /\ PlainInv /\ SoundInv /\ StepInv /\ CleanInv /\ VerdictInv /\ WaitInv /\ BaseInv /\ SettledInv
      /\ DiskInv /\ LockInv /\ LinkInv
  BY DEF ChainInv, PlainInv
<1>2. PlainInv' /\ SoundInv' /\ StepInv' /\ CleanInv'
  BY <1>1, PlainInvNext, SoundInvNext, StepInvNext, CleanInvNext
<1>3. VerdictInv' /\ WaitInv'
  BY <1>1, <1>2, VerdictInvNext, WaitInvNext
<1>4. BaseInv'
  BY <1>1, <1>2, <1>3, BaseInvNext
<1>5. candidates # {}
  BY <1>1, BaseIsCandidate DEF BaseInv
<1>6. LockInv'
  BY <1>2 DEF PlainInv
<1>7. Settled' => IsBest(tip)'
  <2>1. seq \in [Blocks -> Nat] /\ owner \in Threads \cup {NoThread}
    BY <1>1 DEF DiskInv, Rest
  <2> QED BY <1>1, <1>5, <2>1, SettledNext
<1>8. SettledInv'
  BY <1>1, <1>6, <1>7, HolderNext DEF SettledInv
<1> QED BY <1>2, <1>3, <1>4, <1>8 DEF ChainInv

\* When no call is under way, everything that could be better than the tip has
\* been a candidate and lost.
LEMMA NothingBetter ==
    ASSUME ChainInv, Quiescent, NEW b \in linked, ~HasInvalidAncestor(b)
    PROVE  ~Worse(seq, tip, b) /\ (~Worse(seq, b, tip) => b \in candidates)
<1>1. Settled
  BY DEF Quiescent, Settled
<1>2. IsBest(tip)
  BY <1>1 DEF ChainInv, SettledInv
<1>3. PICK r \in Blocks : IsBase(r)
  BY DEF ChainInv, BaseInv
<1>4. r \in candidates
  BY <1>3, BaseIsCandidate DEF ChainInv
<1>5. seq \in [Blocks -> Nat] /\ tip \in Blocks /\ b \in Blocks
  BY PlainFacts DEF ChainInv
<1>6. ~Worse(seq, tip, r)
  BY <1>2, <1>3, <1>4, <1>5, WorseOrder DEF IsBest
<1>7. ~Worse(seq, b, tip) => b \in candidates
  BY <1>3, <1>5, <1>6, WorseOrder DEF IsBase
<1> QED BY <1>2, <1>5, <1>7, WorseOrder DEF IsBest

\* When every caller of ActivateBestChain has returned, no linked chain without an
\* invalid block sorts above the tip: whatever the order in which headers and
\* blocks arrived, however the threads took turns at cs_main, and after any crash.
THEOREM BestChainWins ==
    ASSUME MaxErrors = 0, MaxCalls = 0, PruneMode = FALSE
    PROVE  Spec => []TipIsBest
<1>1. ChainInv => TipIsBest
  BY NothingBetter DEF TipIsBest
<1> QED BY <1>1, ChainInvInit, ChainInvNext, PTL DEF Spec

\* The assertions of CheckBlockIndex about nChainTx, setBlockIndexCandidates and
\* mapBlocksUnlinked hold for every tree of blocks, any number of threads and any
\* number of restarts and crashes.
THEOREM IndexStaysConsistent ==
    ASSUME MaxErrors = 0, MaxCalls = 0, PruneMode = FALSE
    PROVE  Spec => []BlockIndexConsistent
<1>1. ChainInv => BlockIndexConsistent
  <2> SUFFICES ASSUME ChainInv PROVE BlockIndexConsistent
    OBVIOUS
  <2>0. PlainInv /\ SoundInv /\ VerdictInv /\ WaitInv
    BY DEF ChainInv
  <2>1. \A b \in Blocks : AllProcessed(b) <=> Processed(status, b)
    BY DEF AllProcessed, Processed, HasTx
  <2>2. LinkedComplete
    BY <2>0, <2>1 DEF LinkedComplete, WaitInv
  <2>3. CandidatesComplete
    BY <2>0, <2>1, NothingBetter DEF CandidatesComplete, MustBeCandidate, WaitInv
  <2>4. CandidatesSound
    BY <2>0 DEF CandidatesSound, PlainInv, ShapeInv, SoundInv
  <2>5. UnlinkedComplete
    <3> SUFFICES ASSUME NEW b \in Blocks, "DATA" \in status[b], ~AllProcessed(b), ~HasInvalidAncestor(b),
                        b \notin unlinked
        PROVE  FALSE
      BY DEF UnlinkedComplete
    <3>1. HasTx(status, b) /\ b \notin linked
      BY <2>0, <2>1, PlainFacts DEF PlainInv, DataInv, DataTx
    <3>2. Parent[b] \in InvalidBody /\ "FAILED_VALID" \in status[Parent[b]]
      BY <2>0, <3>1 DEF WaitInv
    <3>3. b # Genesis
      <4>1. Verified(status, tip) /\ tip \in Blocks
        BY <2>0 DEF PlainInv, DiskInv, Rest, Position
      <4>2. Processed(status, Genesis)
        BY <4>1, GenesisIsAncestor, AncestorsGenesis DEF Verified, Processed
      <4> QED BY <2>0, <3>1, <4>2, BlocksAssumption DEF WaitInv
    <3>4. Parent[b] \in Ancestors[b]
      BY <3>3, AncestorsType DEF ParentClosed
    <3> QED BY <3>2, <3>4 DEF HasInvalidAncestor
  <2> QED BY <2>2, <2>3, <2>4, <2>5 DEF BlockIndexConsistent
<1> QED BY <1>1, ChainInvInit, ChainInvNext, PTL DEF Spec
=============================================================================
