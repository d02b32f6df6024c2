---------------------------- MODULE BlockDownload ----------------------------
(***************************************************************************)
(* Which blocks are requested from which peer (main.cpp: CNodeState,         *)
(* mapBlocksInFlight, FindNextBlocksToDownload, and what the handlers of     *)
(* inv, headers and block messages and SendMessages do with them).           *)
(*                                                                           *)
(* Every handler runs under cs_main and is one action.  A getdata message    *)
(* goes out in the action that puts the block in flight; a block may come    *)
(* from anybody at any time, or never.  Timers may have expired whenever     *)
(* they run.  Chain activation is reduced to its promise: the tip becomes a  *)
(* valid block of most work whose blocks are all stored.                     *)
(***************************************************************************)
EXTENDS BlockTree, Functions

CONSTANTS
    Peers, NoPeer, NoBlock,
    Preferred,     \* outbound or whitelisted peers
    Bad,           \* blocks that do not pass ConnectBlock
    MaxInTransit,  \* MAX_BLOCKS_IN_TRANSIT_PER_PEER
    Window,        \* BLOCK_DOWNLOAD_WINDOW
    KeepBlocks,    \* MIN_BLOCKS_TO_KEEP
    InvBlocks,     \* bound: blocks announced by inv messages
    MaxConnects    \* bound: connections per peer

ASSUME PeersAssumption == IsFiniteSet(Peers) /\ NoPeer \notin Peers /\ NoBlock \notin Blocks
ASSUME InvBlocksAssumption == InvBlocks \subseteq Blocks \ {Genesis}
ASSUME LimitsAssumption ==
    /\ MaxInTransit \in Nat \ {0} /\ Window \in Nat \ {0} /\ KeepBlocks \in Nat
    /\ MaxConnects \in Nat

VARIABLES
    known, have, failed, tip,     \* mapBlockIndex, BLOCK_HAVE_DATA, BLOCK_FAILED_MASK, chainActive
    mapNodeState,                 \* the CNodeState of each node that exists
    mapBlocksInFlight,            \* the peer of each block in flight
    nPreferredDownload, nPeersWithValidatedDownloads,
    greeted, fDisconnect,         \* CNode: nVersion # 0, and to be disconnected
    connects

chain    == <<known, have, failed, tip>>
download == <<mapNodeState, mapBlocksInFlight, nPeersWithValidatedDownloads>>
nodes    == <<greeted, fDisconnect, connects>>
vars     == <<chain, download, nodes, nPreferredDownload>>

CNodeState ==
    [best : Blocks \cup {NoBlock},        \* pindexBestKnownBlock
     unknown : Blocks \cup {NoBlock},     \* hashLastUnknownBlock
     common : Blocks \cup {NoBlock},      \* pindexLastCommonBlock
     vBlocksInFlight : SUBSET [hash : Blocks, fValidatedHeaders : BOOLEAN],
     nBlocksInFlight : 0..MaxInTransit, nBlocksInFlightValidHeaders : 0..MaxInTransit,
     stalling : BOOLEAN,                  \* nStallingSince # 0
     fPreferredDownload : BOOLEAN]

NewNodeState ==
    [best |-> NoBlock, unknown |-> NoBlock, common |-> NoBlock, vBlocksInFlight |-> {},
     nBlocksInFlight |-> 0, nBlocksInFlightValidHeaders |-> 0,
     stalling |-> FALSE, fPreferredDownload |-> FALSE]

Connected == DOMAIN mapNodeState
InFlight  == DOMAIN mapBlocksInFlight
Active    == Ancestors[tip]
\* nChainTx # 0
Linked    == {b \in have : Ancestors[b] \subseteq have}
\* The n lowest of the blocks S, which are on one chain
Lowest(S, n) == {b \in S : Cardinality({c \in S : Height[c] < Height[b]}) < n}
Without(f, S) == Restrict(f, DOMAIN f \ S)

-----------------------------------------------------------------------------
(* In-flight bookkeeping *)

\* Mutant of StillStalling: nStallingSince is not reset.
StillStallingAlways(st) == st.stalling

\* state->nStallingSince = 0
StillStalling(st) == FALSE

\* Last validated block on the queue was received
FewerPeers(entry, left) == left = 0 /\ entry.fValidatedHeaders

MarkBlockAsReceived(b) ==
    IF b \notin InFlight THEN UNCHANGED download
    ELSE LET p     == mapBlocksInFlight[b]
             st    == mapNodeState[p]
             entry == CHOOSE e \in st.vBlocksInFlight : e.hash = b
             left  == st.nBlocksInFlightValidHeaders - (IF entry.fValidatedHeaders THEN 1 ELSE 0)
         IN  /\ mapNodeState' =
                    [mapNodeState EXCEPT ![p] =
                        [st EXCEPT !.vBlocksInFlight = @ \ {entry},
                                   !.nBlocksInFlight = @ - 1,
                                   !.nBlocksInFlightValidHeaders = left,
                                   !.stalling = StillStalling(st)]]
             /\ nPeersWithValidatedDownloads' =
                    nPeersWithValidatedDownloads - (IF FewerPeers(entry, left) THEN 1 ELSE 0)
             /\ mapBlocksInFlight' = Without(mapBlocksInFlight, {b})

\* MarkBlockAsInFlight for each of S, none of which is in flight; st is p's state
MarkBlocksAsInFlight(p, st, S, validated) ==
    [st EXCEPT !.vBlocksInFlight = @ \cup {[hash |-> b, fValidatedHeaders |-> validated] : b \in S},
               !.nBlocksInFlight = @ + Cardinality(S),
               !.nBlocksInFlightValidHeaders = @ + (IF validated THEN Cardinality(S) ELSE 0)]

InFlightWith(p, S) == [b \in InFlight \cup S |-> IF b \in S THEN p ELSE mapBlocksInFlight[b]]

ValidatedPeersWith(st, S, validated) ==
    nPeersWithValidatedDownloads
        + (IF validated /\ S # {} /\ st.nBlocksInFlightValidHeaders = 0 THEN 1 ELSE 0)

-----------------------------------------------------------------------------
(* What a peer has *)

Better(st, b) == st.best = NoBlock \/ Work[b] >= Work[st.best]

ProcessBlockAvailability(st) ==
    IF st.unknown \notin known THEN st
    ELSE [st EXCEPT !.best = IF Better(st, st.unknown) THEN st.unknown ELSE @, !.unknown = NoBlock]

\* k: mapBlockIndex
UpdateBlockAvailability(st, b, k) ==
    LET s == ProcessBlockAvailability(st)
    IN  IF b \notin k THEN [s EXCEPT !.unknown = b]
        ELSE IF Better(s, b) THEN [s EXCEPT !.best = b]
        ELSE s

LastCommonAncestor(a, b) ==
    CHOOSE c \in Ancestors[a] \cap Ancestors[b] :
        \A d \in Ancestors[a] \cap Ancestors[b] : Height[d] <= Height[c]

\* chainActive[min(best->nHeight, chainActive.Height())]
GuessCommon(best) ==
    IF Height[best] >= Height[tip] THEN tip
    ELSE CHOOSE b \in Active : Height[b] = Height[best]

-----------------------------------------------------------------------------
(* FindNextBlocksToDownload *)

\* Not downloaded and not in flight
Fetchable(b) == b \notin have \cup Active \cup InFlight

\* Mutant of LastCommonAfter: it does not matter whether the ancestors are there.
LastCommonAfterUnlinked(from, path) ==
    CHOOSE b \in {from} \cup (path \cap have) :
        \A c \in {from} \cup (path \cap have) : Height[c] <= Height[b]

\* pindexLastCommonBlock moves over the blocks we have all ancestors of
LastCommonAfter(from, path) ==
    CHOOSE b \in {from} \cup (path \cap Linked) :
        \A c \in {from} \cup (path \cap Linked) : Height[c] <= Height[b]

\* pindexLastCommonBlock at the start of the walk
CommonBefore(st) ==
    LastCommonAncestor(IF st.common = NoBlock THEN GuessCommon(st.best) ELSE st.common, st.best)

\* For a peer p in state st that has something interesting: the state with its new
\* pindexLastCommonBlock, vBlocks (count at most) and nodeStaller
FindNext(p, st, count) ==
    LET common == CommonBefore(st)
        end    == Height[common] + Window
        \* up to one block past the window, and up to the first invalid block
        walk   == {b \in Ancestors[st.best] :
                      /\ Height[b] > Height[common] /\ Height[b] <= end + 1
                      /\ \A c \in Ancestors[b] : Height[c] > Height[common] => c \notin failed}
        missing == {b \in walk : Fetchable(b)}
        vBlocks == Lowest({b \in missing : Height[b] <= end}, count)
        busy    == walk \cap InFlight
        waitingfor == IF busy = {} THEN NoPeer
                      ELSE mapBlocksInFlight[CHOOSE b \in busy : \A c \in busy : Height[b] <= Height[c]]
    IN  [state   |-> [st EXCEPT !.common = LastCommonAfter(common, walk)],
         vBlocks |-> vBlocks,
         staller |-> IF missing # {} /\ vBlocks = {} /\ waitingfor # p THEN waitingfor ELSE NoPeer]

Interesting(st) == st.best # NoBlock /\ Work[st.best] >= Work[tip]

FindNextBlocksToDownload(p, st, count) ==
    IF Interesting(ProcessBlockAvailability(st)) THEN FindNext(p, ProcessBlockAvailability(st), count)
    ELSE [state |-> ProcessBlockAvailability(st), vBlocks |-> {}, staller |-> NoPeer]

-----------------------------------------------------------------------------
(* Connections *)

InitializeNode(p) ==
    /\ p \notin Connected /\ connects[p] < MaxConnects
    /\ connects' = [connects EXCEPT ![p] = @ + 1]
    /\ mapNodeState' = [q \in Connected \cup {p} |-> IF q = p THEN NewNodeState ELSE mapNodeState[q]]
    /\ UNCHANGED <<chain, mapBlocksInFlight, nPeersWithValidatedDownloads, greeted, fDisconnect,
                   nPreferredDownload>>

\* version message: UpdatePreferredDownload
Version(p) ==
    /\ p \in Connected \ (greeted \cup fDisconnect)
    /\ greeted' = greeted \cup {p}
    /\ mapNodeState' = [mapNodeState EXCEPT ![p].fPreferredDownload = p \in Preferred]
    /\ nPreferredDownload' = nPreferredDownload + (IF p \in Preferred THEN 1 ELSE 0)
    /\ UNCHANGED <<chain, mapBlocksInFlight, nPeersWithValidatedDownloads, fDisconnect, connects>>

\* Misbehaviour, an error or the end of the connection
CloseSocketDisconnect(p) ==
    /\ p \in Connected \ fDisconnect
    /\ fDisconnect' = fDisconnect \cup {p}
    /\ UNCHANGED <<chain, download, greeted, connects, nPreferredDownload>>

\* Mutant of InFlightAfter: blocks stay in flight from a peer that is gone.
InFlightAfterAll(p) == mapBlocksInFlight

\* mapBlocksInFlight.erase(entry.hash) for the node's entries
InFlightAfter(p) ==
    Without(mapBlocksInFlight, {e.hash : e \in mapNodeState[p].vBlocksInFlight})

FinalizeNode(p) ==
    /\ p \in Connected \cap fDisconnect
    /\ LET st == mapNodeState[p]
       IN  /\ nPreferredDownload' = nPreferredDownload - (IF st.fPreferredDownload THEN 1 ELSE 0)
           /\ nPeersWithValidatedDownloads' =
                  nPeersWithValidatedDownloads - (IF st.nBlocksInFlightValidHeaders # 0 THEN 1 ELSE 0)
    /\ mapBlocksInFlight' = InFlightAfter(p)
    /\ mapNodeState' = Without(mapNodeState, {p})
    /\ greeted' = greeted \ {p} /\ fDisconnect' = fDisconnect \ {p}
    /\ UNCHANGED <<chain, connects>>

-----------------------------------------------------------------------------
(* Messages *)

Talking(p) == p \in greeted \ fDisconnect

\* inv: an unknown block is requested at once when the tip is recent
Inv(p, b) ==
    /\ Talking(p)
    /\ LET st == UpdateBlockAvailability(mapNodeState[p], b, known)
       IN  \E direct \in BOOLEAN :
              LET S == IF /\ b \notin known /\ b \notin InFlight
                          /\ direct /\ st.nBlocksInFlight < MaxInTransit
                       THEN {b} ELSE {}
              IN  /\ mapNodeState' = [mapNodeState EXCEPT ![p] = MarkBlocksAsInFlight(p, st, S, FALSE)]
                  /\ mapBlocksInFlight' = InFlightWith(p, S)
    /\ UNCHANGED <<chain, nPeersWithValidatedDownloads, nodes, nPreferredDownload>>

\* headers: those between a known block and b.  AcceptBlockHeader stops at the
\* first that is invalid, or follows one that is: what came before stays.
Headers(p, start, b) ==
    /\ Talking(p)
    /\ start \in Ancestors[b] \cap known /\ start # b
    /\ LET sent  == Ancestors[b] \ Ancestors[start]
           bad   == {c \in sent : c \in failed \/ (c \notin known /\ Parent[c] \in failed)}
           added == {c \in sent : Ancestors[c] \cap bad = {}}
           st    == UpdateBlockAvailability(mapNodeState[p], b, known \cup added)
           off   == Ancestors[b] \ Active
           vToFetch   == {c \in off : Fetchable(c)}
           largeReorg == \E x \in off : Cardinality({c \in vToFetch : Height[c] > Height[x]}) > MaxInTransit
       IN  /\ known' = known \cup added
           /\ \/ bad # {} /\ UNCHANGED download
              \/ /\ bad = {}
                 /\ \E direct \in BOOLEAN :
                      LET S == IF direct /\ Work[tip] <= Work[b] /\ ~largeReorg
                                     /\ st.nBlocksInFlight < MaxInTransit
                               THEN Lowest(vToFetch, MaxInTransit - st.nBlocksInFlight) ELSE {}
                      IN  /\ mapNodeState' = [mapNodeState EXCEPT ![p] = MarkBlocksAsInFlight(p, st, S, TRUE)]
                          /\ mapBlocksInFlight' = InFlightWith(p, S)
                          /\ nPeersWithValidatedDownloads' = ValidatedPeersWith(st, S, TRUE)
    /\ UNCHANGED <<have, failed, tip, nodes, nPreferredDownload>>

\* ProcessNewBlock up to the end of AcceptBlock, for a block from any peer or an
\* RPC.  force: a whitelisted peer, or an RPC.
ProcessNewBlock(b, force) ==
    /\ MarkBlockAsReceived(b)
    /\ \/ /\ b \in known => b \in failed
          /\ b \notin known => Parent[b] \notin known \/ Parent[b] \in failed
          /\ UNCHANGED <<known, have, failed>>
       \/ /\ \/ b \in known \ failed
             \/ b \notin known /\ Parent[b] \in known \ failed
          /\ known' = known \cup {b}
          /\ LET requested == b \in InFlight \/ force
                 wanted    == Work[b] > Work[tip] /\ Height[b] <= Height[tip] + KeepBlocks
             IN  \/ (b \in have \/ (~requested /\ ~wanted)) /\ UNCHANGED <<have, failed>>
                 \/ /\ b \notin have /\ (requested \/ wanted)
                    /\ \/ b \in Bad /\ failed' = failed \cup {b} /\ UNCHANGED have
                       \/ have' = have \cup {b} /\ UNCHANGED failed
    /\ UNCHANGED <<tip, nodes, nPreferredDownload>>

\* A copy that does not pass CheckBlock counts as received; its sender is banned
\* in the SendMessages that follows, unless it is whitelisted.
CorruptBlock(p, b) ==
    /\ Talking(p)
    /\ MarkBlockAsReceived(b)
    /\ fDisconnect' \in {fDisconnect, fDisconnect \cup {p}}
    /\ UNCHANGED <<chain, greeted, connects, nPreferredDownload>>

-----------------------------------------------------------------------------
(* SendMessages *)

\* Download from a nice peer, or from any if there are no nice peers
Fetch(st) == st.fPreferredDownload \/ nPreferredDownload = 0

\* Nothing to download from p, but there would be if the window were larger
Stalls(found) == {found.staller} \ {NoPeer}

\* ibd, expired: what the clock says of IsInitialBlockDownload and the timeouts
SendMessages(p, ibd, expired) ==
    /\ Talking(p)
    /\ LET st    == ProcessBlockAvailability(mapNodeState[p])
           found == FindNextBlocksToDownload(p, st, MaxInTransit - st.nBlocksInFlight)
       IN     \/ /\ expired /\ (st.stalling \/ st.vBlocksInFlight # {})
                 /\ fDisconnect' = fDisconnect \cup {p}
                 /\ mapNodeState' = [mapNodeState EXCEPT ![p] = st]
                 /\ UNCHANGED <<mapBlocksInFlight, nPeersWithValidatedDownloads>>
              \/ /\ ~expired
                 /\ ~(Fetch(st) \/ ~ibd) \/ st.nBlocksInFlight >= MaxInTransit
                 /\ mapNodeState' = [mapNodeState EXCEPT ![p] = st]
                 /\ UNCHANGED <<mapBlocksInFlight, nPeersWithValidatedDownloads, fDisconnect>>
              \/ /\ ~expired
                 /\ Fetch(st) \/ ~ibd
                 /\ st.nBlocksInFlight < MaxInTransit
                 /\ LET new == MarkBlocksAsInFlight(p, found.state, found.vBlocks, TRUE)
                    IN  mapNodeState' =
                           [q \in Connected |->
                              IF q = p THEN new
                              ELSE IF new.nBlocksInFlight = 0 /\ q \in Stalls(found)
                              THEN [mapNodeState[q] EXCEPT !.stalling = TRUE]
                              ELSE mapNodeState[q]]
                 /\ mapBlocksInFlight' = InFlightWith(p, found.vBlocks)
                 /\ nPeersWithValidatedDownloads' = ValidatedPeersWith(st, found.vBlocks, TRUE)
                 /\ UNCHANGED fDisconnect
    /\ UNCHANGED <<chain, greeted, connects, nPreferredDownload>>

-----------------------------------------------------------------------------
(* The chain *)

\* One round of ActivateBestChain
ActivateBestChain ==
    LET candidates == {b \in Linked : Work[b] > Work[tip] /\ Ancestors[b] \cap failed = {}}
    IN  \E b \in candidates :
           /\ \A c \in candidates : Work[c] <= Work[b]
           /\ \/ /\ Ancestors[b] \cap Bad = {}
                 /\ tip' = b
                 /\ UNCHANGED failed
              \/ \E x \in Ancestors[b] \cap Bad :
                    /\ Ancestors[x] \cap Bad = {x}
                    /\ failed' = failed \cup {x} \cup {c \in candidates : x \in Ancestors[c]}
                    /\ UNCHANGED tip
    /\ UNCHANGED <<known, have, download, nodes, nPreferredDownload>>

-----------------------------------------------------------------------------
Init ==
    /\ known = {Genesis} /\ have = {Genesis} /\ failed = {} /\ tip = Genesis
    /\ mapNodeState = [p \in {} |-> NewNodeState]
    /\ mapBlocksInFlight = [b \in {} |-> NoPeer]
    /\ nPreferredDownload = 0 /\ nPeersWithValidatedDownloads = 0
    /\ greeted = {} /\ fDisconnect = {} /\ connects = [p \in Peers |-> 0]

Next ==
    \/ \E p \in Peers :
          \/ InitializeNode(p) \/ Version(p) \/ CloseSocketDisconnect(p) \/ FinalizeNode(p)
          \/ \E b \in InvBlocks : Inv(p, b)
          \/ \E b \in Blocks \ {Genesis} :
                CorruptBlock(p, b) \/ \E start \in Blocks : Headers(p, start, b)
          \/ \E ibd, expired \in BOOLEAN : SendMessages(p, ibd, expired)
    \/ \E b \in Blocks \ {Genesis}, force \in BOOLEAN : ProcessNewBlock(b, force)
    \/ ActivateBestChain

Spec == Init /\ [][Next]_vars

-----------------------------------------------------------------------------
(* Properties *)

Requested(p, b) == b \in InFlight /\ mapBlocksInFlight[b] = p

\* Types; no counter is ever negative, and no peer has more than
\* MAX_BLOCKS_IN_TRANSIT_PER_PEER blocks in flight.
TypeOK ==
    /\ known \subseteq Blocks /\ have \subseteq Blocks /\ failed \subseteq Blocks
    /\ tip \in Blocks
    /\ Connected \subseteq Peers /\ mapNodeState \in [Connected -> CNodeState]
    /\ InFlight \subseteq Blocks /\ mapBlocksInFlight \in [InFlight -> Peers]
    /\ {nPreferredDownload, nPeersWithValidatedDownloads} \subseteq Nat
    /\ greeted \subseteq Connected /\ fDisconnect \subseteq Connected
    /\ connects \in [Peers -> Nat]

\* No block that is stored is being downloaded.
InFlightMissing == InFlight \cap have = {}

\* mapBlocksInFlight, the lists of the nodes and all counters tell the same
\* story, whichever order blocks, announcements and disconnections come in: the
\* assertions in FinalizeNode hold, and State() of a block's peer is never NULL.
BookkeepingExact ==
    /\ \A b \in InFlight :
          /\ mapBlocksInFlight[b] \in Connected
          /\ \E e \in mapNodeState[mapBlocksInFlight[b]].vBlocksInFlight : e.hash = b
    /\ \A p \in Connected :
          LET st == mapNodeState[p]
          IN  /\ \A e \in st.vBlocksInFlight : Requested(p, e.hash)
              /\ st.nBlocksInFlight = Cardinality({b \in InFlight : mapBlocksInFlight[b] = p})
              /\ st.nBlocksInFlight = Cardinality(st.vBlocksInFlight)
              /\ st.nBlocksInFlightValidHeaders = Cardinality({e \in st.vBlocksInFlight : e.fValidatedHeaders})
    /\ nPeersWithValidatedDownloads = Cardinality({p \in Connected : mapNodeState[p].nBlocksInFlightValidHeaders > 0})
    /\ nPreferredDownload = Cardinality({p \in Connected : mapNodeState[p].fPreferredDownload})

\* The whole bookkeeping: no block is lost, counted twice, or asked for in vain,
\* when blocks come from others than those who were asked, twice or never.
DownloadExact == TypeOK /\ BookkeepingExact /\ InFlightMissing

\* A peer whose stalling clock runs still owes us a block: nobody is disconnected
\* for a block that has come meanwhile, from whomever.
StallerOwesBlock ==
    \A p \in Connected : mapNodeState[p].stalling => mapNodeState[p].vBlocksInFlight # {}

\* pindexLastCommonBlock is "the last full block we both have": we have it and all
\* below it, and it is below something the peer has announced.  Otherwise
\* FindNextBlocksToDownload, which looks only above it, would skip blocks.
LastCommonIsCommon ==
    \A p \in Connected :
        LET st == mapNodeState[p]
        IN  st.common # NoBlock => st.common \in Linked /\ st.best # NoBlock

\* Download never comes to a standstill: while a peer has announced a chain at
\* least as good as ours, not known to be invalid, of which blocks are missing,
\* one of them is in flight (and its peer's timeout runs), or FindNextBlocksToDownload
\* finds one to ask this peer for, or moves its window up.
NeverIdle ==
    LastCommonIsCommon /\ \A p \in Connected :
        LET st == ProcessBlockAvailability(mapNodeState[p])
        IN  /\ Interesting(st)
            /\ Ancestors[st.best] \cap failed = {}
            /\ ~(Ancestors[st.best] \subseteq have)
            => \/ Ancestors[st.best] \cap InFlight # {}
               \/ LET found == FindNext(p, st, MaxInTransit)
                  IN  found.vBlocks # {} \/ Height[found.state.common] > Height[CommonBefore(st)]
=============================================================================
