------------------------------- MODULE AddrMan -------------------------------
(***************************************************************************)
(* The table of known peer addresses (addrman.cpp, addrman.h): CAddrMan.     *)
(* Every call holds cs from its first line to its last, so a call is one      *)
(* action.                                                                    *)
(*                                                                            *)
(* An nId stands for its address: the table has one entry per address, and    *)
(* the maps mapInfo and mapAddr are one function.  The times and counters     *)
(* that IsTerrible and the "new information" test of Add_ look at are left    *)
(* out, and both tests may come out either way; so are the calls that change  *)
(* nothing else (Attempt_, Connected_) or nothing at all (Select_).           *)
(***************************************************************************)
EXTENDS Integers, Sequences, FiniteSets

CONSTANTS
    Addrs, NoAddr,        \* network addresses; the empty slot, -1
    Sources,              \* where addresses are heard of
    Buckets, Positions,   \* of the new table
    TriedSlots,           \* bucket and position in the tried table
    NewBucket,            \* GetNewBucket of <<address, source>>
    NewPosition,          \* GetBucketPosition of <<address, bucket>>
    TriedSlot,            \* GetTriedBucket and GetBucketPosition of an address
    MaxRefs,              \* ADDRMAN_NEW_BUCKETS_PER_ADDRESS
    MaxPct                \* ADDRMAN_GETADDR_MAX_PCT

ASSUME NoAddrAssumption == NoAddr \notin Addrs
ASSUME FiniteAssumption ==
    IsFiniteSet(Addrs) /\ IsFiniteSet(Buckets) /\ IsFiniteSet(Positions) /\ IsFiniteSet(TriedSlots)
ASSUME HashAssumption ==
    /\ NewBucket \in [Addrs \X Sources -> Buckets]
    /\ NewPosition \in [Addrs \X Buckets -> Positions]
    /\ TriedSlot \in [Addrs -> TriedSlots]
ASSUME BoundAssumption == MaxRefs \in Nat \ {0} /\ MaxPct \in 0..100

VARIABLES
    info,      \* mapInfo: the entries; Unknown if there is none
    vvNew,     \* the new table
    vvTried,   \* the tried table
    vRandom,   \* all entries in random order
    nNew, nTried

addrVars == <<info, vvNew, vvTried, vRandom, nNew, nTried>>

Slots   == Buckets \X Positions
Unknown == [known |-> FALSE]
Info    == [known : {TRUE}, source : Sources, fInTried : BOOLEAN, nRefCount : Nat, nRandomPos : Nat]

\* The whole table as one value, for the calls that work on it in several steps
Table == [info |-> info, new |-> vvNew, tried |-> vvTried, random |-> vRandom,
          nNew |-> nNew, nTried |-> nTried]

Becomes(m) ==
    /\ info' = m.info /\ vvNew' = m.new /\ vvTried' = m.tried /\ vRandom' = m.random
    /\ nNew' = m.nNew /\ nTried' = m.nTried

\* the slot of address a heard of from source s
NewSlot(a, s) == <<NewBucket[<<a, s>>], NewPosition[<<a, NewBucket[<<a, s>>]>>]>>

-----------------------------------------------------------------------------
(* Steps of the calls *)

Create(m, a, s) ==
    [m EXCEPT !.info[a] = [known |-> TRUE, source |-> s, fInTried |-> FALSE, nRefCount |-> 0,
                           nRandomPos |-> Len(m.random) + 1],
              !.random = Append(@, a),
              !.nNew = @ + 1]

SwapRandom(m, p, q) ==
    IF p = q THEN m
    ELSE [m EXCEPT !.info[m.random[p]].nRandomPos = q,
                   !.info[m.random[q]].nRandomPos = p,
                   !.random[p] = m.random[q], !.random[q] = m.random[p]]

Delete(m, a) ==
    LET s == SwapRandom(m, m.info[a].nRandomPos, Len(m.random)) IN
    [s EXCEPT !.random = SubSeq(@, 1, Len(@) - 1), !.info[a] = Unknown, !.nNew = @ - 1]

ClearNew(m, k) ==
    LET a == m.new[k]
        c == [m EXCEPT !.new[k] = NoAddr, !.info[a].nRefCount = @ - 1]
    IN  IF a = NoAddr THEN m
        ELSE IF c.info[a].nRefCount = 0 THEN Delete(c, a) ELSE c

\* Add_: entry a into slot k, unless another entry keeps it
EnterNew(m, a, k, terrible) ==
    IF m.new[k] = a THEN m
    ELSE IF \/ m.new[k] = NoAddr
            \/ terrible
            \/ m.info[m.new[k]].nRefCount > 1 /\ m.info[a].nRefCount = 0
    THEN [ClearNew(m, k) EXCEPT !.info[a].nRefCount = @ + 1, !.new[k] = a]
    ELSE IF m.info[a].nRefCount = 0 THEN Delete(m, a) ELSE m

\* MakeTried: out of all new buckets
OutOfNew(m, a) ==
    LET S == {k \in Slots : k[2] = NewPosition[<<a, k[1]>>] /\ m.new[k] = a} IN
    [m EXCEPT !.new = [k \in Slots |-> IF k \in S THEN NoAddr ELSE @[k]],
              !.info[a].nRefCount = @ - Cardinality(S),
              !.nNew = @ - 1]

\* Mutant of BackToNew: what is in the way is overwritten.
BackToNewOver(m, a) ==
    LET k == NewSlot(a, m.info[a].source) IN
    [m EXCEPT !.info[a].fInTried = FALSE, !.info[a].nRefCount = 1, !.new[k] = a,
              !.tried[TriedSlot[a]] = NoAddr, !.nTried = @ - 1, !.nNew = @ + 1]

\* MakeTried: entry a is evicted from the tried table to the new one
BackToNew(m, a) ==
    LET k == NewSlot(a, m.info[a].source)
        c == ClearNew([m EXCEPT !.info[a].fInTried = FALSE, !.tried[TriedSlot[a]] = NoAddr,
                                !.nTried = @ - 1], k)
    IN  [c EXCEPT !.info[a].nRefCount = 1, !.new[k] = a, !.nNew = @ + 1]

MakeTried(m, a) ==
    LET t == TriedSlot[a]
        o == OutOfNew(m, a)
        e == IF o.tried[t] = NoAddr THEN o ELSE BackToNew(o, o.tried[t])
    IN  [e EXCEPT !.tried[t] = a, !.nTried = @ + 1, !.info[a].fInTried = TRUE]

-----------------------------------------------------------------------------
(* Calls *)

\* A known entry gets one more reference only while it is new and has few.
MayGrow(a) == ~info[a].fInTried /\ info[a].nRefCount # MaxRefs

Add(a, s) ==
    /\ info[a].known => MayGrow(a)
    /\ \E terrible \in BOOLEAN :
          Becomes(EnterNew(IF info[a].known THEN Table ELSE Create(Table, a, s), a, NewSlot(a, s), terrible))

Good(a) ==
    /\ info[a].known /\ ~info[a].fInTried
    /\ \E k \in Slots : k[2] = NewPosition[<<a, k[1]>>] /\ vvNew[k] = a
    /\ Becomes(MakeTried(Table, a))

\* The table after its first m places have been filled, place n by what is in
\* place rnd[n]
Shuffled(t, m, rnd) ==
    LET after[n \in 0..m] == IF n = 0 THEN t ELSE SwapRandom(after[n - 1], n, rnd[n])
    IN  after[m]

\* GetAddr_: the first m places are filled at random, m being as many as it takes
\* to meet enough entries that are not terrible, or all.
GetAddr ==
    LET nodes == (MaxPct * Len(vRandom)) \div 100 IN
    /\ \E m \in IF nodes = 0 THEN {0} ELSE nodes..Len(vRandom) :
       \E rnd \in {r \in [1..m -> 1..Len(vRandom)] : \A n \in 1..m : r[n] >= n} :
          Becomes(Shuffled(Table, m, rnd))

\* Mutant of InBucket: the last position is missed.
InBucketButLast(b) == {vvNew[<<b, p>>] : p \in {q \in Positions : \E r \in Positions : r > q}} \ {NoAddr}

\* Serialize: the entries of a bucket, without their positions
InBucket(b) == {vvNew[<<b, p>>] : p \in Positions} \ {NoAddr}

\* Serialize: what peers.dat holds
PeersDat ==
    [nNew    |-> nNew,
     nTried  |-> nTried,
     new     |-> {<<a, info[a].source>> : a \in {b \in Addrs : info[b].known /\ info[b].nRefCount # 0}},
     tried   |-> {<<a, info[a].source>> : a \in {b \in Addrs : info[b].known /\ info[b].fInTried}},
     buckets |-> [b \in Buckets |-> InBucket(b)]]

\* A slot gets the first of the entries that belong there.
FirstComer(S) == IF S = {} THEN NoAddr ELSE CHOOSE a \in S : TRUE

\* Unserialize, in a process whose table is empty.  Entries that found no slot are
\* left out again.
Load(file) ==
    /\ vvTried' = [t \in TriedSlots |-> FirstComer({a \in {r[1] : r \in file.tried} : TriedSlot[a] = t})]
    /\ vvNew' = [k \in Slots |-> FirstComer({a \in file.buckets[k[1]] : NewPosition[<<a, k[1]>>] = k[2]})]
    /\ LET refs(a) == Cardinality({k \in Slots : vvNew'[k] = a})
           news    == {a \in {r[1] : r \in file.new} : refs(a) > 0}
           trieds  == {vvTried'[t] : t \in TriedSlots} \ {NoAddr}
           src(a)  == CHOOSE s \in Sources : <<a, s>> \in file.new \cup file.tried
       IN  /\ vRandom' \in [1..Cardinality(news \cup trieds) -> news \cup trieds]
           /\ \A a \in news \cup trieds : \E n \in DOMAIN vRandom' : vRandom'[n] = a
           /\ \A n, l \in DOMAIN vRandom' : n < l /\ vRandom'[l] \in news => vRandom'[n] \in news
           /\ info' = [a \in Addrs |->
                         IF a \in news \cup trieds
                         THEN [known |-> TRUE, source |-> src(a), fInTried |-> a \in trieds, nRefCount |-> refs(a),
                               nRandomPos |-> CHOOSE n \in DOMAIN vRandom' : vRandom'[n] = a]
                         ELSE Unknown]
           /\ nNew' = file.nNew - Cardinality({r[1] : r \in file.new} \ news)
           /\ nTried' = file.nTried - Cardinality({r[1] : r \in file.tried} \ trieds)

\* DumpAddresses, and the next process reads the file.  A crash goes back to an
\* older file, that is, to where this action has already led from an older table.
Restart == Load(PeersDat)

-----------------------------------------------------------------------------
AddrInit ==
    /\ info = [a \in Addrs |-> Unknown]
    /\ vvNew = [k \in Slots |-> NoAddr]
    /\ vvTried = [t \in TriedSlots |-> NoAddr]
    /\ vRandom = <<>>
    /\ nNew = 0 /\ nTried = 0

AddrNext ==
    \/ \E a \in Addrs, s \in Sources : Add(a, s)
    \/ \E a \in Addrs : Good(a)
    \/ GetAddr \/ Restart

AddrSpec == AddrInit /\ [][AddrNext]_addrVars

-----------------------------------------------------------------------------
(* Properties *)

Known == {a \in Addrs : info[a].known}

\* Types; a reference count never exceeds ADDRMAN_NEW_BUCKETS_PER_ADDRESS.
AddrTypeOK ==
    /\ info \in [Addrs -> Info \cup {Unknown}]
    /\ \A a \in Known : info[a].nRefCount <= MaxRefs
    /\ vvNew \in [Slots -> Addrs \cup {NoAddr}]
    /\ vvTried \in [TriedSlots -> Addrs \cup {NoAddr}]
    /\ vRandom \in Seq(Addrs)
    /\ nNew \in Nat /\ nTried \in Nat

\* An entry is either tried, and then in its one tried slot and no new slot, or
\* new, and then in as many new slots as it has references, at least one; slots
\* hold no entry that is gone (Check_, the assertions of MakeTried and ClearNew).
\* So Good_ always finds a bucket, and Delete is only called on what is nowhere.
TablesExact ==
    /\ \A a \in Known :
          /\ info[a].fInTried <=> vvTried[TriedSlot[a]] = a
          /\ info[a].nRefCount = Cardinality({k \in Slots : vvNew[k] = a})
          /\ info[a].fInTried <=> info[a].nRefCount = 0
    /\ \A t \in TriedSlots : vvTried[t] # NoAddr => vvTried[t] \in Known /\ TriedSlot[vvTried[t]] = t
    /\ \A k \in Slots : vvNew[k] # NoAddr => vvNew[k] \in Known /\ NewPosition[<<vvNew[k], k[1]>>] = k[2]

\* nNew and nTried count the entries.  Select_ trusts them: it looks for an
\* occupied slot of a table that should have one until it finds it.
CountersExact ==
    /\ nNew = Cardinality({a \in Known : ~info[a].fInTried})
    /\ nTried = Cardinality({a \in Known : info[a].fInTried})

\* vRandom has every entry once, and each knows its place.
RandomExact ==
    /\ Len(vRandom) = Cardinality(Known)
    /\ \A a \in Known : info[a].nRandomPos \in DOMAIN vRandom /\ vRandom[info[a].nRandomPos] = a

\* What Check_ tests in builds with DEBUG_ADDRMAN: after every call the tables, the
\* reference counts, the totals and the random order describe the same addresses.
TableConsistent == AddrTypeOK /\ TablesExact /\ CountersExact /\ RandomExact

\* A table that is written to peers.dat and read again loses no address, no place
\* and no source, although the file has neither positions nor reference counts.
LoadRestores ==
    [][Restart => /\ vvNew' = vvNew /\ vvTried' = vvTried
                  /\ nNew' = nNew /\ nTried' = nTried
                  /\ \A a \in Addrs : info[a].known =>
                        [info'[a] EXCEPT !.nRandomPos = 0] = [info[a] EXCEPT !.nRandomPos = 0]]_addrVars
=============================================================================
