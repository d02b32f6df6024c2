------------------------------ MODULE UtxoSet ------------------------------
(***************************************************************************)
(* What the coins cache promises: one set of unspent outputs that always     *)
(* belongs to a chain, changes by one whole block at a time, and of which    *)
(* some earlier, equally consistent version survives the process.            *)
(***************************************************************************)
EXTENDS BlockContents

VARIABLES
    coins, best,            \* the coins in use, and the chain they belong to
    savedCoins, savedBest   \* those found after a restart

vars == <<coins, best, savedCoins, savedBest>>

Init ==
    /\ best = Genesis /\ savedBest = Genesis
    /\ coins = CoinsOf[Genesis] /\ savedCoins = CoinsOf[Genesis]

Connect(b) ==
    /\ b # Genesis /\ Parent[b] = best
    /\ Acceptable(coins, b)
    /\ best' = b
    /\ coins' = Effect(coins, b)
    /\ UNCHANGED <<savedCoins, savedBest>>

Disconnect ==
    /\ best # Genesis
    /\ best' = Parent[best]
    /\ coins' = CoinsOf[Parent[best]]
    /\ UNCHANGED <<savedCoins, savedBest>>

Save ==
    /\ savedCoins' = coins /\ savedBest' = best
    /\ UNCHANGED <<coins, best>>

Restart ==
    /\ coins' = savedCoins /\ best' = savedBest
    /\ UNCHANGED <<savedCoins, savedBest>>

Next == (\E b \in Blocks : Connect(b)) \/ Disconnect \/ Save \/ Restart

Spec == Init /\ [][Next]_vars
=============================================================================
