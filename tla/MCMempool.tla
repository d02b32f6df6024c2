------------------------------ MODULE MCMempool ------------------------------
(***************************************************************************)
(* A chain of transactions a - b - g over an output of coinbase c1, where g  *)
(* also spends d; e, which competes with a for the same output; and k, which *)
(* spends a younger coinbase.  Block 3 holds a and d, block 5 on it b; its   *)
(* rivals 4 holds e and 6 nothing.                                           *)
(***************************************************************************)
EXTENDS TxRelay

\* 0 - 1 - 2 - 3 - 5,  2 - 4,  2 - 6
MCBlocks == 0..6
MCParent == 1 :> 0 @@ 2 :> 1 @@ 3 :> 2 @@ 4 :> 2 @@ 5 :> 3 @@ 6 :> 2
MCHeight == 0 :> 0 @@ 1 :> 1 @@ 2 :> 2 @@ 3 :> 3 @@ 4 :> 3 @@ 5 :> 4 @@ 6 :> 3
MCRank   == [b \in MCBlocks |-> b]

MCTxs == {"c1", "c2", "c3", "c4", "c5", "c6", "a", "b", "d", "e", "g", "k"}
MCVtx == 0 :> <<>> @@ 1 :> <<"c1">> @@ 2 :> <<"c2">> @@ 3 :> <<"c3", "a", "d">>
         @@ 4 :> <<"c4", "e">> @@ 5 :> <<"c5", "b">> @@ 6 :> <<"c6">>
MCVin == [x \in MCTxs |->
            CASE x = "a" -> << <<"c1", 0>> >>
              [] x = "b" -> << <<"a", 0>> >>
              [] x = "d" -> << <<"c1", 1>> >>
              [] x = "e" -> << <<"c1", 0>> >>
              [] x = "g" -> << <<"b", 0>>, <<"d", 0>> >>
              [] x = "k" -> << <<"c2", 0>> >>
              [] OTHER   -> <<>>]
MCOuts == [x \in MCTxs |-> IF x = "c1" THEN {0, 1} ELSE {0}]

MCFee == [x \in MCTxs |-> CASE x = "a" -> 1 [] x = "b" -> 2 [] x = "d" -> 2 [] x = "e" -> 5
                             [] x = "g" -> 3 [] x = "k" -> 4 [] OTHER -> 0]
\* d is final from height 3, the height of its block.
MCLockTime == [x \in MCTxs |-> IF x = "d" THEN 3 ELSE 0]
MCOptIn == {"a"}
MCPrioritised == {"a", "b"}

Symmetry == Permutations(Peers)
=============================================================================
