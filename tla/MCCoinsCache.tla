---------------------------- MODULE MCCoinsCache ----------------------------
(***************************************************************************)
(* A small chain with the awkward cases of coins: a transaction that spends *)
(* another one of its block, one whose outputs are all unspendable, one     *)
(* mined at two heights, a txid used again after it was spent (block 5) and *)
(* before (block 6), a double spend (block 7).                              *)
(***************************************************************************)
EXTENDS InsightIndexes, TLC

\* 0 - 1 - 2 - 5,  1 - 3 - 4 - 7,  1 - 6
MCBlocks == 0..7
MCParent == 1 :> 0 @@ 2 :> 1 @@ 3 :> 1 @@ 4 :> 3 @@ 5 :> 2 @@ 6 :> 1 @@ 7 :> 4
MCHeight == 0 :> 0 @@ 1 :> 1 @@ 2 :> 2 @@ 3 :> 2 @@ 4 :> 3 @@ 5 :> 3 @@ 6 :> 2 @@ 7 :> 4
MCRank   == [b \in MCBlocks |-> b]

MCTxs == {"c1", "c2", "c3", "a", "d", "e"}
MCVtx == 0 :> <<>> @@ 1 :> <<"c1">> @@ 2 :> <<"c2", "a", "d">> @@ 3 :> <<"c3">>
         @@ 4 :> <<"c2", "a">> @@ 5 :> <<"c1">> @@ 6 :> <<"c1">> @@ 7 :> <<"c3", "e">>
MCVin == "c1" :> <<>> @@ "c2" :> <<>> @@ "c3" :> <<>>
         @@ "a" :> << <<"c1", 0>> >>
         @@ "d" :> << <<"a", 0>>, <<"c1", 1>> >>
         @@ "e" :> << <<"c2", 0>>, <<"c1", 0>> >>
MCOuts == "c1" :> {0, 1} @@ "c2" :> {0} @@ "c3" :> {} @@ "a" :> {0, 1} @@ "d" :> {} @@ "e" :> {0}

\* the outputs with an address; block times that do not follow the chain
MCAddressed == "c1" :> {0, 1} @@ "c2" :> {0} @@ "c3" :> {} @@ "a" :> {0} @@ "d" :> {} @@ "e" :> {0}
MCTime == 0 :> 1 @@ 1 :> 5 @@ 2 :> 5 @@ 3 :> 3 @@ 4 :> 9 @@ 5 :> 4 @@ 6 :> 6 @@ 7 :> 2
=============================================================================
