------------------------------ MODULE MCAddrMan ------------------------------
(***************************************************************************)
(* Three addresses heard of from three sources.  All share one tried slot; in *)
(* each of the three new buckets two of them collide; an address may be in two *)
(* buckets and a1 is heard of for all three.                                   *)
(***************************************************************************)
EXTENDS AddrMan, TLC

CONSTANTS a1, a2, a3, s1, s2, s3

MCAddrs     == {a1, a2, a3}
MCSources   == {s1, s2, s3}
MCBuckets   == 1..3
MCPositions == 1..2
MCTried     == {1, 2}
MCNewBucket ==
    <<a1, s1>> :> 1 @@ <<a2, s1>> :> 1 @@ <<a3, s1>> :> 2
    @@ <<a1, s2>> :> 2 @@ <<a2, s2>> :> 3 @@ <<a3, s2>> :> 3
    @@ <<a1, s3>> :> 3 @@ <<a2, s3>> :> 1 @@ <<a3, s3>> :> 3
MCNewPosition == [q \in MCAddrs \X MCBuckets |-> IF q[2] = 3 /\ q[1] = a2 THEN 2 ELSE 1]
MCTriedSlot   == a1 :> 1 @@ a2 :> 1 @@ a3 :> 1
=============================================================================
