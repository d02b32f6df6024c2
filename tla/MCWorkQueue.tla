---------------------------- MODULE MCWorkQueue ----------------------------
(***************************************************************************)
(* Two workers, three requests, a queue of depth one.                       *)
(***************************************************************************)
EXTENDS WorkQueue

CONSTANTS w1, w2, r1, r2, r3
MCWorkers  == {w1, w2}
MCRequests == {r1, r2, r3}
=============================================================================
