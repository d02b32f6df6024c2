---------------------------- MODULE MCCheckQueue ----------------------------
(***************************************************************************)
(* The check queue for TLC: a master and two workers, blocks of up to       *)
(* MaxChecks checks of which one is bad.                                    *)
(***************************************************************************)
EXTENDS CheckQueue

CONSTANTS w1, w2, m, MaxChecks

MCWorkers   == {w1, w2}
MCChecks    == 1..MaxChecks
MCBadChecks == {1}
=============================================================================
