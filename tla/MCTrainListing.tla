---------------------------- MODULE MCTrainListing ----------------------------
(***************************************************************************)
(* Trains, write servers and a read server for the model checker.          *)
(***************************************************************************)
EXTENDS TrainListing, TLC

CONSTANTS s1, c1, r1, t1, t2

(* One train has free seats and one is full.                               *)
FreeAndFull == (t1 :> {}) @@ (t2 :> Seats)
=============================================================================
