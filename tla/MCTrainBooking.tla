--------------------------- MODULE MCTrainBooking ---------------------------
(***************************************************************************)
(* Trains and connections for the model checker.                           *)
(***************************************************************************)
EXTENDS TrainBooking, TLC

CONSTANTS s1, s2, c1, c2, t1, t2

(* One train has free seats, as train_902001, and one is full, as          *)
(* train_902002.                                                           *)
FreeAndFull == (t1 :> {}) @@ (t2 :> Seats)
=============================================================================
