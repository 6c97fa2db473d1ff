------------------------ MODULE TrainListingInvariant ------------------------
(***************************************************************************)
(* The inductive invariants of TrainListing: CheckerInv and ReadInv, which *)
(* need nothing of the write servers but that a paid seat stays paid, and  *)
(* SoldInv, which needs that there is one write server.                    *)
(***************************************************************************)
EXTENDS TrainListing, TrainBookingInvariant

Listing == asking # Nothing
Listed == checker[asking.conn].shift_id

(* What asking is while the server makes a listing.                        *)
Asking == [op : {"query", "send"}, conn : ReadConns, seat : Seats,
           buf : [Seats -> {"0", "1", "2"}]]

(* Nobody closes or reuses the connection of the listing.                  *)
CheckerInv ==
    /\ checker \in [ReadConns -> [status : {"INVALID", "SHIFT"},
                                  shift_id : Trains \cup {NoShift}]]
    /\ checkLine \in [ReadConns -> Line]
    /\ asking \in {Nothing} \cup Asking
    /\ seen \in [Seats -> SUBSET {"0", "1", "2"}]
    /\ Listing => Listed \in Trains
    /\ ~Listing => seen = NothingSeen

(* The lock of the seat has been asked for.                                *)
Queried(j) == asking.op = "send" \/ j < asking.seat

(* A seat has been what it is now; a byte that was 1 when the file was     *)
(* read is that of a seat that was sold all the time, and any other byte   *)
(* that of a seat that was not; a 2 was put there, and every other lock    *)
(* that was asked for was not held.                                        *)
ReadSeat(j) ==
    /\ Truth(j) \in seen[j]
    /\ asking.buf[j] = "1" => j \in paid[Listed] /\ seen[j] = {"1"}
    /\ asking.buf[j] # "1" => seen[j] # {"1"}
    /\ asking.buf[j] = "2" => Queried(j)

ReadInv == Listing => \A j \in Seats : ReadSeat(j)

(* A seat that was free in the file and is sold now was reserved before:   *)
(* this is why a lock that is asked for late tells something.              *)
SoldSeat(j) ==
    /\ asking.buf[j] = "0" /\ j \in paid[Listed] => "2" \in seen[j]
    /\ asking.buf[j] = "2" => "2" \in seen[j]
    /\ asking.buf[j] = "0" /\ Queried(j) => "0" \in seen[j] \/ {"1", "2"} \subseteq seen[j]

SoldInv == Listing => \A j \in Seats : SoldSeat(j)
=============================================================================
