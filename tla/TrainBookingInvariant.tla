------------------------ MODULE TrainBookingInvariant ------------------------
(***************************************************************************)
(* The inductive invariants of TrainBooking: IInv of any number of write   *)
(* servers, and OneServerInv, which needs that there is only one.          *)
(***************************************************************************)
EXTENDS TrainBooking

Holds(s, c, j) == req[s][c].seat_stat[j] # "UNKNOWN"
Closing(c) == [op |-> "close", conn |-> c]
Paying(c) == [op |-> "pay", conn |-> c]

(* A request has a shift once it was chosen, and seats only after that.    *)
RequestInv ==
    \A s \in Servers, c \in Conns :
        /\ req[s][c].shift_id = NoShift <=> req[s][c].status \in {"INVALID", "SHIFT"}
        /\ req[s][c].shift_id = NoShift => \A j \in Seats : ~Holds(s, c, j)

(* seat_lock has the seats that requests hold; a connection that is being  *)
(* closed has given some back already.                                     *)
HolderInv ==
    \A s \in Servers, c \in Conns, j \in Seats :
        Holds(s, c, j) =>
            seat_lock[s][req[s][c].shift_id][j] = c \/ doing[s] = Closing(c)

LockInv ==
    \A s \in Servers, c \in Conns, t \in Trains, j \in Seats :
        seat_lock[s][t][j] = c => req[s][c].shift_id = t /\ Holds(s, c, j)

(* No two connections of a server hold the same seat.                      *)
UniqueInv ==
    \A s \in Servers, c \in Conns, d \in Conns, j \in Seats :
        c # d /\ req[s][c].shift_id = req[s][d].shift_id
            => ~Holds(s, c, j) \/ ~Holds(s, d, j)

(* What the server is in the middle of it does for a client that is at     *)
(* choosing seats; the lock it is about to take is free in the server; and *)
(* a client that pays has seats to pay for or has just paid for them.      *)
DoingInv ==
    \A s \in Servers :
        /\ doing[s].op \in {"getlk", "setlk", "pay"} =>
              req[s][doing[s].conn].status = "SEAT"
        /\ doing[s].op = "setlk" =>
              seat_lock[s][req[s][doing[s].conn].shift_id][doing[s].seat] = NoConn
        /\ doing[s].op = "pay" => \E j \in Seats : Holds(s, doing[s].conn, j)

CountInv ==
    \A s \in Servers, c \in Conns :
        \/ req[s][c].num_of_chosen_seats = Cardinality(Chosen(s, c))
        \/ req[s][c].num_of_chosen_seats = 0 /\ doing[s] = Paying(c)

PaidInv ==
    \A s \in Servers, c \in Conns :
        /\ \A j \in Seats : req[s][c].seat_stat[j] = "PAID" => j \in paid[req[s][c].shift_id]
        /\ req[s][c].status = "BOOKED" => \E j \in Seats : req[s][c].seat_stat[j] = "PAID"

IInv ==
    /\ TypeOK
    /\ RequestInv
    /\ HolderInv
    /\ LockInv
    /\ UniqueInv
    /\ DoingInv
    /\ CountInv
    /\ PaidInv

-----------------------------------------------------------------------------
(* With one server.  A seat that is chosen, or that the server has found   *)
(* not to be booked, is not paid for behind its back; and the record locks *)
(* are those of seat_lock.                                                 *)
ChosenInv ==
    \A s \in Servers, c \in Conns : \A j \in Chosen(s, c) : j \notin paid[req[s][c].shift_id]

AskedInv ==
    \A s \in Servers :
        doing[s].op \in {"getlk", "setlk"} =>
            doing[s].seat \notin paid[req[s][doing[s].conn].shift_id]

FlockInv ==
    \A s \in Servers, t \in Trains, j \in Seats :
        flock[t][j] = IF seat_lock[s][t][j] = NoConn THEN Nobody ELSE s

OneServerInv ==
    /\ ChosenInv
    /\ AskedInv
    /\ FlockInv
=============================================================================
