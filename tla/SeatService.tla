------------------------------ MODULE SeatService ------------------------------
(***************************************************************************)
(* What a write server of hw1 promises: a seat is free, held by one        *)
(* connection or sold; who pays gets all the seats it holds; nobody else   *)
(* gets a seat that is held or sold; and a server that dies gives back     *)
(* what was held and not what was sold.                                    *)
(***************************************************************************)
EXTENDS Integers

CONSTANTS Servers, Conns, Trains, SEAT_NUM, PaidAtFirst

Seats == 1..SEAT_NUM
Free == <<"free">>
Sold == <<"sold">>
NoSale == -1

VARIABLES
    seat,   \* Free, Sold, or the server and the connection that hold it
    sale    \* the connection of each server that is paying

vars == <<seat, sale>>

Init ==
    /\ seat = [t \in Trains |-> [j \in Seats |->
                  IF j \in PaidAtFirst[t] THEN Sold ELSE Free]]
    /\ sale = [s \in Servers |-> NoSale]

Held(s, c) == {h \in Trains \X Seats : seat[h[1]][h[2]] = <<s, c>>}

(* Seats are of one train.                                                 *)
Choose(s, c, t, j) ==
    /\ sale[s] = NoSale
    /\ seat[t][j] = Free
    /\ Held(s, c) \subseteq {t} \X Seats
    /\ seat' = [seat EXCEPT ![t][j] = <<s, c>>]
    /\ UNCHANGED sale

(* By the client, or when the connection is closed.                        *)
GiveBack(s, c, t, j) ==
    /\ sale[s] = NoSale
    /\ seat[t][j] = <<s, c>>
    /\ seat' = [seat EXCEPT ![t][j] = Free]
    /\ UNCHANGED sale

StartSale(s, c) ==
    /\ sale[s] = NoSale
    /\ Held(s, c) # {}
    /\ sale' = [sale EXCEPT ![s] = c]
    /\ UNCHANGED seat

Sell(s, t, j) ==
    /\ sale[s] # NoSale
    /\ seat[t][j] = <<s, sale[s]>>
    /\ seat' = [seat EXCEPT ![t][j] = Sold]
    /\ UNCHANGED sale

EndSale(s) ==
    /\ sale[s] # NoSale
    /\ Held(s, sale[s]) = {}
    /\ sale' = [sale EXCEPT ![s] = NoSale]
    /\ UNCHANGED seat

Crash(s) ==
    /\ seat' = [t \in Trains |-> [j \in Seats |->
                   IF \E c \in Conns : seat[t][j] = <<s, c>> THEN Free ELSE seat[t][j]]]
    /\ sale' = [sale EXCEPT ![s] = NoSale]

Next ==
    \E s \in Servers :
        \/ EndSale(s)
        \/ Crash(s)
        \/ \E c \in Conns :
              \/ StartSale(s, c)
              \/ \E t \in Trains, j \in Seats : Choose(s, c, t, j) \/ GiveBack(s, c, t, j)
        \/ \E t \in Trains, j \in Seats : Sell(s, t, j)

Spec == Init /\ [][Next]_vars
=============================================================================
