---------------------------- MODULE TrainBooking ----------------------------
(***************************************************************************)
(* The write servers of hw1 (server.c compiled with WRITE_SERVER), which   *)
(* book the seats of trains for clients that talk to them over             *)
(* connections, and the train files and record locks they share.           *)
(*                                                                         *)
(* A server is one process that serves its connections in turn, so inside  *)
(* a server a handler is atomic; but other servers run between any two     *)
(* system calls on a train file, so a handler that makes several of them   *)
(* is cut into that many steps, and "doing" tells what the server is in    *)
(* the middle of.                                                          *)
(*                                                                         *)
(* A message is a complete line: the bytes of a line that is not complete  *)
(* stay in the buffer and change nothing else.                             *)
(***************************************************************************)
EXTENDS Integers, FiniteSets

CONSTANTS
    Servers,        \* the processes write_server
    Conns,          \* the descriptors a server can give to connections
    Trains,         \* 902001..902005
    SEAT_NUM,
    PaidAtFirst     \* the seats that are 1 in each train file at the start

ASSUME TrainAssumption ==
    /\ SEAT_NUM \in Nat \ {0}
    /\ PaidAtFirst \in [Trains -> SUBSET (1..SEAT_NUM)]
    /\ -1 \notin Conns \cup Trains
    /\ "nobody" \notin Servers

Seats == 1..SEAT_NUM
NoConn == -1
NoShift == -1
Nobody == "nobody"

VARIABLES
    paid,       \* the train files: the seats that are 1
    flock,      \* the process that holds the record lock of each seat
    seat_lock,  \* svr.seat_lock of each server
    req,        \* requestP of each server
    line,       \* what each connection is like outside of the server
    doing       \* what each server is in the middle of

vars == <<paid, flock, seat_lock, req, line, doing>>

(* init_request.                                                           *)
InitRequest ==
    [status |-> "INVALID", shift_id |-> NoShift, num_of_chosen_seats |-> 0,
     seat_stat |-> [j \in Seats |-> "UNKNOWN"]]

(* The client may leave; "eof" is that read has told the server so.        *)
(* remaining_time may run out.                                             *)
InitLine == [gone |-> FALSE, eof |-> FALSE, expired |-> FALSE]

Nothing == [op |-> "nothing"]

Init ==
    /\ paid = PaidAtFirst
    /\ flock = [t \in Trains |-> [j \in Seats |-> Nobody]]
    /\ seat_lock = [s \in Servers |-> [t \in Trains |-> [j \in Seats |-> NoConn]]]
    /\ req = [s \in Servers |-> [c \in Conns |-> InitRequest]]
    /\ line = [s \in Servers |-> [c \in Conns |-> InitLine]]
    /\ doing = [s \in Servers |-> Nothing]

Open(s, c) == req[s][c].status # "INVALID"

(* The seats of the request that are CHOSEN, and those it holds a lock of. *)
Chosen(s, c) == {j \in Seats : req[s][c].seat_stat[j] = "CHOSEN"}
Locked(s, c) == {j \in Seats : /\ req[s][c].shift_id # NoShift
                               /\ seat_lock[s][req[s][c].shift_id][j] = c}

(* The loops over the seats go from the first to the last.                 *)
IsFirst(j, S) == j \in S /\ \A k \in S : j <= k

-----------------------------------------------------------------------------
(* What goes on outside of the servers.                                    *)

ClientLeaves(s, c) ==
    /\ Open(s, c)
    /\ ~line[s][c].gone
    /\ line' = [line EXCEPT ![s][c].gone = TRUE]
    /\ UNCHANGED <<paid, flock, seat_lock, req, doing>>

(* TIME_OUT milliseconds after accept_conn.                                *)
Expire(s, c) ==
    /\ Open(s, c)
    /\ ~line[s][c].expired
    /\ line' = [line EXCEPT ![s][c].expired = TRUE]
    /\ UNCHANGED <<paid, flock, seat_lock, req, doing>>

(* The process ends, as by the SIGPIPE of a write to a client that has     *)
(* left, and is started again.  The kernel releases its record locks and   *)
(* closes its connections; what is written is written.                     *)
Crash(s) ==
    /\ flock' = [t \in Trains |-> [j \in Seats |->
                    IF flock[t][j] = s THEN Nobody ELSE flock[t][j]]]
    /\ seat_lock' = [seat_lock EXCEPT ![s] = [t \in Trains |-> [j \in Seats |-> NoConn]]]
    /\ req' = [req EXCEPT ![s] = [c \in Conns |-> InitRequest]]
    /\ line' = [line EXCEPT ![s] = [c \in Conns |-> InitLine]]
    /\ doing' = [doing EXCEPT ![s] = Nothing]
    /\ UNCHANGED paid

-----------------------------------------------------------------------------
(* The loop of main.                                                       *)

Accept(s, c) ==
    /\ doing[s] = Nothing
    /\ ~Open(s, c)
    /\ req' = [req EXCEPT ![s][c].status = "SHIFT"]
    /\ line' = [line EXCEPT ![s][c] = InitLine]
    /\ UNCHANGED <<paid, flock, seat_lock, doing>>

(* The loop has come to the connection and must close it.                  *)
StartClosing(s, c) == doing' = [doing EXCEPT ![s] = [op |-> "close", conn |-> c]]

(* Mutant: only connections whose clients are there time out.              *)
TimeOutIfThere(s, c) ==
    /\ doing[s] = Nothing
    /\ Open(s, c)
    /\ line[s][c].expired
    /\ ~line[s][c].gone
    /\ StartClosing(s, c)
    /\ UNCHANGED <<paid, flock, seat_lock, req, line>>

TimeOut(s, c) ==
    /\ doing[s] = Nothing
    /\ Open(s, c)
    /\ line[s][c].expired
    /\ StartClosing(s, c)
    /\ UNCHANGED <<paid, flock, seat_lock, req, line>>

(* The loop has come to the connection, and there is something to read.    *)
Reads(s, c) ==
    /\ doing[s] = Nothing
    /\ Open(s, c)
    /\ ~line[s][c].expired

Receives(s, c) == Reads(s, c) /\ ~line[s][c].gone

(* read returns 0; handle_read returns 0 as well and main goes on.         *)
ReadEof(s, c) ==
    /\ Reads(s, c)
    /\ line[s][c].gone
    /\ ~line[s][c].eof
    /\ line' = [line EXCEPT ![s][c].eof = TRUE]
    /\ UNCHANGED <<paid, flock, seat_lock, req, doing>>

(* "exit", or anything that is not allowed in this state.                  *)
Exit(s, c) ==
    /\ Receives(s, c)
    /\ StartClosing(s, c)
    /\ UNCHANGED <<paid, flock, seat_lock, req, line>>

(* Every byte of the train file is '1'.                                    *)
CheckAllOne(t) == paid[t] = Seats

(* A shift: main looks whether it is full.                                 *)
ChooseShift(s, c, t) ==
    /\ Receives(s, c)
    /\ req[s][c].status = "SHIFT"
    /\ ~CheckAllOne(t)
    /\ req' = [req EXCEPT ![s][c].shift_id = t, ![s][c].status = "SEAT"]
    /\ UNCHANGED <<paid, flock, seat_lock, line, doing>>

(* Mutant: the train file is not looked at.                                *)
CheckLocksOnly(s, c, j) ==
    /\ Receives(s, c)
    /\ req[s][c].status = "SEAT"
    /\ doing' = [doing EXCEPT ![s] = [op |-> "getlk", conn |-> c, seat |-> j]]
    /\ UNCHANGED <<paid, flock, seat_lock, req, line>>

(* A seat: CheckBooked reads its byte.                                     *)
CheckBooked(s, c, j) ==
    /\ Receives(s, c)
    /\ req[s][c].status = "SEAT"
    /\ j \notin paid[req[s][c].shift_id]
    /\ doing' = [doing EXCEPT ![s] = [op |-> "getlk", conn |-> c, seat |-> j]]
    /\ UNCHANGED <<paid, flock, seat_lock, req, line>>

-----------------------------------------------------------------------------
(* SelectSeat.                                                             *)

(* fcntl(F_SETLK): fails if another process holds the lock.                *)
SetLock(s, t, j) ==
    flock' = IF flock[t][j] = Nobody THEN [flock EXCEPT ![t][j] = s] ELSE flock

(* fcntl(F_SETLK) with F_UNLCK: a process releases what it holds.          *)
ClearLock(s, t, j) ==
    flock' = IF flock[t][j] = s THEN [flock EXCEPT ![t][j] = Nobody] ELSE flock

CancelTo(s, num) ==
    /\ doing[s].op = "getlk"
    /\ LET c == doing[s].conn
           j == doing[s].seat
           t == req[s][c].shift_id
       IN  /\ req[s][c].seat_stat[j] = "CHOSEN"
           /\ req' = [req EXCEPT ![s][c].seat_stat[j] = "UNKNOWN",
                                 ![s][c].num_of_chosen_seats = num[c]]
           /\ seat_lock' = [seat_lock EXCEPT ![s][t][j] = NoConn]
           /\ ClearLock(s, t, j)
    /\ doing' = [doing EXCEPT ![s] = Nothing]
    /\ UNCHANGED <<paid, line>>

(* Mutant: the count of chosen seats stays.                                *)
CancelUncounted(s) == CancelTo(s, [c \in Conns |-> req[s][c].num_of_chosen_seats])

(* The client has the seat: it is given back.                              *)
Cancel(s) == CancelTo(s, [c \in Conns |-> req[s][c].num_of_chosen_seats - 1])

(* Mutant: the locks of the own process are not looked at.                 *)
LockedByProcess(s, t, j) == flock[t][j] \notin {Nobody, s}

(* fcntl(F_GETLK) does not see the locks of the own process, which is what *)
(* seat_lock is for.                                                       *)
LockedByOthers(s, t, j) ==
    \/ flock[t][j] \notin {Nobody, s}
    \/ seat_lock[s][t][j] # NoConn

GetLock(s) ==
    /\ doing[s].op = "getlk"
    /\ LET c == doing[s].conn
           j == doing[s].seat
           t == req[s][c].shift_id
       IN  /\ req[s][c].seat_stat[j] # "CHOSEN"
           /\ doing' = [doing EXCEPT ![s] =
                          IF LockedByOthers(s, t, j) THEN Nothing ELSE [@ EXCEPT !.op = "setlk"]]
    /\ UNCHANGED <<paid, flock, seat_lock, req, line>>

(* The result of fcntl is not looked at.                                   *)
ChooseSeat(s) ==
    /\ doing[s].op = "setlk"
    /\ LET c == doing[s].conn
           j == doing[s].seat
           t == req[s][c].shift_id
       IN  /\ req' = [req EXCEPT ![s][c].seat_stat[j] = "CHOSEN",
                                 ![s][c].num_of_chosen_seats = @ + 1]
           /\ SetLock(s, t, j)
           /\ seat_lock' = [seat_lock EXCEPT ![s][t][j] = c]
    /\ doing' = [doing EXCEPT ![s] = Nothing]
    /\ UNCHANGED <<paid, line>>

-----------------------------------------------------------------------------
(* "pay".                                                                  *)

Pay(s, c) ==
    /\ Receives(s, c)
    /\ req[s][c].status = "SEAT"
    /\ req[s][c].num_of_chosen_seats # 0
    /\ doing' = [doing EXCEPT ![s] = [op |-> "pay", conn |-> c]]
    /\ UNCHANGED <<paid, flock, seat_lock, req, line>>

(* The next chosen seat is written to the file.                            *)
PaySeat(s) ==
    /\ doing[s].op = "pay"
    /\ LET c == doing[s].conn
           t == req[s][c].shift_id
       IN  \E j \in Seats :
           /\ IsFirst(j, Chosen(s, c))
           /\ req' = [req EXCEPT ![s][c].seat_stat[j] = "PAID",
                                 ![s][c].num_of_chosen_seats = 0]
           /\ paid' = [paid EXCEPT ![t] = @ \cup {j}]
    /\ UNCHANGED <<flock, seat_lock, line, doing>>

FinishPaying(s) ==
    /\ doing[s].op = "pay"
    /\ LET c == doing[s].conn
       IN  /\ Chosen(s, c) = {}
           /\ req' = [req EXCEPT ![s][c].status = "BOOKED",
                                 ![s][c].num_of_chosen_seats = 0]
    /\ doing' = [doing EXCEPT ![s] = Nothing]
    /\ UNCHANGED <<paid, flock, seat_lock, line>>

(* "seat" after a payment.                                                 *)
BookMore(s, c) ==
    /\ Receives(s, c)
    /\ req[s][c].status = "BOOKED"
    /\ req' = [req EXCEPT ![s][c].status = "SEAT"]
    /\ UNCHANGED <<paid, flock, seat_lock, line, doing>>

-----------------------------------------------------------------------------
(* unlock, close and free_request.                                         *)

UnlockSeat(s) ==
    /\ doing[s].op = "close"
    /\ LET c == doing[s].conn
           t == req[s][c].shift_id
       IN  \E j \in Seats :
           /\ IsFirst(j, Locked(s, c))
           /\ seat_lock' = [seat_lock EXCEPT ![s][t][j] = NoConn]
           /\ ClearLock(s, t, j)
    /\ UNCHANGED <<paid, req, line, doing>>

(* Mutant: the connection is closed while it still holds seats.            *)
CloseAtOnce(s) ==
    /\ doing[s].op = "close"
    /\ req' = [req EXCEPT ![s][doing[s].conn] = InitRequest]
    /\ line' = [line EXCEPT ![s][doing[s].conn] = InitLine]
    /\ doing' = [doing EXCEPT ![s] = Nothing]
    /\ UNCHANGED <<paid, flock, seat_lock>>

Close(s) ==
    /\ doing[s].op = "close"
    /\ Locked(s, doing[s].conn) = {}
    /\ req' = [req EXCEPT ![s][doing[s].conn] = InitRequest]
    /\ line' = [line EXCEPT ![s][doing[s].conn] = InitLine]
    /\ doing' = [doing EXCEPT ![s] = Nothing]
    /\ UNCHANGED <<paid, flock, seat_lock>>

-----------------------------------------------------------------------------
Handle(s, c) ==
    \/ Accept(s, c)
    \/ TimeOut(s, c)
    \/ ReadEof(s, c)
    \/ Exit(s, c)
    \/ \E t \in Trains : ChooseShift(s, c, t)
    \/ \E j \in Seats : CheckBooked(s, c, j)
    \/ Pay(s, c)
    \/ BookMore(s, c)

GoOn(s) ==
    \/ Cancel(s) \/ GetLock(s) \/ ChooseSeat(s)
    \/ PaySeat(s) \/ FinishPaying(s)
    \/ UnlockSeat(s) \/ Close(s)

Next ==
    \E s \in Servers :
        \/ GoOn(s)
        \/ Crash(s)
        \/ \E c \in Conns : Handle(s, c) \/ ClientLeaves(s, c) \/ Expire(s, c)

Spec == Init /\ [][Next]_vars

(* A server finishes the handler it is in; its loop comes to every         *)
(* connection again and again, and looks at the time before anything else; *)
(* and time goes on.                                                       *)
Fairness ==
    \A s \in Servers :
        /\ WF_vars(GoOn(s))
        /\ \A c \in Conns : WF_vars(Expire(s, c)) /\ SF_vars(TimeOut(s, c))

FairSpec == Spec /\ Fairness

-----------------------------------------------------------------------------
(* Type invariant: the requests of a server, its table of locks, the files *)
(* and the record locks hold what their types in server.h allow, and the   *)
(* count of chosen seats is no larger than the train.                      *)
Request ==
    [status : {"INVALID", "SHIFT", "SEAT", "BOOKED"}, shift_id : Trains \cup {NoShift},
     num_of_chosen_seats : 0..SEAT_NUM,
     seat_stat : [Seats -> {"UNKNOWN", "CHOSEN", "PAID"}]]
Line == [gone : BOOLEAN, eof : BOOLEAN, expired : BOOLEAN]
Doing ==
    {Nothing}
    \cup [op : {"getlk", "setlk"}, conn : Conns, seat : Seats]
    \cup [op : {"pay", "close"}, conn : Conns]

TypeOK ==
    /\ paid \in [Trains -> SUBSET Seats]
    /\ flock \in [Trains -> [Seats -> Servers \cup {Nobody}]]
    /\ seat_lock \in [Servers -> [Trains -> [Seats -> Conns \cup {NoConn}]]]
    /\ req \in [Servers -> [Conns -> Request]]
    /\ line \in [Servers -> [Conns -> Line]]
    /\ doing \in [Servers -> Doing]

(* server.h: a CHOSEN seat is being reserved, a PAID seat is paid for.  No *)
(* seat of a train is reserved or paid for in two requests.                *)
Holders(t, j) ==
    {h \in Servers \X Conns :
        LET r == req[h[1]][h[2]]
        IN  r.shift_id = t /\ r.seat_stat[j] \in {"CHOSEN", "PAID"}}

SeatHasOneHolder ==
    \A t \in Trains, j \in Seats : Cardinality(Holders(t, j)) <= 1

(* A seat that a client has chosen, and may pay for, is not paid for yet:  *)
(* the byte that CheckBooked read is still what it was.                    *)
ChosenIsUnpaid ==
    \A s \in Servers, c \in Conns :
        \A j \in Chosen(s, c) : j \notin paid[req[s][c].shift_id]

(* A descriptor in seat_lock is that of an open connection which holds the *)
(* seat: the next connection with the same descriptor does not inherit the *)
(* seats of the last one.  And the process holds the record locks of just  *)
(* these seats.                                                            *)
LocksHaveOwners ==
    /\ \A s \in Servers, t \in Trains, j \in Seats :
          LET c == seat_lock[s][t][j]
          IN  c # NoConn => /\ req[s][c].shift_id = t
                            /\ req[s][c].seat_stat[j] \in {"CHOSEN", "PAID"}
    /\ \A t \in Trains, j \in Seats :
          flock[t][j] # Nobody <=> \E s \in Servers : seat_lock[s][t][j] # NoConn

(* A client is told that its booking is successful only when it has seats, *)
(* and all the seats it is told it has paid for are in the file.           *)
BookingIsRecorded ==
    \A s \in Servers, c \in Conns :
        LET r == req[s][c]
            bought == {j \in Seats : r.seat_stat[j] = "PAID"}
        IN  /\ r.status = "BOOKED" => bought # {}
            /\ bought # {} => bought \subseteq paid[r.shift_id]

(* A connection that holds seats does not hold them for ever, whatever its *)
(* client does or does not do.                                             *)
SeatsComeBack ==
    \A s \in Servers, c \in Conns : Locked(s, c) # {} ~> Locked(s, c) = {}

(* What the clients see of the seats: a seat is sold when it is paid for,  *)
(* and until then it belongs to the connection in seat_lock.               *)
SeatOf(t, j) ==
    IF j \in paid[t] THEN <<"sold">>
    ELSE IF \E s \in Servers : seat_lock[s][t][j] # NoConn
         THEN LET s == CHOOSE s \in Servers : seat_lock[s][t][j] # NoConn
              IN  <<s, seat_lock[s][t][j]>>
         ELSE <<"free">>

Service == INSTANCE SeatService WITH
    seat <- [t \in Trains |-> [j \in Seats |-> SeatOf(t, j)]],
    sale <- [s \in Servers |-> IF doing[s].op = "pay" THEN doing[s].conn ELSE NoConn]

(* The write server implements SeatService: however its handlers, its      *)
(* crashes and the files interleave, a seat goes from one client to the    *)
(* next only by being given back, and a payment sells all that was held.   *)
ImplementsSeatService == Service!Spec

(* server.c: end of file is a disconnection.  When read has returned 0 the *)
(* server closes the connection.                                           *)
DisconnectionCloses ==
    \A s \in Servers, c \in Conns :
        line[s][c].eof => doing[s] = [op |-> "close", conn |-> c]
=============================================================================
