------------------------- MODULE TrainBookingProofs -------------------------
(***************************************************************************)
(* What TrainBooking promises for any servers, connections, trains and     *)
(* seats, and what it promises when there is one write server.  IInv is    *)
(* inductive; the actions are taken one by one, first those that only look *)
(* at the requests, then those that change one.  The last part adds        *)
(* OneServerInv, which is inductive relative to IInv when there is one     *)
(* server.                                                                 *)
(***************************************************************************)
EXTENDS TrainBookingInvariant, Sequences, FiniteSetTheorems, TLAPS

(* The seats of a train are finitely many.                                 *)
LEMMA SeatsAreFinite ==
    /\ IsFiniteSet(Seats)
    /\ Cardinality(Seats) = SEAT_NUM
    /\ \A S \in SUBSET Seats : IsFiniteSet(S) /\ Cardinality(S) \in 0..SEAT_NUM
<1>1. IsFiniteSet(Seats) /\ Cardinality(Seats) = SEAT_NUM
  BY TrainAssumption, FS_Interval DEF Seats
<1>2. ASSUME NEW S \in SUBSET Seats
      PROVE  IsFiniteSet(S) /\ Cardinality(S) \in 0..SEAT_NUM
  <2>1. IsFiniteSet(S) /\ Cardinality(S) <= SEAT_NUM
    BY <1>1, FS_Subset
  <2>2. Cardinality(S) \in Nat
    BY <2>1, FS_CardinalityType
  <2>3. QED  BY <2>1, <2>2, TrainAssumption
<1>3. QED  BY <1>1, <1>2

LEMMA ZeroIsACount == 0 \in 0..SEAT_NUM
BY TrainAssumption

LEMMA InitRequestIsOne == InitRequest \in Request
BY ZeroIsACount DEF InitRequest, Request, NoShift

(* The chosen seats are seats.                                             *)
LEMMA ChosenAreSeats ==
    ASSUME NEW s \in Servers, NEW c \in Conns
    PROVE  /\ Chosen(s, c) \in SUBSET Seats
           /\ IsFiniteSet(Chosen(s, c))
           /\ Cardinality(Chosen(s, c)) \in 0..SEAT_NUM
BY SeatsAreFinite DEF Chosen

(* Initially nothing is chosen.                                            *)
LEMMA Initially == Init => IInv
<1> SUFFICES ASSUME Init PROVE IInv
  OBVIOUS
<1> USE DEF Init
<1>1. TypeOK
  BY TrainAssumption, SMTT(30)
     DEF TypeOK, InitRequest, InitLine, Nothing, Doing, Request, Line, Seats, NoConn, NoShift,
         Nobody
<1>2. RequestInv
  BY DEF RequestInv, InitRequest, Holds
<1>3. HolderInv /\ UniqueInv
  BY DEF HolderInv, UniqueInv, InitRequest, Holds
<1>4. LockInv
  BY TrainAssumption DEF LockInv, NoConn
<1>5. DoingInv
  BY DEF DoingInv, Nothing
<1>6. CountInv
  <2>1. \A s \in Servers, c \in Conns : Chosen(s, c) = {}
    BY DEF Chosen, InitRequest
  <2>2. QED  BY <2>1, FS_EmptySet DEF CountInv, InitRequest
<1>7. PaidInv
  BY DEF PaidInv, InitRequest
<1>8. QED  BY <1>1, <1>2, <1>3, <1>4, <1>5, <1>6, <1>7 DEF IInv

-----------------------------------------------------------------------------
(* Actions that leave the requests alone.                                  *)

(* What goes on outside changes nothing that IInv looks at.                *)
LEMMA LineSteps ==
    ASSUME IInv, NEW s \in Servers, NEW c \in Conns,
           ClientLeaves(s, c) \/ Expire(s, c) \/ ReadEof(s, c)
    PROVE  IInv'
<1>1. UNCHANGED <<paid, flock, seat_lock, req, doing>>
  BY DEF ClientLeaves, Expire, ReadEof
<1>2. line' \in [Servers -> [Conns -> Line]]
  <2>1. PICK new \in Line : line' = [line EXCEPT ![s][c] = new]
    <3>1. line[s][c] \in Line
      BY DEF IInv, TypeOK
    <3>2. CASE ClientLeaves(s, c)
      BY <3>1, <3>2, [line[s][c] EXCEPT !.gone = TRUE] \in Line DEF ClientLeaves, Line
    <3>3. CASE Expire(s, c)
      BY <3>1, <3>3, [line[s][c] EXCEPT !.expired = TRUE] \in Line DEF Expire, Line
    <3>4. CASE ReadEof(s, c)
      BY <3>1, <3>4, [line[s][c] EXCEPT !.eof = TRUE] \in Line DEF ReadEof, Line
    <3>5. QED  BY <3>2, <3>3, <3>4
  <2>2. QED  BY <2>1 DEF IInv, TypeOK
<1>3. TypeOK'
  BY <1>1, <1>2 DEF IInv, TypeOK
<1>4. RequestInv' /\ HolderInv' /\ LockInv' /\ UniqueInv' /\ DoingInv' /\ PaidInv'
  <2>1. RequestInv' /\ PaidInv'
    BY <1>1 DEF IInv, RequestInv, PaidInv, Holds
  <2>2. HolderInv'
    BY <1>1 DEF IInv, HolderInv, Holds
  <2>3. LockInv'
    BY <1>1 DEF IInv, LockInv, Holds
  <2>4. UniqueInv'
    BY <1>1 DEF IInv, UniqueInv, Holds
  <2>5. DoingInv'
    BY <1>1 DEF IInv, DoingInv, Holds
  <2>6. QED  BY <2>1, <2>2, <2>3, <2>4, <2>5
<1>5. CountInv'
  BY <1>1 DEF IInv, CountInv, Chosen
<1>6. QED  BY <1>3, <1>4, <1>5 DEF IInv

(* Only "doing" changes, from Nothing or within a handler.  What is left   *)
(* to show is what the new value claims.                                   *)
LEMMA DoingSteps ==
    ASSUME IInv, NEW s \in Servers, NEW new \in Doing,
           UNCHANGED <<paid, flock, seat_lock, req, line>>,
           doing' = [doing EXCEPT ![s] = new],
           \A c \in Conns : doing[s] # Closing(c) /\ doing[s] # Paying(c),
           new.op \in {"getlk", "setlk", "pay"} => req[s][new.conn].status = "SEAT",
           new.op = "setlk" => seat_lock[s][req[s][new.conn].shift_id][new.seat] = NoConn,
           new.op = "pay" => \E j \in Seats : Holds(s, new.conn, j)
    PROVE  IInv'
<1>1. doing' \in [Servers -> Doing] /\ doing'[s] = new
  BY DEF IInv, TypeOK
<1>2. \A r \in Servers : r # s => doing'[r] = doing[r]
  BY DEF IInv, TypeOK
<1>3. TypeOK'
  BY <1>1 DEF IInv, TypeOK
<1>4. RequestInv' /\ LockInv' /\ UniqueInv' /\ PaidInv'
  BY DEF IInv, RequestInv, LockInv, UniqueInv, PaidInv, Holds
<1>5. HolderInv'
  BY <1>2 DEF IInv, HolderInv, Holds
<1>6. DoingInv'
  BY <1>1, <1>2 DEF IInv, DoingInv, Holds
<1>7. CountInv'
  BY <1>2 DEF IInv, CountInv, Chosen
<1>8. QED  BY <1>3, <1>4, <1>5, <1>6, <1>7 DEF IInv

LEMMA NothingIsNeither ==
    ASSUME NEW s \in Servers, doing[s] = Nothing, NEW c \in Conns
    PROVE  doing[s] # Closing(c) /\ doing[s] # Paying(c)
BY DEF Nothing, Closing, Paying

(* What the handlers that have begun are.                                  *)
LEMMA DoingKinds ==
    ASSUME IInv, NEW s \in Servers
    PROVE  /\ doing[s].op \in {"getlk", "setlk"} =>
                 doing[s] \in [op : {"getlk", "setlk"}, conn : Conns, seat : Seats]
           /\ doing[s].op \in {"pay", "close"} =>
                 doing[s] \in [op : {"pay", "close"}, conn : Conns]
<1>1. doing[s] \in Doing
  BY DEF IInv, TypeOK
<1>2. CASE doing[s] = Nothing
  BY <1>2 DEF Nothing
<1>3. CASE doing[s] \in [op : {"getlk", "setlk"}, conn : Conns, seat : Seats]
  BY <1>3
<1>4. CASE doing[s] \in [op : {"pay", "close"}, conn : Conns]
  BY <1>4
<1>5. QED  BY <1>1, <1>2, <1>3, <1>4 DEF Doing

(* A request that a handler works for has its shift.                       *)
LEMMA DoingHasShift ==
    ASSUME IInv, NEW s \in Servers, NEW c \in Conns, doing[s].conn = c,
           doing[s].op \in {"getlk", "setlk", "pay"}
    PROVE  req[s][c].status = "SEAT" /\ req[s][c].shift_id \in Trains
<1>1. req[s][c].status = "SEAT"
  BY DEF IInv, DoingInv
<1>2. req[s][c].shift_id \in Trains \cup {NoShift}
  BY DEF IInv, TypeOK, Request
<1>3. QED  BY <1>1, <1>2 DEF IInv, RequestInv

LEMMA ClosingStarts ==
    ASSUME IInv, NEW s \in Servers, NEW c \in Conns, TimeOut(s, c) \/ Exit(s, c)
    PROVE  IInv'
<1>1. doing[s] = Nothing /\ doing' = [doing EXCEPT ![s] = Closing(c)]
  BY DEF TimeOut, Exit, Receives, Reads, StartClosing, Closing
<1>2. Closing(c) \in Doing /\ Closing(c).op = "close"
  BY DEF Closing, Doing
<1>3. UNCHANGED <<paid, flock, seat_lock, req, line>>
  BY DEF TimeOut, Exit
<1>4. QED  BY <1>1, <1>2, <1>3, NothingIsNeither, DoingSteps

LEMMA CheckBookedStep ==
    ASSUME IInv, NEW s \in Servers, NEW c \in Conns, NEW j \in Seats, CheckBooked(s, c, j)
    PROVE  IInv'
<1> DEFINE new == [op |-> "getlk", conn |-> c, seat |-> j]
<1>1. new \in Doing /\ new.op = "getlk" /\ new.conn = c
  BY DEF Doing
<1>2. doing[s] = Nothing /\ req[s][c].status = "SEAT"
  BY DEF CheckBooked, Receives, Reads
<1>3. doing' = [doing EXCEPT ![s] = new] /\ UNCHANGED <<paid, flock, seat_lock, req, line>>
  BY DEF CheckBooked
<1> HIDE DEF new
<1>4. QED  BY <1>1, <1>2, <1>3, NothingIsNeither, DoingSteps

LEMMA GetLockStep ==
    ASSUME IInv, NEW s \in Servers, GetLock(s)
    PROVE  IInv'
<1> DEFINE c == doing[s].conn
           j == doing[s].seat
           t == req[s][c].shift_id
           new == IF LockedByOthers(s, t, j) THEN Nothing
                  ELSE [doing[s] EXCEPT !.op = "setlk"]
<1>1. doing[s].op = "getlk" /\ doing[s] \in [op : {"getlk", "setlk"}, conn : Conns, seat : Seats]
  BY DoingKinds DEF GetLock
<1>2. /\ doing' = [doing EXCEPT ![s] = new]
      /\ UNCHANGED <<paid, flock, seat_lock, req, line>>
  BY DEF GetLock
<1>3. \A d \in Conns : doing[s] # Closing(d) /\ doing[s] # Paying(d)
  BY <1>1 DEF Closing, Paying
<1>4. req[s][c].status = "SEAT"
  BY <1>1 DEF IInv, DoingInv
<1>5. CASE LockedByOthers(s, t, j)
  <2>1. new = Nothing /\ Nothing \in Doing /\ Nothing.op = "nothing"
    BY <1>5 DEF Nothing, Doing
  <2> HIDE DEF new
  <2>2. QED  BY <1>2, <1>3, <2>1, DoingSteps
<1>6. CASE ~LockedByOthers(s, t, j)
  <2>1. new = [op |-> "setlk", conn |-> c, seat |-> j] /\ c \in Conns /\ j \in Seats
    BY <1>1, <1>6
  <2>2. new \in Doing /\ new.op = "setlk" /\ new.conn = c /\ new.seat = j
    BY <2>1 DEF Doing
  <2>3. seat_lock[s][t][j] = NoConn
    BY <1>6 DEF LockedByOthers
  <2> HIDE DEF new, c, j
  <2>4. QED  BY <1>2, <1>3, <1>4, <2>2, <2>3, DoingSteps
<1>7. QED  BY <1>5, <1>6

LEMMA PayStep ==
    ASSUME IInv, NEW s \in Servers, NEW c \in Conns, Pay(s, c)
    PROVE  IInv'
<1>1. doing[s] = Nothing /\ req[s][c].status = "SEAT"
  BY DEF Pay, Receives, Reads
<1>2. doing' = [doing EXCEPT ![s] = Paying(c)] /\ UNCHANGED <<paid, flock, seat_lock, req, line>>
  BY DEF Pay, Paying
<1>3. Paying(c) \in Doing /\ Paying(c).op = "pay" /\ Paying(c).conn = c
  BY DEF Paying, Doing
<1>4. \E j \in Seats : Holds(s, c, j)
  <2>1. req[s][c].num_of_chosen_seats = Cardinality(Chosen(s, c))
    BY <1>1, NothingIsNeither DEF IInv, CountInv
  <2>2. Chosen(s, c) # {}
    BY <2>1, FS_EmptySet DEF Pay
  <2>3. QED  BY <2>2 DEF Chosen, Holds
<1>5. QED  BY <1>1, <1>2, <1>3, <1>4, NothingIsNeither, DoingSteps

-----------------------------------------------------------------------------
(* Actions that change a request.                                          *)

(* A handler that ends and leaves the seats of the request as they are.    *)
LEMMA SeatsStay ==
    ASSUME IInv, NEW s \in Servers, NEW c \in Conns, NEW new \in Request,
           req' = [req EXCEPT ![s][c] = new],
           UNCHANGED <<paid, flock, seat_lock>>,
           line' \in [Servers -> [Conns -> Line]],
           doing' = [doing EXCEPT ![s] = Nothing],
           \A d \in Conns : doing[s] # Closing(d),
           \A d \in Conns : doing[s] = Paying(d) => d = c,
           new.seat_stat = req[s][c].seat_stat,
           new.num_of_chosen_seats = Cardinality(Chosen(s, c)),
           new.shift_id = NoShift <=> new.status \in {"INVALID", "SHIFT"},
           new.shift_id = req[s][c].shift_id \/ \A j \in Seats : ~Holds(s, c, j),
           new.shift_id = NoShift => \A j \in Seats : ~Holds(s, c, j),
           new.status = "BOOKED" => \E j \in Seats : req[s][c].seat_stat[j] = "PAID"
    PROVE  IInv'
<1>1. /\ req' \in [Servers -> [Conns -> Request]]
      /\ req'[s][c] = new
      /\ \A r \in Servers, d \in Conns : r # s \/ d # c => req'[r][d] = req[r][d]
  BY DEF IInv, TypeOK
<1>2. /\ doing' \in [Servers -> Doing]
      /\ doing'[s] = Nothing
      /\ \A r \in Servers : r # s => doing'[r] = doing[r]
  BY DEF IInv, TypeOK, Doing
<1>3. \A r \in Servers, d \in Conns : req'[r][d].seat_stat = req[r][d].seat_stat
  BY <1>1
<1>4. \A r \in Servers, d \in Conns, j \in Seats : Holds(r, d, j)' <=> Holds(r, d, j)
  BY <1>3 DEF Holds
<1>5. TypeOK'
  BY <1>1, <1>2 DEF IInv, TypeOK
<1>6. RequestInv'
  BY <1>1, <1>4 DEF IInv, RequestInv
<1>7. HolderInv'
  <2> SUFFICES ASSUME NEW r \in Servers, NEW d \in Conns, NEW j \in Seats, Holds(r, d, j)'
               PROVE  seat_lock'[r][req'[r][d].shift_id][j] = d \/ doing'[r] = Closing(d)
    BY DEF HolderInv
  <2>1. Holds(r, d, j) /\ req'[r][d].shift_id = req[r][d].shift_id
    BY <1>1, <1>4
  <2>2. seat_lock[r][req[r][d].shift_id][j] = d \/ doing[r] = Closing(d)
    BY <2>1 DEF IInv, HolderInv
  <2>3. QED  BY <2>1, <2>2, <1>2
<1>8. LockInv'
  <2> SUFFICES ASSUME NEW r \in Servers, NEW d \in Conns, NEW t \in Trains, NEW j \in Seats,
                      seat_lock[r][t][j] = d
               PROVE  req'[r][d].shift_id = t /\ Holds(r, d, j)'
    BY DEF LockInv
  <2>1. req[r][d].shift_id = t /\ Holds(r, d, j)
    BY DEF IInv, LockInv
  <2>2. QED  BY <2>1, <1>1, <1>4
<1>9. UniqueInv'
  <2> SUFFICES ASSUME NEW r \in Servers, NEW d \in Conns, NEW e \in Conns, NEW j \in Seats,
                      d # e, req'[r][d].shift_id = req'[r][e].shift_id,
                      Holds(r, d, j), Holds(r, e, j)
               PROVE  FALSE
    BY <1>4 DEF UniqueInv
  <2>1. req[r][d].shift_id = req[r][e].shift_id
    BY <1>1
  <2>2. QED  BY <2>1 DEF IInv, UniqueInv
<1>10. DoingInv'
  <2>1. \A r \in Servers : r # s => req'[r] = req[r]
    BY DEF IInv, TypeOK
  <2> DEFINE Right(r) ==
                /\ doing[r].op \in {"getlk", "setlk", "pay"} =>
                      req[r][doing[r].conn].status = "SEAT"
                /\ doing[r].op = "setlk" =>
                      seat_lock[r][req[r][doing[r].conn].shift_id][doing[r].seat] = NoConn
                /\ doing[r].op = "pay" => \E j \in Seats : Holds(r, doing[r].conn, j)
  <2>2. Right(s)'
    BY <1>2 DEF Nothing
  <2>3. ASSUME NEW r \in Servers, r # s PROVE Right(r)'
    <3>1. doing'[r] = doing[r] /\ seat_lock'[r] = seat_lock[r] /\ req'[r] = req[r]
      BY <1>2, <2>1, <2>3
    <3>2. Right(r)
      BY DEF IInv, DoingInv
    <3>3. \A d, j : Holds(r, d, j)' = Holds(r, d, j)
      BY <3>1 DEF Holds
    <3>4. QED  BY <3>1, <3>2, <3>3
  <2> HIDE DEF Right
  <2>4. \A r \in Servers : Right(r)'
    BY <2>2, <2>3
  <2>5. QED  BY <2>4 DEF DoingInv, Right
<1>11. CountInv'
  <2>1. \A r \in Servers, d \in Conns : Chosen(r, d)' = Chosen(r, d)
    BY <1>3 DEF Chosen
  <2>2. ASSUME NEW d \in Conns, d # c
        PROVE  req[s][d].num_of_chosen_seats = Cardinality(Chosen(s, d))
    BY <2>2 DEF IInv, CountInv
  <2>3. QED  BY <1>1, <1>2, <2>1, <2>2 DEF IInv, CountInv
<1>12. PaidInv'
  <2> SUFFICES ASSUME NEW r \in Servers, NEW d \in Conns
               PROVE  /\ \A j \in Seats : req[r][d].seat_stat[j] = "PAID" =>
                             j \in paid[req'[r][d].shift_id]
                      /\ req'[r][d].status = "BOOKED" =>
                             \E j \in Seats : req[r][d].seat_stat[j] = "PAID"
    BY <1>3 DEF PaidInv
  <2>1. CASE r # s \/ d # c
    BY <2>1, <1>1 DEF IInv, PaidInv
  <2>2. CASE r = s /\ d = c
    BY <2>2, <1>1 DEF IInv, PaidInv, Holds
  <2>3. QED  BY <2>1, <2>2
<1>13. QED
  BY <1>5, <1>6, <1>7, <1>8, <1>9, <1>10, <1>11, <1>12 DEF IInv

LEMMA AcceptStep ==
    ASSUME IInv, NEW s \in Servers, NEW c \in Conns, Accept(s, c)
    PROVE  IInv'
<1> DEFINE new == [req[s][c] EXCEPT !.status = "SHIFT"]
<1>1. req[s][c] \in Request /\ req[s][c].status = "INVALID"
  BY DEF Accept, Open, IInv, TypeOK
<1>2. /\ doing[s] = Nothing
      /\ doing' = [doing EXCEPT ![s] = Nothing]
      /\ UNCHANGED <<paid, flock, seat_lock>>
      /\ req' = [req EXCEPT ![s][c] = new]
  BY DEF Accept, IInv, TypeOK
<1>3. line' \in [Servers -> [Conns -> Line]]
  BY DEF Accept, IInv, TypeOK, InitLine, Line
<1>4. /\ new \in Request
      /\ new.status = "SHIFT"
      /\ new.seat_stat = req[s][c].seat_stat
      /\ new.shift_id = req[s][c].shift_id
      /\ new.num_of_chosen_seats = req[s][c].num_of_chosen_seats
  BY <1>1 DEF Request
<1>5. \A d \in Conns : doing[s] # Closing(d) /\ doing[s] # Paying(d)
  BY <1>2, NothingIsNeither
<1>6. new.num_of_chosen_seats = Cardinality(Chosen(s, c))
  BY <1>4, <1>5 DEF IInv, CountInv
<1>7. req[s][c].shift_id = NoShift /\ \A j \in Seats : ~Holds(s, c, j)
  BY <1>1 DEF IInv, RequestInv
<1> HIDE DEF new
<1>8. QED  BY <1>2, <1>3, <1>4, <1>5, <1>6, <1>7, SeatsStay

LEMMA ChooseShiftStep ==
    ASSUME IInv, NEW s \in Servers, NEW c \in Conns, NEW t \in Trains, ChooseShift(s, c, t)
    PROVE  IInv'
<1> DEFINE new == [req[s][c] EXCEPT !.shift_id = t, !.status = "SEAT"]
<1>1. req[s][c] \in Request /\ req[s][c].status = "SHIFT"
  BY DEF ChooseShift, IInv, TypeOK
<1>2. /\ doing[s] = Nothing
      /\ doing' = [doing EXCEPT ![s] = Nothing]
      /\ UNCHANGED <<paid, flock, seat_lock>>
      /\ req' = [req EXCEPT ![s][c] = new]
  BY DEF ChooseShift, Receives, Reads, IInv, TypeOK
<1>3. line' \in [Servers -> [Conns -> Line]]
  BY DEF ChooseShift, IInv, TypeOK
<1>4. /\ new \in Request
      /\ new.status = "SEAT"
      /\ new.seat_stat = req[s][c].seat_stat
      /\ new.shift_id = t
      /\ new.num_of_chosen_seats = req[s][c].num_of_chosen_seats
  BY <1>1 DEF Request
<1>5. \A d \in Conns : doing[s] # Closing(d) /\ doing[s] # Paying(d)
  BY <1>2, NothingIsNeither
<1>6. new.num_of_chosen_seats = Cardinality(Chosen(s, c))
  BY <1>4, <1>5 DEF IInv, CountInv
<1>7. \A j \in Seats : ~Holds(s, c, j)
  BY <1>1 DEF IInv, RequestInv
<1>8. t # NoShift
  BY TrainAssumption DEF NoShift
<1> HIDE DEF new
<1>9. QED  BY <1>2, <1>3, <1>4, <1>5, <1>6, <1>7, <1>8, SeatsStay

LEMMA BookMoreStep ==
    ASSUME IInv, NEW s \in Servers, NEW c \in Conns, BookMore(s, c)
    PROVE  IInv'
<1> DEFINE new == [req[s][c] EXCEPT !.status = "SEAT"]
<1>1. req[s][c] \in Request /\ req[s][c].status = "BOOKED"
  BY DEF BookMore, IInv, TypeOK
<1>2. /\ doing[s] = Nothing
      /\ doing' = [doing EXCEPT ![s] = Nothing]
      /\ UNCHANGED <<paid, flock, seat_lock>>
      /\ req' = [req EXCEPT ![s][c] = new]
  BY DEF BookMore, Receives, Reads, IInv, TypeOK
<1>3. line' \in [Servers -> [Conns -> Line]]
  BY DEF BookMore, IInv, TypeOK
<1>4. /\ new \in Request
      /\ new.status = "SEAT"
      /\ new.seat_stat = req[s][c].seat_stat
      /\ new.shift_id = req[s][c].shift_id
      /\ new.num_of_chosen_seats = req[s][c].num_of_chosen_seats
  BY <1>1 DEF Request
<1>5. \A d \in Conns : doing[s] # Closing(d) /\ doing[s] # Paying(d)
  BY <1>2, NothingIsNeither
<1>6. new.num_of_chosen_seats = Cardinality(Chosen(s, c))
  BY <1>4, <1>5 DEF IInv, CountInv
<1>7. req[s][c].shift_id # NoShift
  BY <1>1 DEF IInv, RequestInv
<1> HIDE DEF new
<1>8. QED  BY <1>2, <1>3, <1>4, <1>5, <1>6, <1>7, SeatsStay

LEMMA FinishPayingStep ==
    ASSUME IInv, NEW s \in Servers, FinishPaying(s)
    PROVE  IInv'
<1> DEFINE c == doing[s].conn
           new == [req[s][c] EXCEPT !.status = "BOOKED", !.num_of_chosen_seats = 0]
<1>1. doing[s] = Paying(c) /\ c \in Conns /\ req[s][c] \in Request
  BY DoingKinds DEF FinishPaying, Paying, IInv, TypeOK
<1>2. /\ doing' = [doing EXCEPT ![s] = Nothing]
      /\ UNCHANGED <<paid, flock, seat_lock>>
      /\ req' = [req EXCEPT ![s][c] = new]
      /\ line' \in [Servers -> [Conns -> Line]]
      /\ Chosen(s, c) = {}
  BY <1>1 DEF FinishPaying, IInv, TypeOK
<1>3. /\ new \in Request
      /\ new.status = "BOOKED"
      /\ new.seat_stat = req[s][c].seat_stat
      /\ new.shift_id = req[s][c].shift_id
      /\ new.num_of_chosen_seats = 0
  BY <1>1, ZeroIsACount DEF Request
<1>4. \A d \in Conns : doing[s] # Closing(d) /\ (doing[s] = Paying(d) => d = c)
  BY <1>1 DEF Closing, Paying
<1>5. new.num_of_chosen_seats = Cardinality(Chosen(s, c))
  BY <1>2, <1>3, FS_EmptySet
<1>6. /\ req[s][c].status = "SEAT"
      /\ \E j \in Seats : Holds(s, c, j)
  BY <1>1 DEF IInv, DoingInv, Paying
<1>7. req[s][c].shift_id # NoShift
  BY <1>1, <1>6 DEF IInv, RequestInv
<1>8. \E j \in Seats : req[s][c].seat_stat[j] = "PAID"
  BY <1>1, <1>2, <1>6 DEF Holds, Chosen, Request
<1> HIDE DEF new, c
<1>9. QED  BY <1>1, <1>2, <1>3, <1>4, <1>5, <1>7, <1>8, SeatsStay

(* A seat goes from CHOSEN to PAID and is written down.                    *)
LEMMA PaySeatStep ==
    ASSUME IInv, NEW s \in Servers, PaySeat(s)
    PROVE  IInv'
<1> DEFINE c == doing[s].conn
           t == req[s][c].shift_id
           stat(j) == [req[s][c].seat_stat EXCEPT ![j] = "PAID"]
           new(j) == [req[s][c] EXCEPT !.seat_stat = stat(j), !.num_of_chosen_seats = 0]
<1>1. doing[s] = Paying(c) /\ c \in Conns /\ req[s][c] \in Request
  BY DoingKinds DEF PaySeat, Paying, IInv, TypeOK
<1>2. PICK j \in Seats :
        /\ j \in Chosen(s, c)
        /\ req' = [req EXCEPT ![s][c].seat_stat[j] = "PAID", ![s][c].num_of_chosen_seats = 0]
        /\ paid' = [paid EXCEPT ![t] = paid[t] \cup {j}]
  BY DEF PaySeat, IsFirst
<1>3. UNCHANGED <<flock, seat_lock, line, doing>>
  BY DEF PaySeat
<1>4. new(j) \in Request
  BY <1>1, ZeroIsACount DEF Request
<1>5. /\ req' \in [Servers -> [Conns -> Request]]
       /\ req'[s][c] = new(j)
       /\ \A r \in Servers, d \in Conns : r # s \/ d # c => req'[r][d] = req[r][d]
  <2>1. req' = [req EXCEPT ![s][c] = new(j)]
    BY <1>2
  <2> HIDE DEF new, c
  <2>2. QED  BY <2>1, <1>1, <1>4 DEF IInv, TypeOK
<1>6. /\ req'[s][c].status = req[s][c].status
      /\ req'[s][c].shift_id = t
      /\ req'[s][c].num_of_chosen_seats = 0
      /\ req'[s][c].seat_stat = stat(j)
  BY <1>1, <1>5 DEF Request
<1>7. t \in Trains /\ req[s][c].status = "SEAT"
  BY <1>1 DEF IInv, DoingInv, RequestInv, Request, Paying
<1>8. /\ paid' \in [Trains -> SUBSET Seats]
      /\ j \in paid'[t]
      /\ \A u \in Trains : paid[u] \subseteq paid'[u]
  BY <1>2, <1>7 DEF IInv, TypeOK
<1>9. req[s][c].seat_stat[j] = "CHOSEN"
  BY <1>2 DEF Chosen
<1> HIDE DEF t, c, new
<1>10. \A r \in Servers, d \in Conns :
        /\ req'[r][d].status = req[r][d].status
        /\ req'[r][d].shift_id = req[r][d].shift_id
        /\ \A k \in Seats : Holds(r, d, k)' <=> Holds(r, d, k)
  <2> SUFFICES ASSUME NEW r \in Servers, NEW d \in Conns
               PROVE  /\ req'[r][d].status = req[r][d].status
                      /\ req'[r][d].shift_id = req[r][d].shift_id
                      /\ \A k \in Seats : Holds(r, d, k)' <=> Holds(r, d, k)
    OBVIOUS
  <2>1. CASE r = s /\ d = c
    BY <2>1, <1>1, <1>6, <1>9 DEF Holds, Request, t
  <2>2. CASE r # s \/ d # c
    BY <2>2, <1>5 DEF Holds
  <2>3. QED  BY <2>1, <2>2
<1>11. TypeOK'
  BY <1>5, <1>3, <1>8 DEF IInv, TypeOK
<1>12. RequestInv' /\ HolderInv' /\ LockInv'
  BY <1>10, <1>3 DEF IInv, RequestInv, HolderInv, LockInv
<1>13. UniqueInv'
  BY <1>10 DEF IInv, UniqueInv
<1>14. DoingInv'
  BY <1>10, <1>3, DoingKinds DEF IInv, DoingInv
<1>15. CountInv'
  <2> SUFFICES ASSUME NEW r \in Servers, NEW d \in Conns
               PROVE  \/ req'[r][d].num_of_chosen_seats = Cardinality(Chosen(r, d)')
                      \/ req'[r][d].num_of_chosen_seats = 0 /\ doing[r] = Paying(d)
    BY <1>3 DEF CountInv
  <2>1. CASE r = s /\ d = c
    BY <2>1, <1>1, <1>6
  <2>2. CASE r # s \/ d # c
    <3>1. Chosen(r, d)' = Chosen(r, d)
      BY <2>2, <1>5 DEF Chosen
    <3>2. QED  BY <2>2, <3>1, <1>5 DEF IInv, CountInv
  <2>3. QED  BY <2>1, <2>2
<1>16. PaidInv'
  <2> SUFFICES ASSUME NEW r \in Servers, NEW d \in Conns
               PROVE  /\ \A k \in Seats : req'[r][d].seat_stat[k] = "PAID" =>
                             k \in paid'[req'[r][d].shift_id]
                      /\ req'[r][d].status = "BOOKED" =>
                             \E k \in Seats : req'[r][d].seat_stat[k] = "PAID"
    BY DEF PaidInv
  <2>1. CASE r = s /\ d = c
    BY <2>1, <1>1, <1>6, <1>7, <1>8 DEF IInv, PaidInv, Request, t
  <2>2. CASE r # s \/ d # c
    <3>1. \A k \in Seats : req[r][d].seat_stat[k] = "PAID" => req[r][d].shift_id \in Trains
      BY DEF IInv, RequestInv, Holds, TypeOK, Request
    <3>2. QED  BY <2>2, <3>1, <1>5, <1>8 DEF IInv, PaidInv
  <2>3. QED  BY <2>1, <2>2
<1>17. QED
  BY <1>11, <1>12, <1>13, <1>14, <1>15, <1>16 DEF IInv

(* A seat that the request holds becomes free.                             *)
LEMMA CancelStep ==
    ASSUME IInv, NEW s \in Servers, Cancel(s)
    PROVE  IInv'
<1>1. PICK c \in Conns, j \in Seats : doing[s] = [op |-> "getlk", conn |-> c, seat |-> j]
  BY DoingKinds DEF Cancel, CancelTo
<1>2. PICK t \in Trains : t = req[s][c].shift_id /\ req[s][c].status = "SEAT"
  BY <1>1, DoingHasShift
<1> DEFINE stat == [req[s][c].seat_stat EXCEPT ![j] = "UNKNOWN"]
           num == req[s][c].num_of_chosen_seats - 1
           new == [req[s][c] EXCEPT !.seat_stat = stat, !.num_of_chosen_seats = num]
<1>3. /\ req[s][c] \in Request
      /\ req[s][c].seat_stat[j] = "CHOSEN"
      /\ \A d \in Conns : doing[s] # Closing(d) /\ doing[s] # Paying(d)
  BY <1>1 DEF Cancel, CancelTo, IInv, TypeOK, Closing, Paying
<1>4. /\ req' = [req EXCEPT ![s][c] = new]
      /\ seat_lock' = [seat_lock EXCEPT ![s][t][j] = NoConn]
      /\ ClearLock(s, t, j)
      /\ doing' = [doing EXCEPT ![s] = Nothing]
      /\ UNCHANGED <<paid, line>>
  <2>1. doing[s].conn = c /\ doing[s].seat = j /\ req[s][c].shift_id = t
    BY <1>1, <1>2
  <2>2. [d \in Conns |-> req[s][d].num_of_chosen_seats - 1][c] = num
    OBVIOUS
  <2>3. QED  BY <2>1, <2>2 DEF Cancel, CancelTo
<1>5. /\ IsFiniteSet(Chosen(s, c))
      /\ Cardinality(Chosen(s, c)) \in 0..SEAT_NUM
      /\ req[s][c].num_of_chosen_seats = Cardinality(Chosen(s, c))
      /\ Cardinality(Chosen(s, c) \ {j}) = num
      /\ num \in 0..SEAT_NUM
  <2>1. j \in Chosen(s, c)
    BY <1>3 DEF Chosen
  <2>2. req[s][c].num_of_chosen_seats = Cardinality(Chosen(s, c))
    BY <1>3 DEF IInv, CountInv
  <2>3. /\ Cardinality(Chosen(s, c) \ {j}) = Cardinality(Chosen(s, c)) - 1
        /\ Cardinality(Chosen(s, c) \ {j}) \in 0..SEAT_NUM
    BY <2>1, <1>3, ChosenAreSeats, SeatsAreFinite, FS_RemoveElement
  <2>4. QED  BY <2>2, <2>3, <1>3, ChosenAreSeats
<1>6. /\ new \in Request
      /\ new.status = "SEAT"
      /\ new.shift_id = t
      /\ new.num_of_chosen_seats = num
      /\ new.seat_stat[j] = "UNKNOWN"
      /\ \A k \in Seats : k # j => new.seat_stat[k] = req[s][c].seat_stat[k]
  BY <1>3, <1>2, <1>5 DEF Request
<1> HIDE DEF new, stat, num
<1>7. /\ req' \in [Servers -> [Conns -> Request]]
      /\ req'[s][c] = new
      /\ \A r \in Servers, d \in Conns : r # s \/ d # c => req'[r][d] = req[r][d]
  BY <1>3, <1>4, <1>6 DEF IInv, TypeOK
<1>8. /\ seat_lock' \in [Servers -> [Trains -> [Seats -> Conns \cup {NoConn}]]]
      /\ seat_lock'[s][t][j] = NoConn
      /\ \A r \in Servers, u \in Trains, k \in Seats :
            r # s \/ u # t \/ k # j => seat_lock'[r][u][k] = seat_lock[r][u][k]
  BY <1>3, <1>4, <1>2 DEF IInv, TypeOK
<1>9. /\ doing' \in [Servers -> Doing]
      /\ doing'[s] = Nothing
      /\ \A r \in Servers : r # s => doing'[r] = doing[r]
  BY <1>4 DEF IInv, TypeOK, Doing
<1>10. \A r \in Servers, d \in Conns :
        /\ req'[r][d].status = req[r][d].status
        /\ req'[r][d].shift_id = req[r][d].shift_id
        /\ \A k \in Seats : Holds(r, d, k)' => Holds(r, d, k)
  BY <1>2, <1>6, <1>7 DEF Holds
<1>11. ~Holds(s, c, j)' /\ Holds(s, c, j)
  BY <1>3, <1>6, <1>7 DEF Holds
<1>12. TypeOK'
  <2>1. flock' \in [Trains -> [Seats -> Servers \cup {Nobody}]]
    BY <1>3, <1>4, <1>2 DEF ClearLock, IInv, TypeOK
  <2>2. QED  BY <2>1, <1>4, <1>7, <1>8, <1>9 DEF IInv, TypeOK
<1>13. RequestInv'
  BY <1>10 DEF IInv, RequestInv
<1>14. NoConn \notin Conns
  BY TrainAssumption DEF NoConn
<1>15. HolderInv'
  <2> SUFFICES ASSUME NEW r \in Servers, NEW d \in Conns, NEW k \in Seats, Holds(r, d, k)'
               PROVE  seat_lock'[r][req[r][d].shift_id][k] = d \/ doing'[r] = Closing(d)
    BY <1>10 DEF HolderInv
  <2>1. /\ seat_lock[r][req[r][d].shift_id][k] = d \/ doing[r] = Closing(d)
        /\ req[r][d].shift_id \in Trains
    BY <1>10 DEF IInv, HolderInv, RequestInv, TypeOK, Request
  <2>2. CASE r # s
    BY <2>1, <2>2, <1>8, <1>9
  <2>3. CASE r = s /\ (k # j \/ req[r][d].shift_id # t)
    BY <2>1, <2>3, <1>3, <1>8
  <2>4. CASE r = s /\ k = j /\ req[r][d].shift_id = t
    BY <2>4, <1>2, <1>10, <1>11 DEF IInv, UniqueInv
  <2>5. QED  BY <2>2, <2>3, <2>4
<1>16. LockInv'
  <2> SUFFICES ASSUME NEW r \in Servers, NEW d \in Conns, NEW u \in Trains, NEW k \in Seats,
                      seat_lock'[r][u][k] = d
               PROVE  req[r][d].shift_id = u /\ Holds(r, d, k)'
    BY <1>10 DEF LockInv
  <2>1. r # s \/ u # t \/ k # j
    BY <1>8, <1>14
  <2>2. req[r][d].shift_id = u /\ Holds(r, d, k)
    <3>1. seat_lock[r][u][k] = d
      BY <2>1, <1>8
    <3>2. QED  BY <3>1 DEF IInv, LockInv
  <2>3. CASE r = s /\ d = c
    BY <2>1, <2>2, <2>3, <1>2, <1>6, <1>7 DEF Holds
  <2>4. CASE r # s \/ d # c
    BY <2>2, <2>4, <1>7 DEF Holds
  <2>5. QED  BY <2>2, <2>3, <2>4
<1>17. UniqueInv'
  BY <1>10 DEF IInv, UniqueInv
<1>18. DoingInv'
  <2> SUFFICES ASSUME NEW r \in Servers, r # s
               PROVE  /\ doing[r].op \in {"getlk", "setlk", "pay"} =>
                            req'[r][doing[r].conn].status = "SEAT"
                      /\ doing[r].op = "setlk" =>
                            seat_lock'[r][req'[r][doing[r].conn].shift_id][doing[r].seat] = NoConn
                      /\ doing[r].op = "pay" => \E k \in Seats : Holds(r, doing[r].conn, k)'
    BY <1>9 DEF DoingInv, Nothing
  <2>1. req'[r] = req[r] /\ seat_lock'[r] = seat_lock[r]
    BY <1>4 DEF IInv, TypeOK
  <2>2. QED  BY <2>1, <1>9 DEF IInv, DoingInv, Holds
<1>19. CountInv'
  <2> SUFFICES ASSUME NEW r \in Servers, NEW d \in Conns
               PROVE  \/ req'[r][d].num_of_chosen_seats = Cardinality(Chosen(r, d)')
                      \/ req'[r][d].num_of_chosen_seats = 0 /\ doing'[r] = Paying(d)
    BY DEF CountInv
  <2>1. CASE r = s /\ d = c
    <3>1. Chosen(s, c)' = Chosen(s, c) \ {j}
      BY <1>6, <1>7 DEF Chosen
    <3>2. QED  BY <2>1, <3>1, <1>5, <1>6, <1>7
  <2>2. CASE r # s \/ d # c
    <3>1. Chosen(r, d)' = Chosen(r, d)
      BY <2>2, <1>7 DEF Chosen
    <3>2. QED  BY <2>2, <3>1, <1>3, <1>7, <1>9 DEF IInv, CountInv
  <2>3. QED  BY <2>1, <2>2
<1>20. PaidInv'
  <2> SUFFICES ASSUME NEW r \in Servers, NEW d \in Conns
               PROVE  /\ \A k \in Seats : req'[r][d].seat_stat[k] = "PAID" =>
                             k \in paid[req[r][d].shift_id]
                      /\ req[r][d].status = "BOOKED" =>
                             \E k \in Seats : req'[r][d].seat_stat[k] = "PAID"
    BY <1>4, <1>10 DEF PaidInv
  <2>1. CASE r = s /\ d = c
    BY <2>1, <1>2, <1>6, <1>7 DEF IInv, PaidInv
  <2>2. CASE r # s \/ d # c
    BY <2>2, <1>7 DEF IInv, PaidInv
  <2>3. QED  BY <2>1, <2>2
<1>21. QED
  BY <1>12, <1>13, <1>15, <1>16, <1>17, <1>18, <1>19, <1>20 DEF IInv

(* A free seat goes to the request.                                        *)
LEMMA ChooseSeatStep ==
    ASSUME IInv, NEW s \in Servers, ChooseSeat(s)
    PROVE  IInv'
<1>1. PICK c \in Conns, j \in Seats : doing[s] = [op |-> "setlk", conn |-> c, seat |-> j]
  BY DoingKinds DEF ChooseSeat
<1>2. PICK t \in Trains : t = req[s][c].shift_id /\ req[s][c].status = "SEAT"
  BY <1>1, DoingHasShift
<1> DEFINE stat == [req[s][c].seat_stat EXCEPT ![j] = "CHOSEN"]
           num == req[s][c].num_of_chosen_seats + 1
           new == [req[s][c] EXCEPT !.seat_stat = stat, !.num_of_chosen_seats = num]
<1>3. /\ req[s][c] \in Request
      /\ seat_lock[s][t][j] = NoConn
      /\ \A d \in Conns : doing[s] # Closing(d) /\ doing[s] # Paying(d)
  <2>1. req[s][c] \in Request
    BY DEF IInv, TypeOK
  <2>2. seat_lock[s][t][j] = NoConn
    <3>1. doing[s].op = "setlk" /\ doing[s].conn = c /\ doing[s].seat = j
      BY <1>1
    <3>2. QED  BY <3>1, <1>2 DEF IInv, DoingInv
  <2>3. QED  BY <2>1, <2>2, <1>1 DEF Closing, Paying
<1>4. /\ req' = [req EXCEPT ![s][c] = new]
      /\ seat_lock' = [seat_lock EXCEPT ![s][t][j] = c]
      /\ SetLock(s, t, j)
      /\ doing' = [doing EXCEPT ![s] = Nothing]
      /\ UNCHANGED <<paid, line>>
  <2>1. doing[s].conn = c /\ doing[s].seat = j /\ req[s][c].shift_id = t
    BY <1>1, <1>2
  <2>2. QED  BY <2>1 DEF ChooseSeat
<1>5. NoConn \notin Conns
  BY TrainAssumption DEF NoConn
<1>6. \A d \in Conns : req[s][d].shift_id = t => ~Holds(s, d, j)
  BY <1>3, <1>5 DEF IInv, HolderInv
<1>7. /\ Cardinality(Chosen(s, c) \cup {j}) = num
      /\ num \in 0..SEAT_NUM
  <2>1. j \notin Chosen(s, c)
    BY <1>2, <1>6 DEF Chosen, Holds
  <2>2. req[s][c].num_of_chosen_seats = Cardinality(Chosen(s, c))
    BY <1>3 DEF IInv, CountInv
  <2>3. Chosen(s, c) \cup {j} \in SUBSET Seats
    BY DEF Chosen
  <2>4. /\ Cardinality(Chosen(s, c) \cup {j}) = Cardinality(Chosen(s, c)) + 1
        /\ Cardinality(Chosen(s, c) \cup {j}) \in 0..SEAT_NUM
    BY <2>1, <2>3, ChosenAreSeats, SeatsAreFinite, FS_AddElement
  <2>5. QED  BY <2>2, <2>4
<1>8. /\ new \in Request
      /\ new.status = "SEAT"
      /\ new.shift_id = t
      /\ new.num_of_chosen_seats = num
      /\ new.seat_stat[j] = "CHOSEN"
      /\ \A k \in Seats : k # j => new.seat_stat[k] = req[s][c].seat_stat[k]
  BY <1>3, <1>2, <1>7 DEF Request
<1> HIDE DEF new, stat, num
<1>9. /\ req' \in [Servers -> [Conns -> Request]]
      /\ req'[s][c] = new
      /\ \A r \in Servers, d \in Conns : r # s \/ d # c => req'[r][d] = req[r][d]
  BY <1>4, <1>8 DEF IInv, TypeOK
<1>10. /\ seat_lock' \in [Servers -> [Trains -> [Seats -> Conns \cup {NoConn}]]]
      /\ seat_lock'[s][t][j] = c
      /\ \A r \in Servers, u \in Trains, k \in Seats :
            r # s \/ u # t \/ k # j => seat_lock'[r][u][k] = seat_lock[r][u][k]
  BY <1>4 DEF IInv, TypeOK
<1>11. /\ doing' \in [Servers -> Doing]
      /\ doing'[s] = Nothing
      /\ \A r \in Servers : r # s => doing'[r] = doing[r]
  BY <1>4 DEF IInv, TypeOK, Doing
<1>12. \A r \in Servers, d \in Conns :
         /\ req'[r][d].status = req[r][d].status
         /\ req'[r][d].shift_id = req[r][d].shift_id
         /\ \A k \in Seats : r # s \/ d # c \/ k # j => (Holds(r, d, k)' <=> Holds(r, d, k))
  BY <1>2, <1>8, <1>9 DEF Holds
<1>13. Holds(s, c, j)'
  BY <1>8, <1>9 DEF Holds
<1>14. TypeOK'
  <2>1. flock' \in [Trains -> [Seats -> Servers \cup {Nobody}]]
    BY <1>4 DEF SetLock, IInv, TypeOK
  <2>2. QED  BY <2>1, <1>4, <1>9, <1>10, <1>11 DEF IInv, TypeOK
<1>15. RequestInv'
  <2>1. t # NoShift
    BY TrainAssumption DEF NoShift
  <2>2. QED  BY <2>1, <1>2, <1>12 DEF IInv, RequestInv
<1>16. HolderInv'
  <2> SUFFICES ASSUME NEW r \in Servers, NEW d \in Conns, NEW k \in Seats, Holds(r, d, k)'
               PROVE  seat_lock'[r][req[r][d].shift_id][k] = d \/ doing'[r] = Closing(d)
    BY <1>12 DEF HolderInv
  <2>1. CASE r = s /\ d = c /\ k = j
    BY <2>1, <1>2, <1>10
  <2>2. CASE r # s \/ d # c \/ k # j
    <3>1. /\ Holds(r, d, k)
          /\ seat_lock[r][req[r][d].shift_id][k] = d \/ doing[r] = Closing(d)
          /\ req[r][d].shift_id \in Trains
      BY <2>2, <1>12 DEF IInv, HolderInv, RequestInv, TypeOK, Request
    <3>2. CASE r # s
      BY <3>1, <3>2, <1>10, <1>11
    <3>3. CASE r = s /\ (k # j \/ req[r][d].shift_id # t)
      BY <3>1, <3>3, <1>3, <1>10
    <3>4. CASE r = s /\ k = j /\ req[r][d].shift_id = t
      BY <3>1, <3>4, <1>6
    <3>5. QED  BY <3>2, <3>3, <3>4
  <2>3. QED  BY <2>1, <2>2
<1>17. LockInv'
  <2> SUFFICES ASSUME NEW r \in Servers, NEW d \in Conns, NEW u \in Trains, NEW k \in Seats,
                      seat_lock'[r][u][k] = d
               PROVE  req[r][d].shift_id = u /\ Holds(r, d, k)'
    BY <1>12 DEF LockInv
  <2>1. CASE r = s /\ u = t /\ k = j
    BY <2>1, <1>2, <1>10, <1>13
  <2>2. CASE r # s \/ u # t \/ k # j
    <3>1. seat_lock[r][u][k] = d
      BY <2>2, <1>10
    <3>2. req[r][d].shift_id = u /\ Holds(r, d, k)
      BY <3>1 DEF IInv, LockInv
    <3>3. QED  BY <3>2, <1>12, <1>13
  <2>3. QED  BY <2>1, <2>2
<1>18. UniqueInv'
  <2> SUFFICES ASSUME NEW r \in Servers, NEW d \in Conns, NEW e \in Conns, NEW k \in Seats,
                      d # e, req[r][d].shift_id = req[r][e].shift_id,
                      Holds(r, d, k)', Holds(r, e, k)'
               PROVE  FALSE
    BY <1>12 DEF UniqueInv
  <2>1. ~(Holds(r, d, k) /\ Holds(r, e, k))
    BY DEF IInv, UniqueInv
  <2>2. QED  BY <2>1, <1>2, <1>6, <1>12
<1>19. DoingInv'
  <2> SUFFICES ASSUME NEW r \in Servers, r # s
               PROVE  /\ doing[r].op \in {"getlk", "setlk", "pay"} =>
                            req'[r][doing[r].conn].status = "SEAT"
                      /\ doing[r].op = "setlk" =>
                            seat_lock'[r][req'[r][doing[r].conn].shift_id][doing[r].seat] = NoConn
                      /\ doing[r].op = "pay" => \E k \in Seats : Holds(r, doing[r].conn, k)'
    BY <1>11 DEF DoingInv, Nothing
  <2>1. req'[r] = req[r] /\ seat_lock'[r] = seat_lock[r]
    BY <1>4 DEF IInv, TypeOK
  <2>2. QED  BY <2>1, <1>11 DEF IInv, DoingInv, Holds
<1>20. CountInv'
  <2> SUFFICES ASSUME NEW r \in Servers, NEW d \in Conns
               PROVE  \/ req'[r][d].num_of_chosen_seats = Cardinality(Chosen(r, d)')
                      \/ req'[r][d].num_of_chosen_seats = 0 /\ doing'[r] = Paying(d)
    BY DEF CountInv
  <2>1. CASE r = s /\ d = c
    <3>1. Chosen(s, c)' = Chosen(s, c) \cup {j}
      BY <1>8, <1>9 DEF Chosen
    <3>2. QED  BY <2>1, <3>1, <1>7, <1>8, <1>9
  <2>2. CASE r # s \/ d # c
    <3>1. Chosen(r, d)' = Chosen(r, d)
      BY <2>2, <1>9 DEF Chosen
    <3>2. QED  BY <2>2, <3>1, <1>3, <1>9, <1>11 DEF IInv, CountInv
  <2>3. QED  BY <2>1, <2>2
<1>21. PaidInv'
  <2> SUFFICES ASSUME NEW r \in Servers, NEW d \in Conns
               PROVE  /\ \A k \in Seats : req'[r][d].seat_stat[k] = "PAID" =>
                             k \in paid[req[r][d].shift_id]
                      /\ req[r][d].status = "BOOKED" =>
                             \E k \in Seats : req'[r][d].seat_stat[k] = "PAID"
    BY <1>4, <1>12 DEF PaidInv
  <2>1. CASE r = s /\ d = c
    BY <2>1, <1>2, <1>8, <1>9 DEF IInv, PaidInv
  <2>2. CASE r # s \/ d # c
    BY <2>2, <1>9 DEF IInv, PaidInv
  <2>3. QED  BY <2>1, <2>2
<1>22. QED
  BY <1>14, <1>15, <1>16, <1>17, <1>18, <1>19, <1>20, <1>21 DEF IInv

(* A connection that is being closed gives a seat back.                    *)
LEMMA UnlockSeatStep ==
    ASSUME IInv, NEW s \in Servers, UnlockSeat(s)
    PROVE  IInv'
<1>1. PICK c \in Conns : doing[s] = Closing(c)
  BY DoingKinds DEF UnlockSeat, Closing
<1>2. PICK j \in Seats :
        /\ j \in Locked(s, c)
        /\ seat_lock' = [seat_lock EXCEPT ![s][req[s][c].shift_id][j] = NoConn]
        /\ ClearLock(s, req[s][c].shift_id, j)
  <2>1. doing[s].conn = c
    BY <1>1 DEF Closing
  <2>2. QED  BY <2>1 DEF UnlockSeat, IsFirst
<1>3. UNCHANGED <<paid, req, line, doing>>
  BY DEF UnlockSeat
<1>4. PICK t \in Trains : t = req[s][c].shift_id
  BY <1>2 DEF Locked, IInv, TypeOK, Request
<1>5. /\ seat_lock[s][t][j] = c
      /\ seat_lock' = [seat_lock EXCEPT ![s][t][j] = NoConn]
      /\ ClearLock(s, t, j)
  BY <1>2, <1>4 DEF Locked
<1>6. /\ seat_lock' \in [Servers -> [Trains -> [Seats -> Conns \cup {NoConn}]]]
      /\ seat_lock'[s][t][j] = NoConn
      /\ \A r \in Servers, u \in Trains, k \in Seats :
            r # s \/ u # t \/ k # j => seat_lock'[r][u][k] = seat_lock[r][u][k]
  BY <1>5 DEF IInv, TypeOK
<1>7. TypeOK'
  <2>1. flock' \in [Trains -> [Seats -> Servers \cup {Nobody}]]
    BY <1>5 DEF ClearLock, IInv, TypeOK
  <2>2. QED  BY <2>1, <1>3, <1>6 DEF IInv, TypeOK
<1>8. RequestInv' /\ UniqueInv' /\ CountInv' /\ PaidInv'
  <2>1. RequestInv' /\ UniqueInv' /\ PaidInv'
    BY <1>3 DEF IInv, RequestInv, UniqueInv, PaidInv, Holds
  <2>2. CountInv'
    BY <1>3 DEF IInv, CountInv, Chosen
  <2>3. QED  BY <2>1, <2>2
<1>9. HolderInv'
  <2> SUFFICES ASSUME NEW r \in Servers, NEW d \in Conns, NEW k \in Seats, Holds(r, d, k)
               PROVE  seat_lock'[r][req[r][d].shift_id][k] = d \/ doing[r] = Closing(d)
    BY <1>3 DEF HolderInv, Holds
  <2>1. /\ seat_lock[r][req[r][d].shift_id][k] = d \/ doing[r] = Closing(d)
        /\ req[r][d].shift_id \in Trains
    BY DEF IInv, HolderInv, RequestInv, TypeOK, Request
  <2>2. CASE r = s /\ req[r][d].shift_id = t /\ k = j
    BY <2>1, <2>2, <1>1, <1>5
  <2>3. CASE r # s \/ req[r][d].shift_id # t \/ k # j
    BY <2>1, <2>3, <1>6
  <2>4. QED  BY <2>2, <2>3
<1>10. NoConn \notin Conns
  BY TrainAssumption DEF NoConn
<1>11. LockInv'
  <2> SUFFICES ASSUME NEW r \in Servers, NEW d \in Conns, NEW u \in Trains, NEW k \in Seats,
                      seat_lock'[r][u][k] = d
               PROVE  req[r][d].shift_id = u /\ Holds(r, d, k)
    BY <1>3 DEF LockInv, Holds
  <2>1. seat_lock[r][u][k] = d
    BY <1>6, <1>10
  <2>2. QED  BY <2>1 DEF IInv, LockInv
<1>12. DoingInv'
  <2>1. \A r \in Servers : r # s => seat_lock'[r] = seat_lock[r]
    BY <1>5 DEF IInv, TypeOK
  <2>2. doing[s].op = "close"
    BY DEF UnlockSeat
  <2>3. QED  BY <2>1, <2>2, <1>3 DEF IInv, DoingInv, Holds
<1>13. QED
  BY <1>7, <1>8, <1>9, <1>11, <1>12 DEF IInv

(* Only now that it has given all its seats back it is forgotten.          *)
LEMMA CloseStep ==
    ASSUME IInv, NEW s \in Servers, Close(s)
    PROVE  IInv'
<1>1. PICK c \in Conns : doing[s] = Closing(c)
  BY DoingKinds DEF Close, Closing
<1>2. /\ Locked(s, c) = {}
      /\ req' = [req EXCEPT ![s][c] = InitRequest]
      /\ line' = [line EXCEPT ![s][c] = InitLine]
      /\ doing' = [doing EXCEPT ![s] = Nothing]
      /\ UNCHANGED <<paid, flock, seat_lock>>
  BY <1>1 DEF Close, Closing
<1>3. /\ req' \in [Servers -> [Conns -> Request]]
      /\ req'[s][c] = InitRequest
      /\ \A r \in Servers, d \in Conns : r # s \/ d # c => req'[r][d] = req[r][d]
  BY <1>2, InitRequestIsOne DEF IInv, TypeOK
<1>4. /\ doing' \in [Servers -> Doing]
      /\ doing'[s] = Nothing
      /\ \A r \in Servers : r # s => doing'[r] = doing[r]
  BY <1>2 DEF IInv, TypeOK, Doing
<1>5. \A d \in Conns : d # c => doing[s] # Closing(d) /\ doing[s] # Paying(d)
  BY <1>1 DEF Closing, Paying
<1>6. TypeOK'
  <2>1. line' \in [Servers -> [Conns -> Line]]
    BY <1>2 DEF IInv, TypeOK, InitLine, Line
  <2>2. QED  BY <2>1, <1>2, <1>3, <1>4 DEF IInv, TypeOK
<1>7. \A k \in Seats : ~Holds(s, c, k)'
  BY <1>3 DEF Holds, InitRequest
<1>8. \A r \in Servers, d \in Conns, k \in Seats :
         r # s \/ d # c => (Holds(r, d, k)' <=> Holds(r, d, k))
  BY <1>3 DEF Holds
<1>9. RequestInv'
  BY <1>3, <1>7, <1>8 DEF IInv, RequestInv, InitRequest
<1>10. HolderInv'
  BY <1>2, <1>3, <1>4, <1>5, <1>7, <1>8 DEF IInv, HolderInv
<1>11. LockInv'
  <2> SUFFICES ASSUME NEW r \in Servers, NEW d \in Conns, NEW u \in Trains, NEW k \in Seats,
                      seat_lock[r][u][k] = d
               PROVE  req'[r][d].shift_id = u /\ Holds(r, d, k)'
    BY <1>2 DEF LockInv
  <2>1. req[r][d].shift_id = u /\ Holds(r, d, k)
    BY DEF IInv, LockInv
  <2>2. u # NoShift
    BY TrainAssumption DEF NoShift
  <2>3. r # s \/ d # c
    BY <2>1, <2>2, <1>2 DEF Locked
  <2>4. QED  BY <2>1, <2>3, <1>3, <1>8
<1>12. UniqueInv'
  <2> SUFFICES ASSUME NEW r \in Servers, NEW d \in Conns, NEW e \in Conns, NEW k \in Seats,
                      d # e, req'[r][d].shift_id = req'[r][e].shift_id,
                      Holds(r, d, k)', Holds(r, e, k)'
               PROVE  FALSE
    BY DEF UniqueInv
  <2>1. r # s \/ (d # c /\ e # c)
    BY <1>7
  <2>2. QED  BY <2>1, <1>3, <1>8 DEF IInv, UniqueInv
<1>13. DoingInv'
  <2>1. \A r \in Servers : r # s => req'[r] = req[r]
    BY <1>2 DEF IInv, TypeOK
  <2>2. QED  BY <2>1, <1>2, <1>4 DEF IInv, DoingInv, Nothing, Holds
<1>14. CountInv'
  <2> SUFFICES ASSUME NEW r \in Servers, NEW d \in Conns
               PROVE  \/ req'[r][d].num_of_chosen_seats = Cardinality(Chosen(r, d)')
                      \/ req'[r][d].num_of_chosen_seats = 0 /\ doing'[r] = Paying(d)
    BY DEF CountInv
  <2>1. CASE r = s /\ d = c
    <3>1. Chosen(s, c)' = {} /\ InitRequest.num_of_chosen_seats = 0
      BY <1>3 DEF Chosen, InitRequest
    <3>2. QED  BY <2>1, <3>1, <1>3, FS_EmptySet
  <2>2. CASE r # s \/ d # c
    <3>1. Chosen(r, d)' = Chosen(r, d)
      BY <2>2, <1>3 DEF Chosen
    <3>2. QED  BY <2>2, <3>1, <1>3, <1>4, <1>5 DEF IInv, CountInv
  <2>3. QED  BY <2>1, <2>2
<1>15. PaidInv'
  BY <1>2, <1>3 DEF IInv, PaidInv, InitRequest
<1>16. QED
  BY <1>6, <1>9, <1>10, <1>11, <1>12, <1>13, <1>14, <1>15 DEF IInv

(* A server that starts again has nothing, and the others keep what they   *)
(* have; what is written in the files stays.                               *)
LEMMA CrashStep ==
    ASSUME IInv, NEW s \in Servers, Crash(s)
    PROVE  IInv'
<1>1. /\ req' \in [Servers -> [Conns -> Request]]
      /\ \A d \in Conns : req'[s][d] = InitRequest
      /\ \A r \in Servers : r # s => req'[r] = req[r]
  BY InitRequestIsOne DEF Crash, IInv, TypeOK
<1>2. /\ seat_lock' \in [Servers -> [Trains -> [Seats -> Conns \cup {NoConn}]]]
      /\ \A u \in Trains, k \in Seats : seat_lock'[s][u][k] = NoConn
      /\ \A r \in Servers : r # s => seat_lock'[r] = seat_lock[r]
  BY DEF Crash, IInv, TypeOK
<1>3. /\ doing' \in [Servers -> Doing]
      /\ doing'[s] = Nothing
      /\ \A r \in Servers : r # s => doing'[r] = doing[r]
  BY DEF Crash, IInv, TypeOK, Doing
<1>4. /\ flock' \in [Trains -> [Seats -> Servers \cup {Nobody}]]
      /\ line' \in [Servers -> [Conns -> Line]]
      /\ paid' = paid
  BY DEF Crash, IInv, TypeOK, InitLine, Line
<1>5. NoConn \notin Conns
  BY TrainAssumption DEF NoConn
<1>6. \A d \in Conns, k \in Seats : ~Holds(s, d, k)'
  BY <1>1 DEF Holds, InitRequest
<1>7. \A r \in Servers, d \in Conns, k \in Seats : r # s => (Holds(r, d, k)' <=> Holds(r, d, k))
  BY <1>1 DEF Holds
<1>8. TypeOK'
  BY <1>1, <1>2, <1>3, <1>4 DEF IInv, TypeOK
<1>9. RequestInv'
  BY <1>1, <1>6, <1>7 DEF IInv, RequestInv, InitRequest
<1>10. HolderInv'
  BY <1>1, <1>2, <1>3, <1>6, <1>7 DEF IInv, HolderInv
<1>11. LockInv'
  <2> SUFFICES ASSUME NEW r \in Servers, NEW d \in Conns, NEW u \in Trains, NEW k \in Seats,
                      seat_lock'[r][u][k] = d
               PROVE  req'[r][d].shift_id = u /\ Holds(r, d, k)'
    BY DEF LockInv
  <2>1. r # s /\ seat_lock[r][u][k] = d
    BY <1>2, <1>5
  <2>2. req[r][d].shift_id = u /\ Holds(r, d, k)
    BY <2>1 DEF IInv, LockInv
  <2>3. QED  BY <2>1, <2>2, <1>1, <1>7
<1>12. UniqueInv'
  BY <1>1, <1>6, <1>7 DEF IInv, UniqueInv
<1>13. DoingInv'
  <2> SUFFICES ASSUME NEW r \in Servers, r # s
               PROVE  /\ doing[r].op \in {"getlk", "setlk", "pay"} =>
                            req'[r][doing[r].conn].status = "SEAT"
                      /\ doing[r].op = "setlk" =>
                            seat_lock'[r][req'[r][doing[r].conn].shift_id][doing[r].seat] = NoConn
                      /\ doing[r].op = "pay" => \E k \in Seats : Holds(r, doing[r].conn, k)'
    BY <1>3 DEF DoingInv, Nothing
  <2>1. QED  BY <1>1, <1>2, <1>3, SMTT(30) DEF IInv, DoingInv, Holds
<1>14. CountInv'
  <2> SUFFICES ASSUME NEW r \in Servers, NEW d \in Conns
               PROVE  \/ req'[r][d].num_of_chosen_seats = Cardinality(Chosen(r, d)')
                      \/ req'[r][d].num_of_chosen_seats = 0 /\ doing'[r] = Paying(d)
    BY DEF CountInv
  <2>1. CASE r = s
    <3>1. Chosen(s, d)' = {} /\ InitRequest.num_of_chosen_seats = 0
      BY <1>1 DEF Chosen, InitRequest
    <3>2. QED  BY <2>1, <3>1, <1>1, FS_EmptySet
  <2>2. CASE r # s
    <3>1. Chosen(r, d)' = Chosen(r, d)
      BY <2>2, <1>1 DEF Chosen
    <3>2. QED  BY <2>2, <3>1, <1>1, <1>3 DEF IInv, CountInv
  <2>3. QED  BY <2>1, <2>2
<1>15. PaidInv'
  <2>1. ASSUME NEW d \in Conns
        PROVE  /\ \A k \in Seats : req'[s][d].seat_stat[k] # "PAID"
               /\ req'[s][d].status # "BOOKED"
    BY <1>1 DEF InitRequest
  <2>2. ASSUME NEW r \in Servers, r # s, NEW d \in Conns
        PROVE  /\ \A k \in Seats : req'[r][d].seat_stat[k] = "PAID" =>
                      k \in paid'[req'[r][d].shift_id]
               /\ req'[r][d].status = "BOOKED" =>
                      \E k \in Seats : req'[r][d].seat_stat[k] = "PAID"
    BY <2>2, <1>1, <1>4 DEF IInv, PaidInv
  <2>3. QED  BY <2>1, <2>2 DEF PaidInv
<1>16. QED
  BY <1>8, <1>9, <1>10, <1>11, <1>12, <1>13, <1>14, <1>15 DEF IInv

-----------------------------------------------------------------------------
(* Every step.                                                             *)
LEMMA EveryStep == IInv /\ [Next]_vars => IInv'
<1> SUFFICES ASSUME IInv, [Next]_vars PROVE IInv'
  OBVIOUS
<1>1. ASSUME UNCHANGED vars PROVE IInv'
  <2>1. TypeOK' /\ RequestInv' /\ HolderInv' /\ LockInv'
    BY <1>1 DEF vars, IInv, TypeOK, RequestInv, HolderInv, LockInv, Holds
  <2>2. UniqueInv' /\ DoingInv' /\ CountInv' /\ PaidInv'
    BY <1>1 DEF vars, IInv, UniqueInv, DoingInv, CountInv, PaidInv, Holds, Chosen
  <2>3. QED  BY <2>1, <2>2 DEF IInv
<1>2. ASSUME NEW s \in Servers, GoOn(s) PROVE IInv'
  BY <1>2, CancelStep, GetLockStep, ChooseSeatStep, PaySeatStep, FinishPayingStep,
     UnlockSeatStep, CloseStep DEF GoOn
<1>3. ASSUME NEW s \in Servers, NEW c \in Conns,
             Handle(s, c) \/ ClientLeaves(s, c) \/ Expire(s, c)
      PROVE  IInv'
  BY <1>3, AcceptStep, ClosingStarts, LineSteps, ChooseShiftStep, CheckBookedStep, PayStep,
     BookMoreStep DEF Handle
<1>4. QED  BY <1>1, <1>2, <1>3, CrashStep DEF Next

LEMMA Invariance == Spec => []IInv
<1>1. QED  BY Initially, EveryStep, PTL DEF Spec

(* The requests, the tables and the files hold what server.h allows, and   *)
(* the count of chosen seats never passes the size of a train.             *)
THEOREM TypeCorrect == Spec => []TypeOK
<1>1. IInv => TypeOK
  BY DEF IInv
<1>2. QED  BY <1>1, Invariance, PTL

(* A client that is told of a successful booking has seats, and they are   *)
(* in the file, whatever the other servers do and whoever crashes.         *)
THEOREM BookingsAreRecorded == Spec => []BookingIsRecorded
<1>1. IInv => BookingIsRecorded
  BY DEF IInv, PaidInv, BookingIsRecorded
<1>2. QED  BY <1>1, Invariance, PTL
-----------------------------------------------------------------------------
(* When there is one server.                                               *)

(* What goes on outside, and the handlers that begin or look at the lock.  *)
LEMMA OneServerLooks ==
    ASSUME IInv, OneServerInv, NEW s \in Servers, Servers = {s},
           UNCHANGED <<paid, flock, seat_lock, req>>,
           doing'[s].op \in {"getlk", "setlk"} =>
               doing'[s].seat \notin paid[req[s][doing'[s].conn].shift_id]
    PROVE  OneServerInv'
<1>1. ChosenInv' /\ FlockInv'
  BY DEF OneServerInv, ChosenInv, FlockInv, Chosen
<1>2. AskedInv'
  BY DEF AskedInv
<1>3. QED  BY <1>1, <1>2 DEF OneServerInv

LEMMA OneServerLookSteps ==
    ASSUME IInv, OneServerInv, NEW s \in Servers, Servers = {s}, NEW c \in Conns,
           \/ ClientLeaves(s, c) \/ Expire(s, c) \/ ReadEof(s, c) \/ TimeOut(s, c) \/ Exit(s, c)
           \/ \E j \in Seats : CheckBooked(s, c, j)
           \/ GetLock(s) \/ Pay(s, c)
    PROVE  OneServerInv'
<1>1. CASE ClientLeaves(s, c) \/ Expire(s, c) \/ ReadEof(s, c)
  <2>1. UNCHANGED <<paid, flock, seat_lock, req, doing>>
    BY <1>1 DEF ClientLeaves, Expire, ReadEof
  <2>2. doing'[s].op \in {"getlk", "setlk"} =>
            doing'[s].seat \notin paid[req[s][doing'[s].conn].shift_id]
    BY <2>1 DEF OneServerInv, AskedInv
  <2>3. QED  BY <2>1, <2>2, OneServerLooks
<1>2. CASE TimeOut(s, c) \/ Exit(s, c)
  <2>1. UNCHANGED <<paid, flock, seat_lock, req>> /\ doing'[s].op = "close"
    BY <1>2 DEF TimeOut, Exit, StartClosing, IInv, TypeOK
  <2>2. QED  BY <2>1, OneServerLooks
<1>3. CASE \E j \in Seats : CheckBooked(s, c, j)
  <2>1. PICK j \in Seats : CheckBooked(s, c, j)
    BY <1>3
  <2>2. /\ UNCHANGED <<paid, flock, seat_lock, req>>
        /\ doing'[s].conn = c /\ doing'[s].seat = j
        /\ j \notin paid[req[s][c].shift_id]
    BY <2>1 DEF CheckBooked, IInv, TypeOK
  <2>3. QED  BY <2>2, OneServerLooks
<1>4. CASE GetLock(s)
  <2>1. PICK d \in Conns, j \in Seats : doing[s] = [op |-> "getlk", conn |-> d, seat |-> j]
    BY <1>4, DoingKinds DEF GetLock
  <2>2. /\ UNCHANGED <<paid, flock, seat_lock, req>>
        /\ doing'[s] = Nothing \/ doing'[s] = [op |-> "setlk", conn |-> d, seat |-> j]
    BY <1>4, <2>1 DEF GetLock, IInv, TypeOK
  <2>3. j \notin paid[req[s][d].shift_id]
    BY <2>1 DEF OneServerInv, AskedInv
  <2>4. QED  BY <2>2, <2>3, OneServerLooks DEF Nothing
<1>5. CASE Pay(s, c)
  <2>1. UNCHANGED <<paid, flock, seat_lock, req>> /\ doing'[s].op = "pay"
    BY <1>5 DEF Pay, IInv, TypeOK
  <2>2. QED  BY <2>1, OneServerLooks
<1>6. QED  BY <1>1, <1>2, <1>3, <1>4, <1>5

(* The handlers that change the state of a request and no seat.            *)
LEMMA OneServerStatusSteps ==
    ASSUME IInv, OneServerInv, NEW s \in Servers, Servers = {s}, NEW c \in Conns,
           \/ Accept(s, c)
           \/ \E t \in Trains : ChooseShift(s, c, t)
           \/ BookMore(s, c)
           \/ FinishPaying(s)
           \/ Close(s)
    PROVE  OneServerInv'
<1>1. /\ UNCHANGED <<paid, flock, seat_lock>>
      /\ doing'[s] = Nothing
  BY DEF Accept, ChooseShift, BookMore, Receives, Reads, FinishPaying, Close, IInv, TypeOK
<1>2. FlockInv'
  BY <1>1 DEF OneServerInv, FlockInv
<1>3. AskedInv'
  BY <1>1 DEF AskedInv, Nothing
<1>4. ASSUME NEW d \in Conns, NEW j \in Seats, req'[s][d].seat_stat[j] = "CHOSEN"
      PROVE  /\ req[s][d].seat_stat[j] = "CHOSEN"
             /\ req'[s][d].shift_id = req[s][d].shift_id
  <2>1. CASE Accept(s, c) \/ BookMore(s, c) \/ FinishPaying(s)
    BY <2>1, <1>4 DEF Accept, BookMore, FinishPaying, IInv, TypeOK, Request
  <2>2. ASSUME NEW t \in Trains, ChooseShift(s, c, t)
        PROVE  /\ req[s][d].seat_stat[j] = "CHOSEN"
               /\ req'[s][d].shift_id = req[s][d].shift_id
    <3>1. req[s][c].status = "SHIFT"
      BY <2>2 DEF ChooseShift
    <3>2. req[s][c].seat_stat[j] = "UNKNOWN"
      BY <3>1 DEF IInv, RequestInv, Holds
    <3>3. /\ req'[s][c].seat_stat = req[s][c].seat_stat
          /\ d # c => req'[s][d] = req[s][d]
      <4> DEFINE new == [req[s][c] EXCEPT !.shift_id = t, !.status = "SEAT"]
      <4>1. req' = [req EXCEPT ![s][c] = new]
        BY <2>2 DEF ChooseShift
      <4>2. new.seat_stat = req[s][c].seat_stat
        BY DEF IInv, TypeOK, Request
      <4> HIDE DEF new
      <4>3. QED  BY <4>1, <4>2 DEF IInv, TypeOK
    <3>4. QED  BY <3>2, <3>3, <1>4
  <2>3. CASE Close(s)
    BY <2>3, <1>4 DEF Close, IInv, TypeOK, InitRequest
  <2>4. QED  BY <2>1, <2>2, <2>3
<1>5. ChosenInv'
  BY <1>1, <1>4 DEF OneServerInv, ChosenInv, Chosen
<1>6. QED  BY <1>2, <1>3, <1>5 DEF OneServerInv

(* A payment is for a seat that nobody else has chosen.                    *)
LEMMA OneServerPaySeat ==
    ASSUME IInv, OneServerInv, NEW s \in Servers, Servers = {s}, PaySeat(s)
    PROVE  OneServerInv'
<1>1. PICK c \in Conns : doing[s] = Paying(c)
  BY DoingKinds DEF PaySeat, Paying
<1>2. PICK t \in Trains : t = req[s][c].shift_id
  BY <1>1, DoingHasShift DEF Paying
<1>3. PICK j \in Seats :
        /\ j \in Chosen(s, c)
        /\ req' = [req EXCEPT ![s][c].seat_stat[j] = "PAID", ![s][c].num_of_chosen_seats = 0]
        /\ paid' = [paid EXCEPT ![t] = paid[t] \cup {j}]
  <2>1. doing[s].conn = c
    BY <1>1 DEF Paying
  <2>2. QED  BY <2>1, <1>2 DEF PaySeat, IsFirst
<1>4. UNCHANGED <<flock, seat_lock, doing>>
  BY DEF PaySeat
<1>5. FlockInv' /\ AskedInv'
  BY <1>1, <1>4 DEF OneServerInv, FlockInv, AskedInv, Paying
<1>6. ASSUME NEW d \in Conns, NEW k \in Seats, req'[s][d].seat_stat[k] = "CHOSEN"
      PROVE  k \notin paid'[req'[s][d].shift_id]
  <2>1. /\ req[s][d].seat_stat[k] = "CHOSEN"
        /\ req'[s][d].shift_id = req[s][d].shift_id
        /\ d = c => k # j
    BY <1>3, <1>6 DEF IInv, TypeOK, Request
  <2>2. k \notin paid[req[s][d].shift_id]
    BY <2>1 DEF OneServerInv, ChosenInv, Chosen
  <2>3. req[s][d].shift_id \in Trains
    BY <2>1 DEF IInv, RequestInv, TypeOK, Request, Holds
  <2>4. ~(req[s][d].shift_id = t /\ k = j)
    BY <1>2, <1>3, <2>1 DEF IInv, UniqueInv, Holds, Chosen
  <2>5. QED  BY <1>3, <2>1, <2>2, <2>3, <2>4 DEF IInv, TypeOK
<1>7. ChosenInv'
  BY <1>6 DEF ChosenInv, Chosen
<1>8. QED  BY <1>5, <1>7 DEF OneServerInv

(* A seat goes back: its record lock is released with its entry.           *)
LEMMA OneServerRelease ==
    ASSUME IInv, OneServerInv, NEW s \in Servers, Servers = {s}, Cancel(s) \/ UnlockSeat(s)
    PROVE  OneServerInv'
<1>1. PICK c \in Conns, t \in Trains, j \in Seats :
        /\ seat_lock' = [seat_lock EXCEPT ![s][t][j] = NoConn]
        /\ ClearLock(s, t, j)
        /\ doing'[s].op \in {"nothing", "close"}
        /\ paid' = paid
        /\ \A d \in Conns : req'[s][d].shift_id = req[s][d].shift_id
        /\ \A d \in Conns, k \in Seats :
              req'[s][d].seat_stat[k] = "CHOSEN" => req[s][d].seat_stat[k] = "CHOSEN"
  <2>1. CASE Cancel(s)
    <3>1. PICK c \in Conns, j \in Seats : doing[s] = [op |-> "getlk", conn |-> c, seat |-> j]
      BY <2>1, DoingKinds DEF Cancel, CancelTo
    <3>2. doing[s].conn = c /\ doing[s].seat = j /\ req[s][c].shift_id \in Trains
      BY <3>1, DoingHasShift
    <3>3. /\ seat_lock' = [seat_lock EXCEPT ![s][req[s][c].shift_id][j] = NoConn]
          /\ ClearLock(s, req[s][c].shift_id, j)
          /\ doing'[s].op = "nothing"
          /\ paid' = paid
      BY <2>1, <3>2 DEF Cancel, CancelTo, IInv, TypeOK, Nothing
    <3>4. /\ \A d \in Conns : req'[s][d].shift_id = req[s][d].shift_id
          /\ \A d \in Conns, k \in Seats :
                req'[s][d].seat_stat[k] = "CHOSEN" => req[s][d].seat_stat[k] = "CHOSEN"
      BY <2>1, <3>2 DEF Cancel, CancelTo, IInv, TypeOK, Request
    <3>5. QED  BY <3>2, <3>3, <3>4
  <2>2. CASE UnlockSeat(s)
    <3>1. PICK c \in Conns : doing[s] = Closing(c)
      BY <2>2, DoingKinds DEF UnlockSeat, Closing
    <3>2. doing[s].conn = c /\ doing[s].op = "close"
      BY <3>1 DEF Closing
    <3>3. PICK j \in Seats :
            /\ j \in Locked(s, c)
            /\ seat_lock' = [seat_lock EXCEPT ![s][req[s][c].shift_id][j] = NoConn]
            /\ ClearLock(s, req[s][c].shift_id, j)
      BY <2>2, <3>2 DEF UnlockSeat, IsFirst
    <3>4. req[s][c].shift_id \in Trains
      BY <3>3 DEF Locked, IInv, TypeOK, Request
    <3>5. UNCHANGED <<paid, req, doing>>
      BY <2>2 DEF UnlockSeat
    <3>6. QED  BY <3>2, <3>3, <3>4, <3>5
  <2>3. QED  BY <2>1, <2>2
<1>2. ChosenInv'
  BY <1>1 DEF OneServerInv, ChosenInv, Chosen
<1>3. AskedInv'
  BY <1>1 DEF AskedInv
<1>4. FlockInv'
  <2>1. ASSUME NEW u \in Trains, NEW k \in Seats, u # t \/ k # j
        PROVE  flock'[u][k] = flock[u][k] /\ seat_lock'[s][u][k] = seat_lock[s][u][k]
    BY <2>1, <1>1 DEF ClearLock, IInv, TypeOK
  <2>2. seat_lock'[s][t][j] = NoConn /\ flock'[t][j] = Nobody
    BY <1>1 DEF ClearLock, IInv, TypeOK
  <2>3. QED  BY <2>1, <2>2 DEF OneServerInv, FlockInv
<1>5. QED  BY <1>2, <1>3, <1>4 DEF OneServerInv

(* A seat is taken: F_SETLK gets the record lock, which nobody has.        *)
LEMMA OneServerChooseSeat ==
    ASSUME IInv, OneServerInv, NEW s \in Servers, Servers = {s}, ChooseSeat(s)
    PROVE  OneServerInv'
<1>1. PICK c \in Conns, j \in Seats : doing[s] = [op |-> "setlk", conn |-> c, seat |-> j]
  BY DoingKinds DEF ChooseSeat
<1>2. PICK t \in Trains : t = req[s][c].shift_id
  BY <1>1, DoingHasShift
<1>3. /\ req' = [req EXCEPT ![s][c].seat_stat[j] = "CHOSEN",
                            ![s][c].num_of_chosen_seats = req[s][c].num_of_chosen_seats + 1]
      /\ seat_lock' = [seat_lock EXCEPT ![s][t][j] = c]
      /\ SetLock(s, t, j)
      /\ doing' = [doing EXCEPT ![s] = Nothing]
      /\ paid' = paid
  <2>1. doing[s].conn = c /\ doing[s].seat = j
    BY <1>1
  <2>2. QED  BY <2>1, <1>2 DEF ChooseSeat
<1>4. j \notin paid[t] /\ seat_lock[s][t][j] = NoConn
  BY <1>1, <1>2 DEF OneServerInv, AskedInv, IInv, DoingInv
<1>5. flock[t][j] = Nobody /\ NoConn \notin Conns
  BY <1>4, TrainAssumption DEF OneServerInv, FlockInv, NoConn
<1>6. AskedInv'
  BY <1>3 DEF AskedInv, IInv, TypeOK, Nothing
<1>7. FlockInv'
  <2>1. flock' = [flock EXCEPT ![t][j] = s]
    BY <1>3, <1>5 DEF SetLock
  <2>2. ASSUME NEW u \in Trains, NEW k \in Seats, u # t \/ k # j
        PROVE  flock'[u][k] = flock[u][k] /\ seat_lock'[s][u][k] = seat_lock[s][u][k]
    BY <2>1, <2>2, <1>3 DEF IInv, TypeOK
  <2>3. seat_lock'[s][t][j] = c /\ flock'[t][j] = s
    BY <2>1, <1>3 DEF IInv, TypeOK
  <2>4. QED  BY <2>2, <2>3, <1>5 DEF OneServerInv, FlockInv
<1>8. ChosenInv'
  <2> SUFFICES ASSUME NEW d \in Conns, NEW k \in Seats, req'[s][d].seat_stat[k] = "CHOSEN"
               PROVE  k \notin paid[req'[s][d].shift_id]
    BY <1>3 DEF ChosenInv, Chosen
  <2>1. /\ req'[s][d].shift_id = req[s][d].shift_id
        /\ d # c \/ k # j => req[s][d].seat_stat[k] = "CHOSEN"
    BY <1>3 DEF IInv, TypeOK, Request
  <2>2. CASE d = c /\ k = j
    BY <2>1, <2>2, <1>2, <1>4
  <2>3. CASE d # c \/ k # j
    BY <2>1, <2>3 DEF OneServerInv, ChosenInv, Chosen
  <2>4. QED  BY <2>2, <2>3
<1>9. QED  BY <1>6, <1>7, <1>8 DEF OneServerInv

LEMMA OneServerCrash ==
    ASSUME IInv, OneServerInv, NEW s \in Servers, Servers = {s}, Crash(s)
    PROVE  OneServerInv'
<1>1. /\ \A d \in Conns : req'[s][d] = InitRequest
      /\ \A u \in Trains, k \in Seats : seat_lock'[s][u][k] = NoConn
      /\ doing'[s] = Nothing
  BY DEF Crash, IInv, TypeOK
<1>2. \A u \in Trains, k \in Seats : flock'[u][k] = Nobody
  BY DEF Crash, IInv, TypeOK
<1>3. ChosenInv'
  BY <1>1 DEF ChosenInv, Chosen, InitRequest
<1>4. AskedInv' /\ FlockInv'
  BY <1>1, <1>2 DEF AskedInv, FlockInv, Nothing
<1>5. QED  BY <1>3, <1>4 DEF OneServerInv

LEMMA OneServerEveryStep ==
    ASSUME NEW s \in Servers, Servers = {s}
    PROVE  IInv /\ OneServerInv /\ [Next]_vars => OneServerInv'
<1> SUFFICES ASSUME IInv, OneServerInv, [Next]_vars PROVE OneServerInv'
  OBVIOUS
<1>1. ASSUME UNCHANGED vars PROVE OneServerInv'
  BY <1>1 DEF vars, OneServerInv, ChosenInv, AskedInv, FlockInv, Chosen
<1>2. ASSUME GoOn(s) PROVE OneServerInv'
  <2>1. PICK c \in Conns : doing[s].conn = c
    BY <1>2, DoingKinds
       DEF GoOn, Cancel, CancelTo, GetLock, ChooseSeat, PaySeat, FinishPaying, UnlockSeat, Close
  <2>2. QED
    BY <1>2, OneServerLookSteps, OneServerStatusSteps, OneServerPaySeat, OneServerRelease,
       OneServerChooseSeat DEF GoOn
<1>3. ASSUME NEW c \in Conns, Handle(s, c) \/ ClientLeaves(s, c) \/ Expire(s, c)
      PROVE  OneServerInv'
  BY <1>3, OneServerLookSteps, OneServerStatusSteps DEF Handle
<1>4. QED  BY <1>1, <1>2, <1>3, OneServerCrash DEF Next

LEMMA OneServerInitially == Init => OneServerInv
BY TrainAssumption
   DEF Init, OneServerInv, ChosenInv, AskedInv, FlockInv, Chosen, InitRequest, Nothing, NoConn

LEMMA OneServerInvariance ==
    ASSUME NEW s \in Servers, Servers = {s}
    PROVE  Spec => [](IInv /\ OneServerInv)
<1>1. Init => IInv /\ OneServerInv
  BY Initially, OneServerInitially
<1>2. (IInv /\ OneServerInv) /\ [Next]_vars => (IInv /\ OneServerInv)'
  BY EveryStep, OneServerEveryStep
<1>3. QED  BY <1>1, <1>2, PTL DEF Spec

(* With one write server no seat is chosen or paid for in two requests,    *)
(* though fcntl does not show a process its own locks.                     *)
THEOREM OneServerSellsOnce ==
    ASSUME NEW s \in Servers, Servers = {s}
    PROVE  Spec => []SeatHasOneHolder
<1>1. IInv => SeatHasOneHolder
  <2> SUFFICES ASSUME IInv, NEW t \in Trains, NEW j \in Seats
               PROVE  Cardinality(Holders(t, j)) <= 1
    BY DEF SeatHasOneHolder
  <2>1. \A g \in Holders(t, j), h \in Holders(t, j) : g = h
    <3> SUFFICES ASSUME NEW c \in Conns, NEW d \in Conns,
                        <<s, c>> \in Holders(t, j), <<s, d>> \in Holders(t, j)
                 PROVE  c = d
      BY DEF Holders
    <3>1. Holds(s, c, j) /\ Holds(s, d, j) /\ req[s][c].shift_id = req[s][d].shift_id
      BY DEF Holders, Holds
    <3>2. QED  BY <3>1 DEF IInv, UniqueInv
  <2>2. CASE Holders(t, j) = {}
    BY <2>2, FS_EmptySet
  <2>3. CASE Holders(t, j) # {}
    <3>1. PICK h : Holders(t, j) = {h}
      BY <2>1, <2>3
    <3>2. QED  BY <3>1, FS_Singleton
  <2>4. QED  BY <2>2, <2>3
<1>2. QED  BY <1>1, OneServerInvariance, PTL

(* With one write server a chosen seat is not paid for by somebody else    *)
(* between the moment its byte is read and the payment.                    *)
THEOREM OneServerChosenIsUnpaid ==
    ASSUME NEW s \in Servers, Servers = {s}
    PROVE  Spec => []ChosenIsUnpaid
<1>1. OneServerInv => ChosenIsUnpaid
  BY DEF OneServerInv, ChosenInv, ChosenIsUnpaid
<1>2. QED  BY <1>1, OneServerInvariance, PTL

(* With one write server the entries of seat_lock are those of open        *)
(* connections that hold the seats, and the record locks are just these.   *)
THEOREM OneServerLocks ==
    ASSUME NEW s \in Servers, Servers = {s}
    PROVE  Spec => []LocksHaveOwners
<1>1. IInv /\ OneServerInv => LocksHaveOwners
  <2> SUFFICES ASSUME IInv, OneServerInv PROVE LocksHaveOwners
    OBVIOUS
  <2>1. ASSUME NEW t \in Trains, NEW j \in Seats, NEW c \in Conns, seat_lock[s][t][j] = c
        PROVE  req[s][c].shift_id = t /\ req[s][c].seat_stat[j] \in {"CHOSEN", "PAID"}
    BY <2>1 DEF IInv, LockInv, Holds, TypeOK, Request
  <2>2. \A t \in Trains, j \in Seats : seat_lock[s][t][j] \in Conns \cup {NoConn}
    BY DEF IInv, TypeOK
  <2>3. ASSUME NEW t \in Trains, NEW j \in Seats
        PROVE  flock[t][j] # Nobody <=> seat_lock[s][t][j] # NoConn
    BY TrainAssumption DEF OneServerInv, FlockInv, Nobody
  <2>4. QED  BY <2>1, <2>2, <2>3 DEF LocksHaveOwners
<1>2. QED  BY <1>1, OneServerInvariance, PTL

-----------------------------------------------------------------------------
(* With one write server TrainBooking implements SeatService.              *)
SeatMap == [t \in Trains |-> [j \in Seats |-> SeatOf(t, j)]]
SaleMap == [s \in Servers |-> IF doing[s].op = "pay" THEN doing[s].conn ELSE NoConn]

(* What SeatOf is when the one server is s.                                *)
OneSeat(s, t, j) ==
    IF j \in paid[t] THEN <<"sold">>
    ELSE IF seat_lock[s][t][j] # NoConn THEN <<s, seat_lock[s][t][j]>>
         ELSE <<"free">>

LEMMA SeatOfOneServer ==
    ASSUME NEW s \in Servers, Servers = {s}, NEW t \in Trains, NEW j \in Seats
    PROVE  /\ SeatMap[t][j] = OneSeat(s, t, j)
           /\ SeatMap'[t][j] = OneSeat(s, t, j)'
<1>1. SeatOf(t, j) = OneSeat(s, t, j)
  BY DEF SeatOf, OneSeat
<1>2. SeatOf(t, j)' = OneSeat(s, t, j)'
  BY DEF SeatOf, OneSeat
<1>3. QED  BY <1>1, <1>2 DEF SeatMap

LEMMA SeatValues ==
    ASSUME NEW s, NEW c
    PROVE  <<s, c>> # <<"sold">> /\ <<s, c>> # <<"free">> /\ <<"sold">> # <<"free">>
<1>1. Len(<<s, c>>) = 2 /\ Len(<<"sold">>) = 1 /\ Len(<<"free">>) = 1
  OBVIOUS
<1>2. <<"sold">>[1] # <<"free">>[1]
  OBVIOUS
<1>3. QED  BY <1>1, <1>2

(* The abstract state changes at one seat, or not at all.                  *)
LEMMA SeatChanges ==
    ASSUME NEW s \in Servers, Servers = {s}, NEW t \in Trains, NEW j \in Seats, NEW new,
           OneSeat(s, t, j)' = new,
           \A u \in Trains, k \in Seats :
               u # t \/ k # j => OneSeat(s, u, k)' = OneSeat(s, u, k)
    PROVE  SeatMap' = [SeatMap EXCEPT ![t][j] = new]
<1>1. \A u \in Trains, k \in Seats :
        SeatMap'[u][k] = IF u = t /\ k = j THEN new ELSE SeatMap[u][k]
  BY SeatOfOneServer
<1>2. /\ SeatMap = [u \in Trains |-> [k \in Seats |-> SeatMap[u][k]]]
      /\ SeatMap' = [u \in Trains |-> [k \in Seats |-> SeatMap'[u][k]]]
  BY DEF SeatMap
<1> HIDE DEF SeatMap
<1>3. QED  BY <1>1, <1>2

LEMMA SeatsSame ==
    ASSUME NEW s \in Servers, Servers = {s},
           \A u \in Trains, k \in Seats : OneSeat(s, u, k)' = OneSeat(s, u, k)
    PROVE  SeatMap' = SeatMap
<1>1. \A u \in Trains, k \in Seats : SeatMap'[u][k] = SeatMap[u][k]
  BY SeatOfOneServer
<1>2. /\ SeatMap = [u \in Trains |-> [k \in Seats |-> SeatMap[u][k]]]
      /\ SeatMap' = [u \in Trains |-> [k \in Seats |-> SeatMap'[u][k]]]
  BY DEF SeatMap
<1> HIDE DEF SeatMap
<1>3. QED  BY <1>1, <1>2

LEMMA SaleOfServer ==
    ASSUME NEW s \in Servers, Servers = {s}
    PROVE  /\ SaleMap[s] = IF doing[s].op = "pay" THEN doing[s].conn ELSE NoConn
           /\ SaleMap'[s] = IF doing'[s].op = "pay" THEN doing'[s].conn ELSE NoConn
           /\ SaleMap'[s] = SaleMap[s] => SaleMap' = SaleMap
           /\ SaleMap' = [SaleMap EXCEPT ![s] = SaleMap'[s]]
BY DEF SaleMap

(* The steps of SeatService in terms of the maps.                          *)
Stutters == SeatMap' = SeatMap /\ SaleMap' = SaleMap

LEMMA ServiceStep ==
    ASSUME NEW s \in Servers, NEW c \in Conns, NEW t \in Trains, NEW j \in Seats,
           \/ /\ SaleMap[s] = NoConn /\ SeatMap[t][j] = <<"free">>
              /\ \A u \in Trains, k \in Seats : SeatMap[u][k] = <<s, c>> => u = t
              /\ SeatMap' = [SeatMap EXCEPT ![t][j] = <<s, c>>] /\ SaleMap' = SaleMap
           \/ /\ SaleMap[s] = NoConn /\ SeatMap[t][j] = <<s, c>>
              /\ SeatMap' = [SeatMap EXCEPT ![t][j] = <<"free">>] /\ SaleMap' = SaleMap
           \/ /\ SaleMap[s] = NoConn /\ SeatMap[t][j] = <<s, c>>
              /\ SaleMap' = [SaleMap EXCEPT ![s] = c] /\ SeatMap' = SeatMap
           \/ /\ SaleMap[s] # NoConn /\ SeatMap[t][j] = <<s, SaleMap[s]>>
              /\ SeatMap' = [SeatMap EXCEPT ![t][j] = <<"sold">>] /\ SaleMap' = SaleMap
    PROVE  Service!Next
<1> USE DEF Service!Free, Service!Sold, Service!NoSale, Service!Held, Service!Seats, Seats, NoConn
<1>1. CASE /\ SaleMap[s] = NoConn /\ SeatMap[t][j] = <<"free">>
           /\ \A u \in Trains, k \in Seats : SeatMap[u][k] = <<s, c>> => u = t
           /\ SeatMap' = [SeatMap EXCEPT ![t][j] = <<s, c>>] /\ SaleMap' = SaleMap
  <2>1. Service!Choose(s, c, t, j)
    BY <1>1 DEF Service!Choose, SeatMap, SaleMap
  <2>2. QED  BY <2>1 DEF Service!Next
<1>2. CASE /\ SaleMap[s] = NoConn /\ SeatMap[t][j] = <<s, c>>
           /\ SeatMap' = [SeatMap EXCEPT ![t][j] = <<"free">>] /\ SaleMap' = SaleMap
  <2>1. Service!GiveBack(s, c, t, j)
    BY <1>2 DEF Service!GiveBack, SeatMap, SaleMap
  <2>2. QED  BY <2>1 DEF Service!Next
<1>3. CASE /\ SaleMap[s] = NoConn /\ SeatMap[t][j] = <<s, c>>
           /\ SaleMap' = [SaleMap EXCEPT ![s] = c] /\ SeatMap' = SeatMap
  <2>1. Service!StartSale(s, c)
    <3>1. <<t, j>> \in Service!Held(s, c)
      BY <1>3 DEF SeatMap
    <3>2. SaleMap[s] = NoConn /\ SaleMap' = [SaleMap EXCEPT ![s] = c] /\ SeatMap' = SeatMap
      BY <1>3
    <3>3. QED  BY <3>1, <3>2, Zenon DEF Service!StartSale, SeatMap, SaleMap
  <2>2. QED  BY <2>1 DEF Service!Next
<1>4. CASE /\ SaleMap[s] # NoConn /\ SeatMap[t][j] = <<s, SaleMap[s]>>
           /\ SeatMap' = [SeatMap EXCEPT ![t][j] = <<"sold">>] /\ SaleMap' = SaleMap
  <2>1. Service!Sell(s, t, j)
    BY <1>4 DEF Service!Sell, SeatMap, SaleMap
  <2>2. QED  BY <2>1 DEF Service!Next
<1>5. QED  BY <1>1, <1>2, <1>3, <1>4

LEMMA SaleStays ==
    ASSUME NEW s \in Servers, Servers = {s},
           doing'[s] = doing[s] \/ (doing[s].op # "pay" /\ doing'[s].op # "pay")
    PROVE  SaleMap' = SaleMap
BY SaleOfServer

LEMMA NothingChanges ==
    ASSUME NEW s \in Servers, Servers = {s}, UNCHANGED <<paid, seat_lock>>,
           doing'[s] = doing[s] \/ (doing[s].op # "pay" /\ doing'[s].op # "pay")
    PROVE  Stutters
<1>1. \A u \in Trains, k \in Seats : OneSeat(s, u, k)' = OneSeat(s, u, k)
  BY DEF OneSeat
<1>2. QED  BY <1>1, SeatsSame, SaleStays DEF Stutters

LEMMA UnseenSteps ==
    ASSUME IInv, NEW s \in Servers, Servers = {s}, NEW c \in Conns,
           \/ ClientLeaves(s, c) \/ Expire(s, c) \/ ReadEof(s, c)
           \/ Accept(s, c) \/ TimeOut(s, c) \/ Exit(s, c)
           \/ \E t \in Trains : ChooseShift(s, c, t)
           \/ \E j \in Seats : CheckBooked(s, c, j)
           \/ BookMore(s, c) \/ GetLock(s) \/ Close(s) \/ UNCHANGED vars
    PROVE  Stutters
<1>0. doing \in [Servers -> Doing]
  BY DEF IInv, TypeOK
<1>1. CASE \/ ClientLeaves(s, c) \/ Expire(s, c) \/ ReadEof(s, c) \/ Accept(s, c)
           \/ \E t \in Trains : ChooseShift(s, c, t)
           \/ BookMore(s, c) \/ UNCHANGED vars
  <2>1. UNCHANGED <<paid, seat_lock, doing>>
    BY <1>1 DEF ClientLeaves, Expire, ReadEof, Accept, ChooseShift, BookMore, vars
  <2>2. QED  BY <2>1, NothingChanges
<1>2. CASE TimeOut(s, c) \/ Exit(s, c)
  <2>1. doing[s] = Nothing /\ doing' = [doing EXCEPT ![s] = Closing(c)] /\ UNCHANGED <<paid, seat_lock>>
    BY <1>2 DEF TimeOut, Exit, Receives, Reads, StartClosing, Closing
  <2>2. doing[s].op # "pay" /\ doing'[s].op # "pay"
    BY <1>0, <2>1 DEF Nothing, Closing
  <2>3. QED  BY <2>1, <2>2, NothingChanges
<1>3. CASE \E j \in Seats : CheckBooked(s, c, j)
  <2>1. PICK j \in Seats : CheckBooked(s, c, j)
    BY <1>3
  <2>2. /\ doing[s] = Nothing /\ UNCHANGED <<paid, seat_lock>>
        /\ doing' = [doing EXCEPT ![s] = [op |-> "getlk", conn |-> c, seat |-> j]]
    BY <2>1 DEF CheckBooked, Receives, Reads
  <2>3. doing[s].op # "pay" /\ doing'[s].op # "pay"
    BY <1>0, <2>2 DEF Nothing
  <2>4. QED  BY <2>2, <2>3, NothingChanges
<1>4. CASE GetLock(s)
  <2>1. PICK d \in Conns, j \in Seats : doing[s] = [op |-> "getlk", conn |-> d, seat |-> j]
    BY <1>4, DoingKinds DEF GetLock
  <2>2. /\ \/ doing' = [doing EXCEPT ![s] = Nothing]
           \/ doing' = [doing EXCEPT ![s] = [doing[s] EXCEPT !.op = "setlk"]]
        /\ UNCHANGED <<paid, seat_lock>>
    BY <1>4 DEF GetLock
  <2>3. doing[s].op # "pay" /\ doing'[s].op # "pay"
    BY <1>0, <2>1, <2>2 DEF Nothing
  <2>4. QED  BY <2>2, <2>3, NothingChanges
<1>5. CASE Close(s)
  <2>1. doing[s].op = "close" /\ doing' = [doing EXCEPT ![s] = Nothing] /\ UNCHANGED <<paid, seat_lock>>
    BY <1>5 DEF Close
  <2>2. doing[s].op # "pay" /\ doing'[s].op # "pay"
    BY <1>0, <2>1 DEF Nothing
  <2>3. QED  BY <2>1, <2>2, NothingChanges
<1>6. QED  BY <1>1, <1>2, <1>3, <1>4, <1>5

(* A seat that a connection chose or holds is seen as its own.             *)
LEMMA SeatOfHolder ==
    ASSUME IInv, NEW s \in Servers, Servers = {s}, NEW c \in Conns, NEW u \in Trains, NEW k \in Seats
    PROVE  /\ SeatMap[u][k] = <<s, c>> <=> k \notin paid[u] /\ seat_lock[s][u][k] = c
           /\ SeatMap[u][k] = <<"free">> <=> k \notin paid[u] /\ seat_lock[s][u][k] = NoConn
<1>1. SeatMap[u][k] = OneSeat(s, u, k)
  BY SeatOfOneServer
<1>2. c # NoConn
  BY TrainAssumption DEF NoConn
<1>3. CASE k \in paid[u]
  BY <1>1, <1>3, SeatValues DEF OneSeat
<1>4. CASE k \notin paid[u] /\ seat_lock[s][u][k] = NoConn
  BY <1>1, <1>2, <1>4, SeatValues DEF OneSeat
<1>5. CASE k \notin paid[u] /\ seat_lock[s][u][k] # NoConn
  BY <1>1, <1>5, SeatValues DEF OneSeat
<1>6. QED  BY <1>3, <1>4, <1>5

(* A seat is given back: it is free now.                                   *)
LEMMA ReleaseRefines ==
    ASSUME IInv, NEW s \in Servers, Servers = {s}, NEW c \in Conns, NEW t \in Trains, NEW j \in Seats,
           seat_lock[s][t][j] = c, seat_lock' = [seat_lock EXCEPT ![s][t][j] = NoConn],
           UNCHANGED paid, doing[s].op # "pay", doing'[s].op # "pay"
    PROVE  Service!Next \/ Stutters
<1>1. \A u \in Trains, k \in Seats :
         seat_lock'[s][u][k] = IF u = t /\ k = j THEN NoConn ELSE seat_lock[s][u][k]
  BY DEF IInv, TypeOK
<1>2. SaleMap' = SaleMap /\ SaleMap[s] = NoConn
  BY SaleStays, SaleOfServer
<1>3. \A u \in Trains, k \in Seats :
         u # t \/ k # j => OneSeat(s, u, k)' = OneSeat(s, u, k)
  BY <1>1 DEF OneSeat
<1>4. CASE j \in paid[t]
  <2>1. OneSeat(s, t, j)' = OneSeat(s, t, j)
    BY <1>4 DEF OneSeat
  <2>2. \A u \in Trains, k \in Seats : OneSeat(s, u, k)' = OneSeat(s, u, k)
    BY <1>3, <2>1
  <2>3. QED  BY <1>2, <2>2, SeatsSame DEF Stutters
<1>5. CASE j \notin paid[t]
  <2>1. SeatMap[t][j] = <<s, c>>
    BY <1>5, SeatOfHolder
  <2>2. OneSeat(s, t, j)' = <<"free">>
    BY <1>1, <1>5 DEF OneSeat
  <2>3. SeatMap' = [SeatMap EXCEPT ![t][j] = <<"free">>]
    BY <1>3, <2>2, SeatChanges
  <2>4. QED  BY <1>2, <2>1, <2>3, ServiceStep
<1>6. QED  BY <1>4, <1>5

LEMMA CancelRefines ==
    ASSUME IInv, NEW s \in Servers, Servers = {s}, Cancel(s)
    PROVE  Service!Next \/ Stutters
<1>1. PICK c \in Conns, j \in Seats : doing[s] = [op |-> "getlk", conn |-> c, seat |-> j]
  BY DoingKinds DEF Cancel, CancelTo
<1>2. PICK t \in Trains : t = req[s][c].shift_id
  BY <1>1, DoingHasShift
<1>3. /\ req[s][c].seat_stat[j] = "CHOSEN"
      /\ seat_lock' = [seat_lock EXCEPT ![s][t][j] = NoConn]
      /\ doing' = [doing EXCEPT ![s] = Nothing] /\ UNCHANGED paid
  BY <1>1, <1>2 DEF Cancel, CancelTo
<1>4. doing[s].op # "pay" /\ doing'[s].op # "pay" /\ doing[s] # Closing(c)
  BY <1>1, <1>3 DEF IInv, TypeOK, Nothing, Closing
<1>5. seat_lock[s][t][j] = c
  BY <1>2, <1>3, <1>4 DEF IInv, HolderInv, Holds
<1>6. QED  BY <1>3, <1>4, <1>5, ReleaseRefines

LEMMA UnlockSeatRefines ==
    ASSUME IInv, NEW s \in Servers, Servers = {s}, UnlockSeat(s)
    PROVE  Service!Next \/ Stutters
<1>1. PICK c \in Conns : doing[s] = Closing(c)
  BY DoingKinds DEF UnlockSeat, Closing
<1>2. PICK j \in Seats :
        /\ j \in Locked(s, c)
        /\ seat_lock' = [seat_lock EXCEPT ![s][req[s][c].shift_id][j] = NoConn]
        /\ UNCHANGED <<paid, doing>>
  <2>1. doing[s].conn = c
    BY <1>1 DEF Closing
  <2>2. UNCHANGED <<paid, doing>>
    BY DEF UnlockSeat
  <2>3. QED  BY <2>1, <2>2 DEF UnlockSeat, IsFirst
<1>3. PICK t \in Trains : t = req[s][c].shift_id
  BY <1>2 DEF Locked, IInv, TypeOK, Request
<1>4. seat_lock[s][t][j] = c
  BY <1>2, <1>3 DEF Locked
<1>5. doing[s].op # "pay" /\ doing'[s].op # "pay"
  BY <1>1, <1>2 DEF Closing
<1>6. QED  BY <1>2, <1>3, <1>4, <1>5, ReleaseRefines

(* A free seat is chosen by a connection that has no seat of another train.*)
LEMMA ChooseSeatRefines ==
    ASSUME IInv, OneServerInv, NEW s \in Servers, Servers = {s}, ChooseSeat(s)
    PROVE  Service!Next
<1>1. PICK c \in Conns, j \in Seats : doing[s] = [op |-> "setlk", conn |-> c, seat |-> j]
  BY DoingKinds DEF ChooseSeat
<1>2. PICK t \in Trains : t = req[s][c].shift_id
  BY <1>1, DoingHasShift
<1>3. /\ seat_lock' = [seat_lock EXCEPT ![s][t][j] = c]
      /\ doing' = [doing EXCEPT ![s] = Nothing] /\ UNCHANGED paid
  BY <1>1, <1>2 DEF ChooseSeat
<1>4. doing[s].op # "pay" /\ doing'[s].op # "pay"
  BY <1>1, <1>3 DEF IInv, TypeOK, Nothing
<1>5. SaleMap' = SaleMap /\ SaleMap[s] = NoConn
  BY <1>4, SaleStays, SaleOfServer
<1>6. j \notin paid[t] /\ seat_lock[s][t][j] = NoConn
  BY <1>1, <1>2 DEF IInv, DoingInv, OneServerInv, AskedInv
<1>7. SeatMap[t][j] = <<"free">>
  BY <1>6, SeatOfHolder
<1>8. \A u \in Trains, k \in Seats : SeatMap[u][k] = <<s, c>> => u = t
  BY <1>2, SeatOfHolder DEF IInv, LockInv
<1>9. \A u \in Trains, k \in Seats :
         seat_lock'[s][u][k] = IF u = t /\ k = j THEN c ELSE seat_lock[s][u][k]
  BY <1>3 DEF IInv, TypeOK
<1>10. OneSeat(s, t, j)' = <<s, c>>
  BY <1>3, <1>6, <1>9, TrainAssumption DEF OneSeat, NoConn
<1>11. SeatMap' = [SeatMap EXCEPT ![t][j] = <<s, c>>]
  <2>1. \A u \in Trains, k \in Seats :
           u # t \/ k # j => OneSeat(s, u, k)' = OneSeat(s, u, k)
    BY <1>3, <1>9 DEF OneSeat
  <2>2. QED  BY <1>10, <2>1, SeatChanges
<1>12. QED  BY <1>5, <1>7, <1>8, <1>11, ServiceStep

(* A client that pays has a seat that is not sold yet, ...                 *)
LEMMA PayRefines ==
    ASSUME IInv, OneServerInv, NEW s \in Servers, Servers = {s}, NEW c \in Conns, Pay(s, c)
    PROVE  Service!Next
<1>1. /\ doing[s] = Nothing /\ req[s][c].status = "SEAT" /\ req[s][c].num_of_chosen_seats # 0
      /\ doing' = [doing EXCEPT ![s] = Paying(c)] /\ UNCHANGED <<paid, seat_lock>>
  BY DEF Pay, Receives, Reads, Paying
<1>2. doing[s].op # "pay" /\ doing[s] # Closing(c) /\ doing[s] # Paying(c)
      /\ doing'[s].op = "pay" /\ doing'[s].conn = c
  BY <1>1, NothingIsNeither DEF IInv, TypeOK, Nothing, Paying
<1>3. PICK j \in Chosen(s, c) : TRUE
  <2>1. Cardinality(Chosen(s, c)) # 0
    BY <1>1, <1>2 DEF IInv, CountInv
  <2>2. QED  BY <2>1, FS_EmptySet
<1>4. j \in Seats /\ req[s][c].seat_stat[j] = "CHOSEN"
  BY DEF Chosen
<1>5. PICK t \in Trains : t = req[s][c].shift_id
  BY <1>1 DEF IInv, TypeOK, Request, RequestInv
<1>6. SeatMap[t][j] = <<s, c>>
  <2>1. seat_lock[s][t][j] = c
    BY <1>2, <1>4, <1>5 DEF IInv, HolderInv, Holds
  <2>2. j \notin paid[t]
    BY <1>3, <1>5 DEF OneServerInv, ChosenInv
  <2>3. QED  BY <1>4, <2>1, <2>2, SeatOfHolder
<1>7. SaleMap[s] = NoConn /\ SaleMap' = [SaleMap EXCEPT ![s] = c]
  BY <1>2, SaleOfServer
<1>8. SeatMap' = SeatMap
  <2>1. \A u \in Trains, k \in Seats : OneSeat(s, u, k)' = OneSeat(s, u, k)
    BY <1>1 DEF OneSeat
  <2>2. QED  BY <2>1, SeatsSame
<1>9. QED  BY <1>4, <1>6, <1>7, <1>8, ServiceStep

(* ... gets it, ...                                                        *)
LEMMA PaySeatRefines ==
    ASSUME IInv, OneServerInv, NEW s \in Servers, Servers = {s}, PaySeat(s)
    PROVE  Service!Next
<1>1. PICK c \in Conns : doing[s] = Paying(c)
  BY DoingKinds DEF PaySeat, Paying
<1>2. PICK t \in Trains : t = req[s][c].shift_id
  BY <1>1, DoingHasShift DEF Paying
<1>3. PICK j \in Seats :
        /\ j \in Chosen(s, c)
        /\ paid' = [paid EXCEPT ![t] = paid[t] \cup {j}]
        /\ UNCHANGED <<seat_lock, doing>>
  <2>1. doing[s].conn = c
    BY <1>1 DEF Paying
  <2>2. UNCHANGED <<seat_lock, doing>>
    BY DEF PaySeat
  <2>3. PICK j \in Seats :
          /\ j \in Chosen(s, c)
          /\ paid' = [paid EXCEPT ![req[s][c].shift_id] = paid[req[s][c].shift_id] \cup {j}]
    BY <2>1 DEF PaySeat, IsFirst
  <2>4. QED  BY <1>2, <2>2, <2>3
<1>4. doing[s].op = "pay" /\ doing[s].conn = c /\ doing[s] # Closing(c)
  BY <1>1 DEF Paying, Closing
<1>5. SaleMap' = SaleMap /\ SaleMap[s] = c /\ c # NoConn
  BY <1>3, <1>4, SaleStays, SaleOfServer, TrainAssumption DEF NoConn
<1>6. SeatMap[t][j] = <<s, c>>
  <2>1. seat_lock[s][t][j] = c
    BY <1>2, <1>3, <1>4 DEF IInv, HolderInv, Holds, Chosen
  <2>2. j \notin paid[t]
    BY <1>2, <1>3 DEF OneServerInv, ChosenInv
  <2>3. QED  BY <2>1, <2>2, SeatOfHolder
<1>7. \A u \in Trains, k \in Seats : k \in paid'[u] <=> k \in paid[u] \/ (u = t /\ k = j)
  BY <1>3 DEF IInv, TypeOK
<1>8. OneSeat(s, t, j)' = <<"sold">>
  BY <1>7 DEF OneSeat
<1>9. SeatMap' = [SeatMap EXCEPT ![t][j] = <<"sold">>]
  <2>1. \A u \in Trains, k \in Seats :
           u # t \/ k # j => OneSeat(s, u, k)' = OneSeat(s, u, k)
    BY <1>3, <1>7 DEF OneSeat
  <2>2. QED  BY <1>8, <2>1, SeatChanges
<1>10. QED  BY <1>5, <1>6, <1>9, ServiceStep

(* ... and has no other when it is told that the booking is successful.    *)
LEMMA FinishPayingRefines ==
    ASSUME IInv, OneServerInv, NEW s \in Servers, Servers = {s}, FinishPaying(s)
    PROVE  Service!Next
<1>1. PICK c \in Conns : doing[s] = Paying(c)
  BY DoingKinds DEF FinishPaying, Paying
<1>2. /\ Chosen(s, c) = {}
      /\ doing' = [doing EXCEPT ![s] = Nothing] /\ UNCHANGED <<paid, seat_lock>>
  BY <1>1 DEF FinishPaying, Paying
<1>3. doing[s].op = "pay" /\ doing[s].conn = c /\ doing'[s].op # "pay"
  BY <1>1, <1>2 DEF IInv, TypeOK, Paying, Nothing
<1>4. SaleMap[s] = c /\ c # NoConn /\ SaleMap' = [SaleMap EXCEPT ![s] = NoConn]
  BY <1>3, SaleOfServer, TrainAssumption DEF NoConn
<1>5. SeatMap' = SeatMap
  <2>1. \A u \in Trains, k \in Seats : OneSeat(s, u, k)' = OneSeat(s, u, k)
    BY <1>2 DEF OneSeat
  <2>2. QED  BY <2>1, SeatsSame
<1>6. ASSUME NEW u \in Trains, NEW k \in Seats, SeatMap[u][k] = <<s, c>>
      PROVE  FALSE
  <2>1. k \notin paid[u] /\ seat_lock[s][u][k] = c
    BY <1>6, SeatOfHolder
  <2>2. req[s][c].shift_id = u /\ Holds(s, c, k)
    BY <2>1 DEF IInv, LockInv
  <2>3. req[s][c].seat_stat[k] \in {"CHOSEN", "PAID"}
    BY <2>2 DEF Holds, IInv, TypeOK, Request
  <2>4. req[s][c].seat_stat[k] # "CHOSEN"
    BY <1>2 DEF Chosen
  <2>5. QED  BY <2>1, <2>2, <2>3, <2>4 DEF IInv, PaidInv
<1>7. Service!EndSale(s)
  BY <1>4, <1>5, <1>6 DEF Service!EndSale, Service!Held, Service!NoSale, Service!Seats, Seats, NoConn,
                         SeatMap, SaleMap
<1>8. QED  BY <1>7 DEF Service!Next

LEMMA CrashRefines ==
    ASSUME IInv, NEW s \in Servers, Servers = {s}, Crash(s)
    PROVE  Service!Next
<1>1. UNCHANGED paid /\ doing'[s].op # "pay"
      /\ \A u \in Trains, k \in Seats : seat_lock'[s][u][k] = NoConn
  BY DEF Crash, IInv, TypeOK, Nothing
<1>2. SaleMap' = [SaleMap EXCEPT ![s] = NoConn]
  BY <1>1, SaleOfServer
<1>3. ASSUME NEW u \in Trains, NEW k \in Seats
      PROVE  SeatMap'[u][k] =
                IF \E c \in Conns : SeatMap[u][k] = <<s, c>> THEN <<"free">> ELSE SeatMap[u][k]
  <2>1. SeatMap'[u][k] = IF k \in paid[u] THEN <<"sold">> ELSE <<"free">>
    BY <1>1, SeatOfOneServer DEF OneSeat
  <2>2. seat_lock[s][u][k] \in Conns \cup {NoConn}
    BY DEF IInv, TypeOK
  <2>3. CASE k \in paid[u]
    <3>1. SeatMap[u][k] = <<"sold">>
      BY <2>3, SeatOfOneServer DEF OneSeat
    <3>2. QED  BY <2>1, <2>3, <3>1, SeatValues
  <2>4. CASE k \notin paid[u] /\ seat_lock[s][u][k] = NoConn
    <3>1. SeatMap[u][k] = <<"free">>
      BY <2>4, SeatOfOneServer DEF OneSeat
    <3>2. QED  BY <2>1, <2>4, <3>1
  <2>5. CASE k \notin paid[u] /\ seat_lock[s][u][k] \in Conns
    <3>1. \E c \in Conns : SeatMap[u][k] = <<s, c>>
      BY <2>5, SeatOfHolder
    <3>2. QED  BY <2>1, <2>5, <3>1
  <2>6. QED  BY <2>2, <2>3, <2>4, <2>5
<1>4. SeatMap' = [u \in Trains |-> [k \in Seats |->
                     IF \E c \in Conns : SeatMap[u][k] = <<s, c>> THEN <<"free">> ELSE SeatMap[u][k]]]
  <2>1. SeatMap' = [u \in Trains |-> [k \in Seats |-> SeatMap'[u][k]]]
    BY DEF SeatMap
  <2> HIDE DEF SeatMap
  <2>2. QED  BY <1>3, <2>1
<1>5. Service!Crash(s)
  BY <1>2, <1>4, Zenon DEF Service!Crash, Service!Free, Service!NoSale, Service!Seats, Seats, NoConn,
                   SeatMap, SaleMap
<1>6. QED  BY <1>5 DEF Service!Next

(* With one write server every behaviour of the booking is a behaviour of  *)
(* SeatService: a seat goes from one client to the next only by being      *)
(* given back, and a payment sells all that was held.                      *)
THEOREM OneServerImplementsService ==
    ASSUME NEW s \in Servers, Servers = {s}
    PROVE  Spec => ImplementsSeatService
<1>1. ASSUME Init
      PROVE  Service!Init
  <2>1. \A u \in Trains, k \in Seats : SeatOf(u, k) = IF k \in PaidAtFirst[u] THEN <<"sold">> ELSE <<"free">>
    BY <1>1 DEF Init, SeatOf
  <2>2. \A r \in Servers : doing[r].op # "pay"
    BY <1>1 DEF Init, Nothing
  <2>3. QED  BY <2>1, <2>2 DEF Service!Init, Service!Sold, Service!Free, Service!NoSale, Service!Seats,
                              Seats, NoConn
<1>2. ASSUME IInv /\ OneServerInv, [Next]_vars
      PROVE  [Service!Next]_(Service!vars)
  <2>1. ASSUME Stutters
        PROVE  [Service!Next]_(Service!vars)
    BY <2>1 DEF Stutters, SeatMap, SaleMap, Service!vars
  <2>2. CASE UNCHANGED vars
    <3>1. Stutters
      BY <2>2, <1>2, NothingChanges DEF vars
    <3>2. QED  BY <2>1, <3>1
  <2>3. CASE GoOn(s)
    <3>1. CASE Cancel(s) \/ UnlockSeat(s)
      BY <1>2, <2>1, <3>1, CancelRefines, UnlockSeatRefines
    <3>2. CASE ChooseSeat(s) \/ PaySeat(s) \/ FinishPaying(s)
      BY <1>2, <3>2, ChooseSeatRefines, PaySeatRefines, FinishPayingRefines
    <3>3. CASE GetLock(s) \/ Close(s)
      <4>1. PICK c \in Conns : TRUE
        BY <1>2, <3>3, DoingKinds DEF GetLock, Close
      <4>2. QED  BY <1>2, <2>1, <3>3, UnseenSteps
    <3>4. QED  BY <2>3, <3>1, <3>2, <3>3 DEF GoOn
  <2>4. CASE Crash(s)
    BY <1>2, <2>4, CrashRefines
  <2>5. ASSUME NEW c \in Conns, Handle(s, c) \/ ClientLeaves(s, c) \/ Expire(s, c)
        PROVE  [Service!Next]_(Service!vars)
    <3>1. CASE Pay(s, c)
      BY <1>2, <3>1, PayRefines
    <3>2. CASE ~Pay(s, c)
      BY <1>2, <2>1, <2>5, <3>2, UnseenSteps DEF Handle
    <3>3. QED  BY <3>1, <3>2
  <2>6. QED  BY <1>2, <2>2, <2>3, <2>4, <2>5 DEF Next
<1>3. (IInv /\ OneServerInv) /\ [Next]_vars => [Service!Next]_(Service!vars)
  BY <1>2
<1>4. QED  BY <1>1, <1>3, OneServerInvariance, PTL DEF Spec, ImplementsSeatService, Service!Spec
=============================================================================
