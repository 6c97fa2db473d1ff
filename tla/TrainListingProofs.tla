-------------------------- MODULE TrainListingProofs --------------------------
(***************************************************************************)
(* Proofs about TrainListing: what a listing says of a seat was true       *)
(* between the question and the answer, for any number of trains, seats,   *)
(* connections and listings.                                               *)
(***************************************************************************)
EXTENDS TrainListingInvariant, TrainBookingProofs

(* A step of the listing is a step of the booking or none.                 *)
LEMMA BookingGoesOn == [NextListing]_<<vars, listVars, seen>> => [Next]_vars
BY DEF NextListing

LEMMA BookingInvariance == SpecListing => []IInv
<1>1. InitListing => IInv
  BY Initially DEF InitListing
<1>2. IInv /\ [NextListing]_<<vars, listVars, seen>> => IInv'
  BY EveryStep, BookingGoesOn
<1>3. QED  BY <1>1, <1>2, PTL DEF SpecListing

LEMMA OneServerListing ==
    ASSUME NEW s \in Servers, Servers = {s}
    PROVE  SpecListing => [](IInv /\ OneServerInv)
<1>1. InitListing => IInv /\ OneServerInv
  BY Initially, OneServerInitially DEF InitListing
<1>2. (IInv /\ OneServerInv) /\ [NextListing]_<<vars, listVars, seen>> => (IInv /\ OneServerInv)'
  BY EveryStep, OneServerEveryStep, BookingGoesOn
<1>3. QED  BY <1>1, <1>2, PTL DEF SpecListing

-----------------------------------------------------------------------------
(* What the write servers do to the train files.                           *)

(* Only a payment writes, and it writes a 1 where the server holds a seat. *)
LEMMA OnlyPaymentsWrite ==
    ASSUME IInv, [Next]_vars
    PROVE  UNCHANGED paid \/ \E s \in Servers : PaySeat(s)
<1>1. CASE UNCHANGED vars
  BY <1>1 DEF vars
<1>2. ASSUME NEW s \in Servers, GoOn(s)
      PROVE  UNCHANGED paid \/ PaySeat(s)
  BY <1>2 DEF GoOn, Cancel, CancelTo, GetLock, ChooseSeat, FinishPaying, UnlockSeat, Close
<1>3. ASSUME NEW s \in Servers, Crash(s)
      PROVE  UNCHANGED paid
  BY <1>3 DEF Crash
<1>4. ASSUME NEW s \in Servers, NEW c \in Conns, Handle(s, c) \/ ClientLeaves(s, c) \/ Expire(s, c)
      PROVE  UNCHANGED paid
  BY <1>4 DEF Handle, ClientLeaves, Expire, Accept, TimeOut, ReadEof, Exit, ChooseShift,
              CheckBooked, Pay, BookMore
<1>5. QED  BY <1>1, <1>2, <1>3, <1>4 DEF Next

LEMMA PaySeatWrites ==
    ASSUME IInv, NEW s \in Servers, PaySeat(s)
    PROVE  \E c \in Conns, t \in Trains, j \in Seats :
              /\ doing[s] = Paying(c)
              /\ t = req[s][c].shift_id
              /\ j \in Chosen(s, c)
              /\ paid' = [paid EXCEPT ![t] = paid[t] \cup {j}]
<1>1. PICK c \in Conns : doing[s] = Paying(c)
  BY DoingKinds DEF PaySeat, Paying
<1>2. PICK t \in Trains : t = req[s][c].shift_id
  BY <1>1, DoingHasShift DEF Paying
<1>3. doing[s].conn = c
  BY <1>1 DEF Paying
<1>4. PICK j \in Seats :
        /\ j \in Chosen(s, c)
        /\ paid' = [paid EXCEPT ![req[s][c].shift_id] = paid[req[s][c].shift_id] \cup {j}]
  BY <1>3 DEF PaySeat, IsFirst
<1>5. QED  BY <1>1, <1>2, <1>4

LEMMA PaidStays ==
    ASSUME IInv, [Next]_vars, NEW t \in Trains
    PROVE  paid[t] \subseteq paid'[t]
<1>1. ASSUME NEW s \in Servers, PaySeat(s)
      PROVE  paid[t] \subseteq paid'[t]
  <2>1. PICK c \in Conns, u \in Trains, j \in Seats : paid' = [paid EXCEPT ![u] = paid[u] \cup {j}]
    BY <1>1, PaySeatWrites
  <2>2. QED  BY <2>1 DEF IInv, TypeOK
<1>2. QED  BY <1>1, OnlyPaymentsWrite

(* With one server its record lock is there until the seat is sold.        *)
LEMMA SoldWasLocked ==
    ASSUME IInv, OneServerInv, NEW s \in Servers, Servers = {s}, [Next]_vars,
           NEW t \in Trains, NEW j \in Seats, j \in paid'[t], j \notin paid[t]
    PROVE  flock[t][j] # Nobody
<1>1. PaySeat(s)
  BY OnlyPaymentsWrite
<1>2. PICK c \in Conns, u \in Trains, k \in Seats :
        /\ doing[s] = Paying(c)
        /\ u = req[s][c].shift_id
        /\ k \in Chosen(s, c)
        /\ paid' = [paid EXCEPT ![u] = paid[u] \cup {k}]
  BY <1>1, PaySeatWrites
<1>3. u = t /\ k = j
  BY <1>2 DEF IInv, TypeOK
<1>4. seat_lock[s][t][j] = c
  <2>1. doing[s] # Closing(c)
    BY <1>2 DEF Paying, Closing
  <2>2. Holds(s, c, j) /\ req[s][c].shift_id = t
    BY <1>2, <1>3 DEF Holds, Chosen
  <2>3. QED  BY <2>1, <2>2 DEF IInv, HolderInv
<1>5. flock[t][j] = s
  BY <1>4, TrainAssumption DEF OneServerInv, FlockInv, NoConn
<1>6. QED  BY <1>5, TrainAssumption DEF Nobody

-----------------------------------------------------------------------------
(* The read server.                                                        *)

LEMMA TruthValues ==
    ASSUME NEW j \in Seats
    PROVE  /\ Truth(j) \in {"0", "1", "2"}
           /\ Truth(j) = "1" <=> j \in paid[Listed]
           /\ j \notin paid[Listed] => (Truth(j) = "2" <=> flock[Listed][j] # Nobody)
BY DEF Truth, Listed

LEMMA TruthValuesNext ==
    ASSUME NEW j \in Seats
    PROVE  /\ Truth(j)' \in {"0", "1", "2"}
           /\ Truth(j)' = "1" <=> j \in paid'[Listed']
           /\ j \notin paid'[Listed'] => (Truth(j)' = "2" <=> flock'[Listed'][j] # Nobody)
BY DEF Truth, Listed

LEMMA Recorded ==
    ASSUME CheckerInv, Record
    PROVE  /\ seen' \in [Seats -> SUBSET {"0", "1", "2"}]
           /\ ~Listing' => seen' = NothingSeen
           /\ Listing' => \A j \in Seats : seen'[j] = seen[j] \cup {Truth(j)'}
<1>1. CASE asking' = Nothing
  BY <1>1 DEF Record, NothingSeen, Listing
<1>2. CASE asking' # Nothing
  BY <1>2, TruthValuesNext DEF Record, CheckerInv, Listing
<1>3. QED  BY <1>1, <1>2

LEMMA InitialListing == InitListing => CheckerInv
BY DEF InitListing, CheckerInv, InitChecker, InitLine, NothingSeen, Listing, Line

LEMMA AskingIsSomething == ASSUME CheckerInv PROVE Listing <=> asking \in Asking
BY DEF CheckerInv, Listing, Asking, Nothing

LEMMA CheckerStep ==
    ASSUME CheckerInv, [NextListing]_<<vars, listVars, seen>>
    PROVE  CheckerInv'
<1>1. CASE UNCHANGED <<vars, listVars, seen>>
  BY <1>1 DEF listVars, CheckerInv, Listing, Listed
<1>2. ASSUME Record,
             checker' \in [ReadConns -> [status : {"INVALID", "SHIFT"},
                                         shift_id : Trains \cup {NoShift}]],
             checkLine' \in [ReadConns -> Line],
             asking' \in {Nothing} \cup Asking,
             Listing' => Listed' \in Trains
      PROVE  CheckerInv'
  BY <1>2, Recorded DEF CheckerInv
<1>3. CASE Record /\ UNCHANGED listVars
  BY <1>2, <1>3 DEF listVars, CheckerInv, Listing, Listed
<1>4. CASE Record /\ ReaderCrash
  BY <1>2, <1>4 DEF ReaderCrash, InitChecker, InitLine, Line, Listing
<1>5. CASE Record /\ QueryLock
  <2>1. asking \in Asking
    BY <1>5 DEF QueryLock, CheckerInv, Nothing
  <2> DEFINE j == asking.seat
             byte == ShownWith(asking.buf[j], flock[Listed][j])
             new == [asking EXCEPT !.buf = [asking.buf EXCEPT ![j] = byte],
                                   !.op = AfterSeat(j),
                                   !.seat = IF AfterSeat(j) = "send" THEN j ELSE j + 1]
  <2>2. asking' = new /\ UNCHANGED <<checker, checkLine>>
    BY <1>5, <2>1 DEF QueryLock, Listed, Asking
  <2>3. byte \in {"0", "1", "2"}
    BY <2>1 DEF ShownWith, Asking
  <2>4. AfterSeat(j) \in {"query", "send"} /\ (AfterSeat(j) # "send" => j + 1 \in Seats)
    BY <2>1, TrainAssumption DEF AfterSeat, Asking, Seats
  <2>5. new \in Asking /\ new.conn = asking.conn
    <3> HIDE DEF byte
    <3>1. QED  BY <2>1, <2>3, <2>4 DEF Asking
  <2>6. Listed' = Listed /\ Listed \in Trains
    <3> HIDE DEF new
    <3>1. QED  BY <2>1, <2>2, <2>5, AskingIsSomething DEF Listed, CheckerInv
  <2> HIDE DEF new
  <2>7. QED  BY <1>2, <1>5, <2>2, <2>5, <2>6 DEF CheckerInv
<1>6. CASE Record /\ SendListing
  BY <1>2, <1>6 DEF SendListing, CheckerInv, Listing
<1>7. ASSUME NEW c \in ReadConns, Record,
             \/ CheckerLeaves(c) \/ CheckerExpires(c)
             \/ AcceptChecker(c) \/ CheckerTimesOut(c) \/ CheckerEof(c) \/ CheckerExits(c)
      PROVE  CheckerInv'
  <2>1. CASE CheckerLeaves(c) \/ CheckerExpires(c) \/ CheckerEof(c)
    <3>1. checkLine' \in [ReadConns -> Line] /\ UNCHANGED <<checker, asking>>
      <4>1. checkLine[c] \in Line
        BY DEF CheckerInv
      <4>2. /\ [checkLine[c] EXCEPT !.gone = TRUE] \in Line
            /\ [checkLine[c] EXCEPT !.expired = TRUE] \in Line
            /\ [checkLine[c] EXCEPT !.eof = TRUE] \in Line
        BY <4>1 DEF Line
      <4>3. \E new \in Line : checkLine' = [checkLine EXCEPT ![c] = new]
        BY <2>1, <4>2 DEF CheckerLeaves, CheckerExpires, CheckerEof
      <4>4. QED  BY <2>1, <4>3 DEF CheckerLeaves, CheckerExpires, CheckerEof, CheckerInv
    <3>2. QED  BY <1>2, <1>7, <3>1 DEF CheckerInv, Listing, Listed
  <2>2. CASE AcceptChecker(c) \/ CheckerTimesOut(c) \/ CheckerExits(c)
    <3>1. asking = Nothing /\ asking' = Nothing
      BY <2>2 DEF AcceptChecker, CheckerTimesOut, CheckerExits, ReadsChecker, CloseChecker
    <3>2. checkLine' \in [ReadConns -> Line]
      <4>1. InitLine \in Line
        BY DEF InitLine, Line
      <4>2. checkLine' = [checkLine EXCEPT ![c] = InitLine]
        BY <2>2 DEF AcceptChecker, CheckerTimesOut, CheckerExits, CloseChecker
      <4>3. QED  BY <4>1, <4>2 DEF CheckerInv
    <3>3. checker' \in [ReadConns -> [status : {"INVALID", "SHIFT"},
                                      shift_id : Trains \cup {NoShift}]]
      BY <2>2 DEF AcceptChecker, CheckerTimesOut, CheckerExits, CloseChecker, CheckerInv, InitChecker
    <3>4. QED  BY <1>2, <1>7, <3>1, <3>2, <3>3 DEF Listing
  <2>3. QED  BY <1>7, <2>1, <2>2
<1>8. ASSUME NEW c \in ReadConns, NEW t \in Trains, Record, ReadFile(c, t)
      PROVE  CheckerInv'
  <2>1. asking' \in Asking /\ asking'.conn = c
    BY <1>8, TrainAssumption DEF ReadFile, Asking, Bytes, Seats
  <2>2. /\ checker' \in [ReadConns -> [status : {"INVALID", "SHIFT"},
                                       shift_id : Trains \cup {NoShift}]]
        /\ checker'[c].shift_id = t
    BY <1>8 DEF ReadFile, CheckerInv
  <2>3. checkLine' \in [ReadConns -> Line]
    BY <1>8 DEF ReadFile, CheckerInv
  <2>4. QED  BY <1>2, <1>8, <2>1, <2>2, <2>3 DEF Listed
<1>9. QED
  BY <1>1, <1>3, <1>4, <1>5, <1>6, <1>7, <1>8 DEF NextListing, ReaderStep

-----------------------------------------------------------------------------
(* What is known of a seat while the rest of the listing is made.          *)

LEMMA SeatGoesOn ==
    ASSUME CheckerInv, NEW j \in Seats, Listing, ReadSeat(j),
           UNCHANGED asking, Listed' = Listed, paid[Listed] \subseteq paid'[Listed],
           seen'[j] = seen[j] \cup {Truth(j)'}
    PROVE  ReadSeat(j)'
<1>1. Truth(j)' \in seen'[j]
  OBVIOUS
<1>2. ASSUME asking.buf[j] = "1"
      PROVE  j \in paid'[Listed] /\ seen'[j] = {"1"}
  BY <1>2, TruthValuesNext DEF ReadSeat
<1>3. asking.buf[j] # "1" => seen'[j] # {"1"}
  BY DEF ReadSeat
<1>4. Queried(j)' <=> Queried(j)
  BY DEF Queried
<1>5. QED  BY <1>1, <1>2, <1>3, <1>4 DEF ReadSeat

LEMMA SoldSeatGoesOn ==
    ASSUME CheckerInv, NEW j \in Seats, Listing, ReadSeat(j), SoldSeat(j),
           UNCHANGED asking, Listed' = Listed,
           j \in paid'[Listed] /\ j \notin paid[Listed] => flock[Listed][j] # Nobody,
           seen'[j] = seen[j] \cup {Truth(j)'}
    PROVE  SoldSeat(j)'
<1>1. asking.buf[j] = "0" /\ j \in paid'[Listed] => "2" \in seen'[j]
  BY TruthValues DEF SoldSeat, ReadSeat
<1>2. Queried(j)' <=> Queried(j)
  BY DEF Queried
<1>3. QED  BY <1>1, <1>2 DEF SoldSeat

(* The file is read.                                                       *)
LEMMA ReadFileStep ==
    ASSUME CheckerInv, Record, UNCHANGED vars,
           NEW c \in ReadConns, NEW t \in Trains, ReadFile(c, t),
           NEW j \in Seats
    PROVE  ReadSeat(j)' /\ SoldSeat(j)'
<1>1. /\ asking' = [op |-> "query", conn |-> c, seat |-> 1, buf |-> Bytes(t)]
      /\ Listed' = t
      /\ asking = Nothing
  BY DEF ReadFile, ReadsChecker, CheckerInv, Listed
<1>2. Listing' /\ ~Listing
  BY <1>1 DEF Listing, Nothing
<1>3. seen'[j] = {Truth(j)'}
  BY <1>2, Recorded DEF CheckerInv, NothingSeen
<1>4. paid' = paid
  BY DEF vars
<1>5. asking'.buf[j] = IF j \in paid[t] THEN "1" ELSE "0"
  BY <1>1 DEF Bytes
<1>6. ~Queried(j)'
  BY <1>1 DEF Queried, Seats
<1>7. QED  BY <1>1, <1>3, <1>4, <1>5, <1>6, TruthValuesNext DEF ReadSeat, SoldSeat

(* A lock is asked for.                                                    *)
LEMMA QueryLockChanges ==
    ASSUME CheckerInv, QueryLock
    PROVE  /\ Listing /\ Listing'
           /\ Listed' = Listed /\ Listed \in Trains
           /\ asking.seat \in Seats /\ ~Queried(asking.seat)
           /\ asking'.buf[asking.seat] = ShownWith(asking.buf[asking.seat], flock[Listed][asking.seat])
           /\ \A j \in Seats \ {asking.seat} : asking'.buf[j] = asking.buf[j]
           /\ \A j \in Seats : Queried(j)' <=> Queried(j) \/ j = asking.seat
<1>1. asking \in Asking
  BY DEF QueryLock, CheckerInv, Nothing
<1> DEFINE j == asking.seat
           byte == ShownWith(asking.buf[j], flock[Listed][j])
           buf == [asking.buf EXCEPT ![j] = byte]
           seat == IF AfterSeat(j) = "send" THEN j ELSE j + 1
           new == [asking EXCEPT !.buf = buf, !.op = AfterSeat(j), !.seat = seat]
<1>2. asking' = new /\ UNCHANGED checker /\ asking.op = "query"
  BY <1>1 DEF QueryLock, Listed, Asking
<1>3. /\ new.buf = buf /\ new.op = AfterSeat(j) /\ new.seat = seat
      /\ new.conn = asking.conn /\ new # Nothing
  BY <1>1 DEF Asking, Nothing, AfterSeat
<1>4. /\ buf[j] = byte
      /\ \A k \in Seats \ {j} : buf[k] = asking.buf[k]
  BY <1>1 DEF Asking
<1> HIDE DEF new, buf, byte
<1>5. ASSUME NEW k \in Seats
      PROVE  Queried(k)' <=> Queried(k) \/ k = j
  <2>1. j \in Nat /\ k \in Nat /\ k <= SEAT_NUM /\ SEAT_NUM \in Nat
    BY <1>1, TrainAssumption DEF Asking, Seats
  <2>2. CASE j = SEAT_NUM
    BY <1>2, <1>3, <2>1, <2>2 DEF Queried, AfterSeat
  <2>3. CASE j # SEAT_NUM
    BY <1>2, <1>3, <2>1, <2>3 DEF Queried, AfterSeat
  <2>4. QED  BY <2>2, <2>3
<1>6. Listed' = Listed /\ Listing /\ Listed \in Trains
  BY <1>1, <1>2, <1>3, AskingIsSomething DEF Listed, CheckerInv
<1>7. ~Queried(j)
  BY <1>1, <1>2, TrainAssumption DEF Queried, Asking, Seats
<1>8. QED  BY <1>1, <1>2, <1>3, <1>4, <1>5, <1>6, <1>7 DEF Listing, Asking, byte

LEMMA QueryLockStep ==
    ASSUME CheckerInv, Record, UNCHANGED vars, QueryLock,
           NEW j \in Seats, ReadSeat(j)
    PROVE  /\ ReadSeat(j)'
           /\ SoldSeat(j) => SoldSeat(j)'
<1>1. /\ Listed' = Listed /\ Listing' /\ Listing
      /\ Queried(j)' <=> Queried(j) \/ j = asking.seat
      /\ j # asking.seat => asking'.buf[j] = asking.buf[j]
  BY QueryLockChanges
<1>2. paid' = paid /\ flock' = flock
  BY DEF vars
<1>3. Truth(j)' = Truth(j)
  BY <1>1, <1>2, TruthValues, TruthValuesNext
<1>4. seen'[j] = seen[j]
  BY <1>1, <1>3, Recorded DEF ReadSeat
<1>5. CASE j # asking.seat
  BY <1>1, <1>2, <1>3, <1>4, <1>5 DEF ReadSeat, SoldSeat
<1>6. CASE j = asking.seat
  <2>1. /\ asking'.buf[j] = ShownWith(asking.buf[j], flock[Listed][j])
        /\ ~Queried(j) /\ Queried(j)'
    BY <1>6, <1>1, QueryLockChanges
  <2>2. asking.buf[j] # "2"
    BY <2>1 DEF ReadSeat
  <2>3. asking.buf[j] \in {"0", "1", "2"}
    BY <1>1, AskingIsSomething DEF Asking
  <2>4. CASE asking.buf[j] = "1"
    BY <1>1, <1>2, <1>3, <1>4, <2>1, <2>4 DEF ReadSeat, SoldSeat, ShownWith
  <2>5. CASE asking.buf[j] = "0" /\ flock[Listed][j] # Nobody
    <3>1. asking'.buf[j] = "2"
      BY <2>1, <2>5 DEF ShownWith
    <3>2. ReadSeat(j)'
      BY <1>1, <1>2, <1>3, <1>4, <2>1, <2>5, <3>1 DEF ReadSeat
    <3>3. SoldSeat(j) => "2" \in seen[j]
      BY <2>5, TruthValues DEF SoldSeat, ReadSeat
    <3>4. QED  BY <1>4, <3>1, <3>2, <3>3 DEF SoldSeat
  <2>6. CASE asking.buf[j] = "0" /\ flock[Listed][j] = Nobody
    <3>1. asking'.buf[j] = "0"
      BY <2>1, <2>6 DEF ShownWith
    <3>2. ReadSeat(j)'
      BY <1>1, <1>2, <1>3, <1>4, <2>1, <2>6, <3>1 DEF ReadSeat
    <3>3. SoldSeat(j) => SoldSeat(j)'
      <4>1. j \notin paid[Listed] => Truth(j) = "0"
        BY <2>6, TruthValues
      <4>2. QED
        BY <1>1, <1>2, <1>4, <2>6, <3>1, <4>1, TruthValues DEF SoldSeat, ReadSeat
    <3>4. QED  BY <3>2, <3>3
  <2>7. QED  BY <2>2, <2>3, <2>4, <2>5, <2>6
<1>7. QED  BY <1>5, <1>6

(* Any other step of the read server begins nothing, and none comes between*)
(* the question and the answer but of other connections.                   *)
LEMMA OtherReaderStep ==
    ASSUME ReaderStep, ~QueryLock, Listing',
           ~\E c \in ReadConns, t \in Trains : ReadFile(c, t),
           CheckerInv
    PROVE  UNCHANGED asking /\ Listed' = Listed
<1>1. ~ReaderCrash /\ ~SendListing
  BY DEF ReaderCrash, SendListing, Listing
<1>2. PICK c \in ReadConns :
        \/ CheckerLeaves(c) \/ CheckerExpires(c)
        \/ AcceptChecker(c) \/ CheckerTimesOut(c) \/ CheckerEof(c) \/ CheckerExits(c)
  BY <1>1 DEF ReaderStep
<1>3. UNCHANGED asking
  BY <1>2 DEF CheckerLeaves, CheckerExpires, AcceptChecker, CheckerTimesOut, CheckerEof,
              CheckerExits, CloseChecker
<1>4. ~AcceptChecker(c) /\ ~CheckerTimesOut(c) /\ ~CheckerExits(c)
  BY <1>3 DEF AcceptChecker, CheckerTimesOut, CheckerExits, ReadsChecker, Listing
<1>5. UNCHANGED checker
  BY <1>2, <1>4 DEF CheckerLeaves, CheckerExpires, CheckerEof
<1>6. QED  BY <1>3, <1>5 DEF Listed

(* Either the file or a lock is looked at, or the listing stays what it    *)
(* is and the servers do something or nothing.                             *)
LEMMA ListingSteps ==
    ASSUME CheckerInv, Listing', NextListing
    PROVE  \/ UNCHANGED vars /\ QueryLock
           \/ UNCHANGED vars /\ \E c \in ReadConns, t \in Trains : ReadFile(c, t)
           \/ UNCHANGED asking /\ Listed' = Listed /\ Listing
<1>1. CASE Next /\ UNCHANGED listVars
  BY <1>1 DEF listVars, Listed, Listing
<1>2. CASE ReaderStep /\ UNCHANGED vars
  BY <1>2, OtherReaderStep DEF Listing
<1>3. QED  BY <1>1, <1>2 DEF NextListing

LEMMA ReadStep ==
    ASSUME IInv, CheckerInv, ReadInv, [NextListing]_<<vars, listVars, seen>>
    PROVE  ReadInv'
<1>1. CASE UNCHANGED <<vars, listVars, seen>>
  BY <1>1 DEF vars, listVars, ReadInv, ReadSeat, Queried, Truth, Listing, Listed
<1>2. CASE NextListing
  <2> SUFFICES ASSUME Listing', NEW j \in Seats PROVE ReadSeat(j)'
    BY DEF ReadInv
  <2>1. Record
    BY <1>2 DEF NextListing
  <2>2. CASE UNCHANGED vars /\ QueryLock
    BY <2>1, <2>2, QueryLockStep, QueryLockChanges DEF ReadInv
  <2>3. CASE UNCHANGED vars /\ \E c \in ReadConns, t \in Trains : ReadFile(c, t)
    BY <2>1, <2>3, ReadFileStep
  <2>4. CASE UNCHANGED asking /\ Listed' = Listed /\ Listing
    <3>1. paid[Listed] \subseteq paid'[Listed]
      BY <1>2, <2>4, BookingGoesOn, PaidStays DEF CheckerInv
    <3>2. QED  BY <2>1, <2>4, <3>1, Recorded, SeatGoesOn DEF ReadInv
  <2>5. QED  BY <1>2, <2>2, <2>3, <2>4, ListingSteps
<1>3. QED  BY <1>1, <1>2

LEMMA SoldStep ==
    ASSUME IInv, OneServerInv, CheckerInv, ReadInv, SoldInv, NEW s \in Servers, Servers = {s},
           [NextListing]_<<vars, listVars, seen>>
    PROVE  SoldInv'
<1>1. CASE UNCHANGED <<vars, listVars, seen>>
  BY <1>1 DEF vars, listVars, SoldInv, SoldSeat, Queried, Listing, Listed
<1>2. CASE NextListing
  <2> SUFFICES ASSUME Listing', NEW j \in Seats PROVE SoldSeat(j)'
    BY DEF SoldInv
  <2>1. Record
    BY <1>2 DEF NextListing
  <2>2. CASE UNCHANGED vars /\ QueryLock
    BY <2>1, <2>2, QueryLockStep, QueryLockChanges DEF ReadInv, SoldInv
  <2>3. CASE UNCHANGED vars /\ \E c \in ReadConns, t \in Trains : ReadFile(c, t)
    BY <2>1, <2>3, ReadFileStep
  <2>4. CASE UNCHANGED asking /\ Listed' = Listed /\ Listing
    <3>1. j \in paid'[Listed] /\ j \notin paid[Listed] => flock[Listed][j] # Nobody
      BY <1>2, <2>4, BookingGoesOn, SoldWasLocked DEF CheckerInv
    <3>2. QED  BY <2>1, <2>4, <3>1, Recorded, SoldSeatGoesOn DEF ReadInv, SoldInv
  <2>5. QED  BY <1>2, <2>2, <2>3, <2>4, ListingSteps
<1>3. QED  BY <1>1, <1>2

-----------------------------------------------------------------------------
LEMMA ReadInvariance == SpecListing => [](CheckerInv /\ ReadInv)
<1>1. InitListing => CheckerInv /\ ReadInv
  BY InitialListing DEF InitListing, ReadInv, Listing
<1>2. IInv /\ (CheckerInv /\ ReadInv) /\ [NextListing]_<<vars, listVars, seen>>
         => (CheckerInv /\ ReadInv)'
  BY CheckerStep, ReadStep
<1>3. QED  BY <1>1, <1>2, BookingInvariance, PTL DEF SpecListing

LEMMA SoldInvariance ==
    ASSUME NEW s \in Servers, Servers = {s}
    PROVE  SpecListing => []SoldInv
<1>1. InitListing => SoldInv
  BY DEF InitListing, SoldInv, Listing
<1>2. (IInv /\ OneServerInv) /\ (CheckerInv /\ ReadInv) /\ SoldInv
         /\ [NextListing]_<<vars, listVars, seen>> => SoldInv'
  BY SoldStep
<1>3. QED  BY <1>1, <1>2, OneServerListing, ReadInvariance, PTL DEF SpecListing

(* A seat is listed as paid for exactly if it has been so since the client *)
(* asked, with any number of write servers: they write nothing but 1.      *)
THEOREM ListsThePaid == SpecListing => []PaidIsListed
<1>1. CheckerInv /\ ReadInv => PaidIsListed
  <2> SUFFICES ASSUME CheckerInv, ReadInv, asking.op = "send", NEW j \in Seats
               PROVE  asking.buf[j] = "1" <=> seen[j] = {"1"}
    BY DEF PaidIsListed
  <2>1. Listing
    BY DEF Listing, Nothing
  <2>2. QED  BY <2>1 DEF ReadInv, ReadSeat
<1>2. QED  BY <1>1, ReadInvariance, PTL

(* With one write server a seat that is listed as reserved was reserved at *)
(* some moment between the question and the answer, though the lock was    *)
(* asked for long after the file was read and may be that of a seat that   *)
(* has been sold.                                                          *)
THEOREM OneServerListsTheReserved ==
    ASSUME NEW s \in Servers, Servers = {s}
    PROVE  SpecListing => []ReservedWasReserved
<1>1. SoldInv => ReservedWasReserved
  BY DEF SoldInv, SoldSeat, ReservedWasReserved, Listing, Nothing
<1>2. QED  BY <1>1, SoldInvariance, PTL

(* With one write server a seat that is listed as free was free at some    *)
(* moment, or was reserved first and sold before its lock was asked for.   *)
THEOREM OneServerListsTheFree ==
    ASSUME NEW s \in Servers, Servers = {s}
    PROVE  SpecListing => []FreeWasFreeOrIsSold
<1>1. SoldInv => FreeWasFreeOrIsSold
  BY DEF SoldInv, SoldSeat, FreeWasFreeOrIsSold, Listing, Queried, Nothing
<1>2. QED  BY <1>1, SoldInvariance, PTL
=============================================================================
