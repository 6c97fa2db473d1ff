----------------------------- MODULE TrainListing -----------------------------
(***************************************************************************)
(* The read server of hw1 (server.c compiled with READ_SERVER), which      *)
(* lists the seats of a train while the write servers of TrainBooking book *)
(* them.                                                                   *)
(*                                                                         *)
(* A listing is one read of the train file and then one fcntl(F_GETLK) per *)
(* seat, and write servers run between any two of these.  The read server  *)
(* never locks: unlock finds nothing in its seat_lock, so that closing a   *)
(* connection is one step.                                                 *)
(***************************************************************************)
EXTENDS TrainBooking

CONSTANT ReadConns  \* the descriptors of the read server

ASSUME ReadConnsAssumption == ReadConns # {} /\ -1 \notin ReadConns

VARIABLES
    checker,    \* requestP of the read server: status and shift_id
    checkLine,  \* what its connections are like outside of the server
    asking,     \* the listing it is in the middle of, or Nothing
    seen        \* history: what each seat has been since the listing began

listVars == <<checker, checkLine, asking>>

InitChecker == [status |-> "INVALID", shift_id |-> NoShift]

NothingSeen == [j \in Seats |-> {}]

InitListing ==
    /\ Init
    /\ checker = [c \in ReadConns |-> InitChecker]
    /\ checkLine = [c \in ReadConns |-> InitLine]
    /\ asking = Nothing
    /\ seen = NothingSeen

Checking(c) == checker[c].status # "INVALID"

-----------------------------------------------------------------------------
(* Outside of the server.                                                  *)

CheckerLeaves(c) ==
    /\ Checking(c)
    /\ ~checkLine[c].gone
    /\ checkLine' = [checkLine EXCEPT ![c].gone = TRUE]
    /\ UNCHANGED <<checker, asking>>

CheckerExpires(c) ==
    /\ Checking(c)
    /\ ~checkLine[c].expired
    /\ checkLine' = [checkLine EXCEPT ![c].expired = TRUE]
    /\ UNCHANGED <<checker, asking>>

(* As when it writes to a client that has left.                            *)
ReaderCrash ==
    /\ checker' = [c \in ReadConns |-> InitChecker]
    /\ checkLine' = [c \in ReadConns |-> InitLine]
    /\ asking' = Nothing

-----------------------------------------------------------------------------
(* The loop of main and handle_read.                                       *)

AcceptChecker(c) ==
    /\ asking = Nothing
    /\ ~Checking(c)
    /\ checker' = [checker EXCEPT ![c].status = "SHIFT"]
    /\ checkLine' = [checkLine EXCEPT ![c] = InitLine]
    /\ UNCHANGED asking

CloseChecker(c) ==
    /\ checker' = [checker EXCEPT ![c] = InitChecker]
    /\ checkLine' = [checkLine EXCEPT ![c] = InitLine]
    /\ UNCHANGED asking

CheckerTimesOut(c) ==
    /\ asking = Nothing
    /\ Checking(c)
    /\ checkLine[c].expired
    /\ CloseChecker(c)

ReadsChecker(c) ==
    /\ asking = Nothing
    /\ Checking(c)
    /\ ~checkLine[c].expired

CheckerEof(c) ==
    /\ ReadsChecker(c)
    /\ checkLine[c].gone
    /\ ~checkLine[c].eof
    /\ checkLine' = [checkLine EXCEPT ![c].eof = TRUE]
    /\ UNCHANGED <<checker, asking>>

(* "exit", or what is not a shift.                                         *)
CheckerExits(c) ==
    /\ ReadsChecker(c)
    /\ ~checkLine[c].gone
    /\ CloseChecker(c)

-----------------------------------------------------------------------------
(* print_train_info of the read server.                                    *)

(* The bytes of the train file: an even byte is '1' for a paid seat.       *)
Bytes(t) == [j \in Seats |-> IF j \in paid[t] THEN "1" ELSE "0"]

ReadFile(c, t) ==
    /\ ReadsChecker(c)
    /\ ~checkLine[c].gone
    /\ checker' = [checker EXCEPT ![c].shift_id = t]
    /\ asking' = [op |-> "query", conn |-> c, seat |-> 1, buf |-> Bytes(t)]
    /\ UNCHANGED checkLine

(* Mutant: a lock is shown whatever the file says.                         *)
ShownWithAnyLock(byte, holder) == IF holder # Nobody THEN "2" ELSE byte

(* Mutant: locks are not asked for.                                        *)
ShownWithoutLock(byte, holder) == byte

(* F_GETLK sees the locks of all other processes.                          *)
ShownWith(byte, holder) == IF holder # Nobody /\ byte = "0" THEN "2" ELSE byte

AfterSeat(j) == IF j = SEAT_NUM THEN "send" ELSE "query"

QueryLock ==
    /\ asking.op = "query"
    /\ LET j == asking.seat
           t == checker[asking.conn].shift_id
       IN  asking' = [asking EXCEPT !.buf[j] = ShownWith(@, flock[t][j]),
                                    !.op = AfterSeat(j),
                                    !.seat = IF AfterSeat(j) = "send" THEN @ ELSE @ + 1]
    /\ UNCHANGED <<checker, checkLine>>

SendListing ==
    /\ asking.op = "send"
    /\ asking' = Nothing
    /\ UNCHANGED <<checker, checkLine>>

-----------------------------------------------------------------------------
(* What a seat of the train that is being listed really is.                *)
Truth(j) ==
    LET t == checker[asking.conn].shift_id
    IN  IF j \in paid[t] THEN "1" ELSE IF flock[t][j] # Nobody THEN "2" ELSE "0"

ReaderStep ==
    \/ ReaderCrash
    \/ QueryLock
    \/ SendListing
    \/ \E c \in ReadConns :
          \/ CheckerLeaves(c) \/ CheckerExpires(c)
          \/ AcceptChecker(c) \/ CheckerTimesOut(c) \/ CheckerEof(c) \/ CheckerExits(c)
          \/ \E t \in Trains : ReadFile(c, t)

Record ==
    seen' = IF asking' = Nothing THEN NothingSeen
            ELSE [j \in Seats |-> seen[j] \cup {Truth(j)'}]

NextListing ==
    /\ \/ Next /\ UNCHANGED listVars
       \/ ReaderStep /\ UNCHANGED vars
    /\ Record

SpecListing == InitListing /\ [][NextListing]_<<vars, listVars, seen>>

-----------------------------------------------------------------------------
(* With one write server, a seat that is listed as reserved was reserved,  *)
(* and not paid for, at some moment between the client's question and the  *)
(* answer, although file and lock are looked at at different times.        *)
ReservedWasReserved ==
    asking.op = "send" =>
        \A j \in Seats : asking.buf[j] = "2" => "2" \in seen[j]

(* A seat that is listed as free was free at some moment between question  *)
(* and answer, or has been sold in between: it was reserved when the file  *)
(* was read, and given back and paid for when the lock was asked for.      *)
FreeWasFreeOrIsSold ==
    asking.op = "send" =>
        \A j \in Seats :
            asking.buf[j] = "0" =>
                "0" \in seen[j] \/ ({"1", "2"} \subseteq seen[j])

(* A seat that is listed as paid for is not free any more, and who asked   *)
(* for a seat that was paid for before is told so.                         *)
PaidIsListed ==
    asking.op = "send" =>
        \A j \in Seats : asking.buf[j] = "1" <=> seen[j] = {"1"}
=============================================================================
