------------------------------- MODULE PollLoop -------------------------------
(***************************************************************************)
(* The loop of main in hw1's server.c, which read and write server share:  *)
(* poll, accept, and a visit to every slot, with the deadlines of the      *)
(* connections.                                                            *)
(*                                                                         *)
(* poll leaves in revents what was there to read when it returned; the     *)
(* slots are visited one after the other later, and the time is looked at  *)
(* again for each of them.  What handle_read does with the bytes is in     *)
(* LineReader, and what it does with a line in TrainBooking and            *)
(* TrainListing.                                                           *)
(*                                                                         *)
(* The clock is the int into which the milliseconds since 1970 are put: it *)
(* goes on from the largest int to the smallest.                           *)
(***************************************************************************)
EXTENDS Integers, FiniteSets

CONSTANTS
    Conns,          \* the descriptors that accept can return
    NumSlots,       \* the entries of fds from the 9th on: maxfd - 9
    TIME_OUT,
    Width,          \* how many values an int has; 2^32
    MaxTurn,        \* bound: how long a turn of the loop takes at most
    MaxFailures     \* bound: how often accept fails in turns that follow each other

ASSUME LoopAssumption ==
    /\ -1 \notin Conns
    /\ IsFiniteSet(Conns)
    /\ NumSlots \in Nat \ {0}
    /\ Cardinality(Conns) <= NumSlots
    /\ TIME_OUT \in Nat \ {0}
    /\ MaxTurn \in Nat
    /\ MaxFailures \in Nat
    /\ Width \in Nat
    /\ Width % 2 = 0
    /\ Width > 2 * (TIME_OUT + (2 + MaxFailures) * MaxTurn)

Slots == 1..NumSlots
NoConn == -1

MaxInt == Width \div 2 - 1
MinInt == -(Width \div 2)
Ints == MinInt..MaxInt

(* An integer that is put into an int.                                     *)
ToInt(n) == ((n - MinInt) % Width) + MinInt

VARIABLES
    fds,            \* the descriptor in each slot
    revents,        \* whether poll found something to read there
    listening,      \* whether it found a client that wants a connection
    open,           \* the connections with a request: conn_fd is not -1
    remaining_time, \* their deadlines
    readable,       \* whether there is something to read now, or the end
    at,             \* "poll", "accept", "visit" or "exited"
    slot,           \* the slot to visit
    clock,
    turn,           \* how long this turn has taken so far
    failed,         \* in how many turns in a row accept has failed since the last visits
    age             \* history: how long each connection has been open

slotVars == <<fds, revents, listening>>
connVars == <<open, remaining_time>>
timeVars == <<clock, turn, age>>
loopVars == <<at, slot>>
vars == <<slotVars, connVars, readable, loopVars, timeVars, failed>>

(* After this long, age does not count any more.                           *)
Old == TIME_OUT + (2 + MaxFailures) * MaxTurn + 1

Init ==
    /\ fds = [i \in Slots |-> NoConn]
    /\ revents = [i \in Slots |-> FALSE]
    /\ listening = FALSE
    /\ open = {}
    /\ remaining_time = [c \in Conns |-> 0]
    /\ readable = {}
    /\ at = "poll"
    /\ slot = 1
    /\ clock \in Ints
    /\ turn = 0
    /\ failed = 0
    /\ age = [c \in Conns |-> 0]

-----------------------------------------------------------------------------
(* Outside of the server: time, and bytes or the end of a connection.      *)

Tick ==
    /\ at # "exited"
    /\ turn < MaxTurn
    /\ turn' = turn + 1
    /\ clock' = ToInt(clock + 1)
    /\ age' = [c \in Conns |-> IF c \in open /\ age[c] < Old THEN age[c] + 1 ELSE age[c]]
    /\ UNCHANGED <<slotVars, connVars, readable, loopVars, failed>>

Arrive(c) ==
    /\ at # "exited"
    /\ c \in open \ readable
    /\ readable' = readable \cup {c}
    /\ UNCHANGED <<slotVars, connVars, loopVars, timeVars, failed>>

-----------------------------------------------------------------------------
(* poll returns when there is something to do, or after 50 milliseconds.   *)
Poll ==
    /\ at = "poll"
    /\ revents' = [i \in Slots |-> fds[i] \in readable]
    /\ listening' \in BOOLEAN
    /\ at' = "accept"
    /\ turn' = 0
    /\ UNCHANGED <<slot, fds, connVars, readable, clock, age, failed>>

StartVisits ==
    /\ at' = "visit"
    /\ slot' = 1

NobodyKnocks ==
    /\ at = "accept"
    /\ ~listening
    /\ StartVisits
    /\ UNCHANGED <<slotVars, connVars, readable, timeVars, failed>>

FirstFree(i) == fds[i] = NoConn /\ \A k \in 1..i-1 : fds[k] # NoConn

(* Mutant: the deadline of the last connection stays.                      *)
AcceptWithOldDeadline(c) ==
    /\ at = "accept"
    /\ listening
    /\ c \notin open
    /\ open' = open \cup {c}
    /\ fds' = [i \in Slots |-> IF FirstFree(i) THEN c ELSE fds[i]]
    /\ listening' = FALSE
    /\ StartVisits
    /\ age' = [age EXCEPT ![c] = 0]
    /\ UNCHANGED <<remaining_time, revents, readable, clock, turn, failed>>

Accept(c) ==
    /\ at = "accept"
    /\ listening
    /\ c \notin open
    /\ open' = open \cup {c}
    /\ remaining_time' = [remaining_time EXCEPT ![c] = ToInt(clock + TIME_OUT)]
    /\ fds' = [i \in Slots |-> IF FirstFree(i) THEN c ELSE fds[i]]
    /\ listening' = FALSE
    /\ StartVisits
    /\ age' = [age EXCEPT ![c] = 0]
    /\ UNCHANGED <<revents, readable, clock, turn, failed>>

(* EINTR, EAGAIN or ENFILE: main goes on with the next turn, and visits    *)
(* nobody.                                                                 *)
AcceptFails ==
    /\ at = "accept"
    /\ listening
    /\ failed < MaxFailures
    /\ failed' = failed + 1
    /\ at' = "poll"
    /\ UNCHANGED <<slot, slotVars, connVars, readable, timeVars>>

(* The server has used up its descriptors: errno is EMFILE, and            *)
(* accept_conn ends the process.                                           *)
AcceptExits ==
    /\ at = "accept"
    /\ listening
    /\ open = Conns
    /\ at' = "exited"
    /\ UNCHANGED <<slot, slotVars, connVars, readable, timeVars, failed>>

-----------------------------------------------------------------------------
(* The visit of a slot.                                                    *)

At(i) == at = "visit" /\ slot = i

(* Mutant: the last slot is not visited.                                   *)
GoOnOneShort(i) ==
    IF i >= NumSlots - 1
    THEN at' = "poll" /\ slot' = 1 /\ failed' = 0
    ELSE at' = at /\ slot' = i + 1 /\ failed' = failed

GoOn(i) ==
    IF i = NumSlots
    THEN at' = "poll" /\ slot' = 1 /\ failed' = 0
    ELSE at' = at /\ slot' = i + 1 /\ failed' = failed

Skip(i) ==
    /\ At(i)
    /\ fds[i] = NoConn
    /\ GoOn(i)
    /\ UNCHANGED <<slotVars, connVars, readable, timeVars>>

(* Mutant: the slot keeps the descriptor.                                  *)
CloseKeepingSlot(i) ==
    /\ open' = open \ {fds[i]}
    /\ readable' = readable \ {fds[i]}
    /\ remaining_time' = [c \in Conns |-> IF c = fds[i] THEN 0 ELSE remaining_time[c]]
    /\ age' = [c \in Conns |-> IF c = fds[i] THEN 0 ELSE age[c]]
    /\ UNCHANGED fds

(* unlock, close and free_request, which clears the request.               *)
Close(i) ==
    /\ open' = open \ {fds[i]}
    /\ readable' = readable \ {fds[i]}
    /\ remaining_time' = [c \in Conns |-> IF c = fds[i] THEN 0 ELSE remaining_time[c]]
    /\ age' = [c \in Conns |-> IF c = fds[i] THEN 0 ELSE age[c]]
    /\ fds' = [fds EXCEPT ![i] = NoConn]

(* Mutant: a deadline is over one millisecond late.                        *)
PassedLate(i) == clock > remaining_time[fds[i]]

Passed(i) == clock >= remaining_time[fds[i]]

TimeOut(i) ==
    /\ At(i)
    /\ fds[i] # NoConn
    /\ Passed(i)
    /\ Close(i)
    /\ GoOn(i)
    /\ UNCHANGED <<revents, listening, clock, turn>>

Quiet(i) ==
    /\ At(i)
    /\ fds[i] # NoConn
    /\ ~Passed(i)
    /\ ~revents[i]
    /\ GoOn(i)
    /\ UNCHANGED <<slotVars, connVars, readable, timeVars>>

(* read waits when there is nothing to read.                               *)
Reads(i) ==
    /\ At(i)
    /\ fds[i] # NoConn
    /\ ~Passed(i)
    /\ revents[i]

(* handle_read: the connection stays open, ...                             *)
Serve(i) ==
    /\ Reads(i)
    /\ fds[i] \in readable
    /\ readable' = readable \ {fds[i]}
    /\ GoOn(i)
    /\ UNCHANGED <<slotVars, connVars, timeVars>>

(* ... or the client has said "exit", or something that is not allowed.    *)
Dismiss(i) ==
    /\ Reads(i)
    /\ fds[i] \in readable
    /\ Close(i)
    /\ GoOn(i)
    /\ UNCHANGED <<revents, listening, clock, turn>>

-----------------------------------------------------------------------------
Visit(i) == Skip(i) \/ TimeOut(i) \/ Quiet(i) \/ Serve(i) \/ Dismiss(i)

Loop ==
    \/ Poll
    \/ NobodyKnocks
    \/ \E c \in Conns : Accept(c)
    \/ AcceptFails
    \/ AcceptExits
    \/ \E i \in Slots : Visit(i)

Exited == at = "exited" /\ UNCHANGED vars

Next == Loop \/ Tick \/ (\E c \in Conns : Arrive(c)) \/ Exited

Spec == Init /\ [][Next]_vars

(* The kernel runs the server, and time goes on.                           *)
FairSpec == Spec /\ WF_vars(Loop) /\ WF_vars(Tick)

-----------------------------------------------------------------------------
(* Every connection has one slot, and a slot has no connection that was    *)
(* closed: the kernel gives its descriptor to somebody else.               *)
SlotsAreRight ==
    \A c \in Conns : Cardinality({i \in Slots : fds[i] = c}) = IF c \in open THEN 1 ELSE 0

(* The server reads only where there is something to read, so that no      *)
(* client can make it wait: revents is of the connection that is in the    *)
(* slot now, although slots are emptied and filled after poll.             *)
ReadDoesNotWait == \A i \in Slots : Reads(i) => fds[i] \in readable

(* A connection is not closed for its time before TIME_OUT has passed,     *)
(* unless its deadline was past the largest int.                           *)
NotClosedEarly ==
    [][\A i \in Slots :
          TimeOut(i) /\ remaining_time[fds[i]] >= MinInt + TIME_OUT
              => age[fds[i]] >= TIME_OUT]_vars

(* A connection is closed in the second turn after its deadline at the     *)
(* latest, not counting turns in which accept fails, unless the deadline   *)
(* is so near to the largest int that the clock may pass both in a turn.   *)
Slack == (2 + MaxFailures) * MaxTurn
AtTheEdge(c) == remaining_time[c] > MaxInt - Slack

ClosedInTime ==
    \A c \in open : ~AtTheEdge(c) => age[c] < TIME_OUT + (2 + failed) * MaxTurn

(* So every other connection is closed, whatever its client does.          *)
EveryConnectionEnds ==
    \A c \in Conns :
        c \in open /\ ~AtTheEdge(c) ~> c \notin open \/ at = "exited"
=============================================================================
