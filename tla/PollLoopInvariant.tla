-------------------------- MODULE PollLoopInvariant --------------------------
(***************************************************************************)
(* The inductive invariants of PollLoop: of its slots, of what poll has    *)
(* found, of the clock, and of how late a connection may be.               *)
(***************************************************************************)
EXTENDS PollLoop

TypeOK ==
    /\ fds \in [Slots -> Conns \cup {NoConn}]
    /\ revents \in [Slots -> BOOLEAN]
    /\ listening \in BOOLEAN
    /\ open \subseteq Conns
    /\ remaining_time \in [Conns -> Ints]
    /\ readable \subseteq open
    /\ at \in {"poll", "accept", "visit", "exited"}
    /\ slot \in Slots
    /\ clock \in Ints
    /\ turn \in 0..MaxTurn
    /\ failed \in 0..MaxFailures
    /\ age \in [Conns -> 0..Old]

(* The slots hold the open connections, each once.                         *)
SlotInv ==
    /\ \A i \in Slots : fds[i] # NoConn => fds[i] \in open
    /\ \A c \in open : \E i \in Slots : fds[i] = c
    /\ \A i, k \in Slots : fds[i] = fds[k] /\ fds[i] # NoConn => i = k

(* The slots that have to be visited in this turn.                         *)
ToVisit(i) == at = "accept" \/ (at = "visit" /\ i >= slot)

(* What poll has found is still there when it is the turn of the slot; a   *)
(* slot that was empty then is filled without.                             *)
FoundInv == \A i \in Slots : ToVisit(i) /\ revents[i] => fds[i] \in readable

(* A deadline is TIME_OUT after the connection began, but for the width of *)
(* an int.                                                                 *)
Expected(c) == remaining_time[c] - TIME_OUT + age[c]
ClockInv ==
    \A c \in open :
        age[c] < Old => clock \in {Expected(c), Expected(c) - Width, Expected(c) + Width}

(* How long it is since the deadline may have passed first: the rest of    *)
(* the turn in which the connection was visited, the turns without visits, *)
(* and this turn.                                                          *)
Late(i) ==
    CASE at = "visit" /\ i < slot -> turn
      [] at = "poll" -> failed * MaxTurn + turn
      [] OTHER -> failed * MaxTurn + MaxTurn + turn

LateInv ==
    \A i \in Slots :
        fds[i] # NoConn /\ ~AtTheEdge(fds[i]) => age[fds[i]] < TIME_OUT + Late(i)

IInv ==
    /\ TypeOK
    /\ SlotInv
    /\ FoundInv
    /\ ClockInv
    /\ LateInv
=============================================================================
