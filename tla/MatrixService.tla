---------------------------- MODULE MatrixService ----------------------------
(***************************************************************************)
(* What the pool of hw4 promises main: requests are submitted one by one,  *)
(* each is completed once, in any order, and what main prints at the end   *)
(* is the product of every request.                                        *)
(***************************************************************************)
EXTENDS Naturals

CONSTANTS
    T,          \* the number of requests
    Results     \* the results of all of them

VARIABLES submitted, completed, output

serviceVars == <<submitted, completed, output>>

NoOutput == <<>>

Init ==
    /\ submitted = 0
    /\ completed = {}
    /\ output = NoOutput

Submit ==
    /\ submitted < T
    /\ submitted' = submitted + 1
    /\ UNCHANGED <<completed, output>>

Complete(r) ==
    /\ r \notin completed
    /\ completed' = completed \cup {r}
    /\ UNCHANGED <<submitted, output>>

Collect ==
    /\ submitted = T
    /\ completed = 1..T
    /\ output = NoOutput
    /\ output' = Results
    /\ UNCHANGED <<submitted, completed>>

Next == Submit \/ (\E r \in 1..submitted : Complete(r)) \/ Collect

Spec == Init /\ [][Next]_serviceVars
=============================================================================
