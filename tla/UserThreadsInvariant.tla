------------------------- MODULE UserThreadsInvariant -------------------------
(***************************************************************************)
(* The inductive invariant of UserThreads, IInv, and what has to be added  *)
(* to two of the invariants of its run to make them inductive.             *)
(***************************************************************************)
EXTENDS UserThreads, Functions

(* The thread that runs or has just run and is in no queue.                *)
Running == IF current \in Threads /\ jump # FromSleep THEN {current} ELSE {}
Ready == Range(Contents(ready))
Waiting == Range(Contents(waiting))
Live == {t \in Threads : at[t] # "exited"}

(* The queues hold threads, each once.                                     *)
QueueInv ==
    /\ Contents(ready) \in Seq(Threads)
    /\ IsInjective(Contents(ready))
    /\ Contents(waiting) \in Seq(Threads)
    /\ IsInjective(Contents(waiting))

(* Every live thread is in one place.                                      *)
PlaceInv ==
    /\ Running \cup sleeping \cup Ready \cup Waiting = Live
    /\ Running \cap (sleeping \cup Ready \cup Waiting) = {}
    /\ sleeping \cap (Ready \cup Waiting) = {}
    /\ Ready \cap Waiting = {}
    /\ sleepingSize = Cardinality(sleeping)

(* A thread at this place has called read_lock or write_lock in vain.      *)
AtLock(t) ==
    \/ at[t] = "readLock" /\ tcb[t].waiting_for = 1
    \/ at[t] = "writeLock" /\ tcb[t].waiting_for = 2

(* What longjmp carries agrees with what the thread has done; a thread     *)
(* that goes to the waiting queue has found the lock taken.                *)
JumpInv ==
    /\ program # "running" => jump = NoJump
    /\ current = NoThread <=> jump = First \/ program = "returned"
    /\ jump = FromSleep => current \in sleeping
    /\ jump = FromLock => current \in Threads /\ AtLock(current) /\ ~LetsIn(current)
    /\ jump = FromExit => current \in Threads
    /\ \A t \in Threads : at[t] = "leaving" <=> current = t /\ jump = FromExit

(* The routines stay within their own code; who sleeps or waits has just   *)
(* called thread_sleep or a lock.                                          *)
RoutineInv ==
    /\ at[Idle] \in {"start", "yield"}
    /\ \A t \in Fibonacci \cup Pm : at[t] \in {"start", "yield", "leaving", "exited"}
    /\ \A t \in Enroll : at[t] # "yield"
    /\ \A t \in sleeping : at[t] = "slept"
    /\ \A t \in Waiting : AtLock(t)

IInv ==
    /\ TypeOK
    /\ QueueInv
    /\ PlaceInv
    /\ JumpInv
    /\ RoutineInv
    /\ LockIsHonest

-----------------------------------------------------------------------------
(* The numbers of the turn before.                                         *)
RightNumbers(t) ==
    tcb[t].i > 0 =>
        /\ t \in Fibonacci => /\ tcb[t].f_cur = Fib[tcb[t].i]
                              /\ tcb[t].i >= 2 => tcb[t].f_prev = Fib[tcb[t].i - 1]
        /\ t \in Pm => /\ tcb[t].f_cur = AlternatingSum(tcb[t].i)
                       /\ tcb[t].f_prev = AlternatingSum(tcb[t].i)

NumbersInv == \A t \in Threads : RightNumbers(t)

(* Every spot that is gone went to a thread.                               *)
SpotsInv == q_p + q_s + Cardinality(Enrolled) = SeatsP + SeatsS
=============================================================================
