----------------------------- MODULE UserThreads -----------------------------
(***************************************************************************)
(* The user-level threads of hw3: the thread library (thread_tool.h), the  *)
(* scheduler (scheduler.c) and the routines that run on them (routine.c).  *)
(*                                                                         *)
(* There is one process, and setjmp and longjmp move it between threads,   *)
(* so a step is a stretch of code that ends where another thread may take  *)
(* over or where time has passed.  From outside come signals: SIGTSTP,     *)
(* whenever the user sends it, and SIGALRM, when the alarm of the          *)
(* scheduler is due.  Both are blocked except in thread_yield, so they     *)
(* stay pending until the running thread yields or the scheduler drops     *)
(* them.                                                                   *)
(*                                                                         *)
(* Time is the time the routines sleep: sleep(1) is the only thing in the  *)
(* program that takes long.                                                *)
(***************************************************************************)
EXTENDS Integers, Sequences, FiniteSets

CONSTANTS
    Program,    \* the threads of the command line, in order
    TimeSlice,  \* time_slice
    SeatsP,     \* the initial q_p
    SeatsS,     \* the initial q_s
    THREAD_MAX, \* the length of the arrays; 100
    MaxTstp     \* bound: how often the user sends SIGTSTP

Threads == DOMAIN Program
Fibonacci == {t \in Threads : Program[t].routine = "fibonacci"}
Pm == {t \in Threads : Program[t].routine = "pm"}
Enroll == {t \in Threads : Program[t].routine = "enroll"}

(* F(47) overflows an int; thread_awake indexes an array with b, and a     *)
(* sleeper is put at its id.                                               *)
ASSUME ProgramAssumption ==
    /\ THREAD_MAX \in Nat
    /\ Program \in Seq([routine : {"fibonacci"}, n : 1..46]
                       \cup [routine : {"pm"}, n : Nat \ {0}]
                       \cup [routine : {"enroll"}, dp : Nat, ds : Nat,
                             s : Nat, b : 0..THREAD_MAX-1])
    /\ Len(Program) \in 1..THREAD_MAX-1
    /\ TimeSlice \in Nat \ {0}
    /\ SeatsP \in Nat
    /\ SeatsS \in Nat
    /\ MaxTstp \in Nat

Idle == 0       \* idle_thread, whose id is 0
NoThread == -1  \* NULL

(* ready_queue and waiting_queue are circular arrays.                      *)
INSTANCE RingQueue WITH Capacity <- THREAD_MAX, Null <- NoThread

VARIABLES
    current,        \* current_thread
    jump,           \* what longjmp carries to sched_buf, or NoJump
    at,             \* where each thread is, or goes on when it is resumed
    tcb,            \* struct tcb of each thread but idle
    ready,          \* ready_queue
    waiting,        \* waiting_queue
    sleeping,       \* the threads in sleeping_set.arr
    sleepingSize,   \* sleeping_set.size
    rwlock,         \* read_count and write_count
    q_p, q_s,       \* the remaining spots
    alarm,          \* seconds to the next SIGALRM; 0: none is set
    pending,        \* the pending signals
    tstps,          \* how many SIGTSTP the user has sent
    program         \* "running"; "returned" by scheduler; "fallen" out of idle

queueVars == <<ready, waiting, sleeping, sleepingSize>>
seatVars == <<q_p, q_s>>
signalVars == <<alarm, pending, tstps>>
vars == <<current, jump, at, tcb, queueVars, rwlock, seatVars, signalVars, program>>

(* What the calls of longjmp(sched_buf, ...) tell the scheduler.           *)
NoJump == "none"
First == "first"        \* 0
FromSignal == "signal"  \* 1
FromLock == "lock"      \* 2
FromSleep == "sleep"    \* 3
FromExit == "exit"      \* 4

(* The places in a routine where it has called thread_yield: "reading"     *)
(* and "enrolled" in enroll are those with the read and the write lock.    *)
Yields == {"yield", "reading", "choosing", "enrolled"}

Init ==
    /\ current = NoThread
    /\ jump = First
    /\ at = [t \in Threads \cup {Idle} |-> "start"]
    /\ tcb = [t \in Threads |-> [waiting_for |-> 0, sleeping_time |-> 0,
                                 i |-> 0, f_cur |-> 0, f_prev |-> 0,
                                 q_p |-> 0, q_s |-> 0, p_p |-> 0, p_s |-> 0]]
    /\ ready = PushAll(EmptyRing, [k \in 1..Len(Program) |-> k])
    /\ waiting = EmptyRing
    /\ sleeping = {}
    /\ sleepingSize = 0
    /\ rwlock = [read_count |-> 0, write_count |-> 0]
    /\ q_p = SeatsP
    /\ q_s = SeatsS
    /\ alarm = 0
    /\ pending = {}
    /\ tstps = 0
    /\ program = "running"

-----------------------------------------------------------------------------
(* scheduler.                                                              *)

(* move_sleeping_to_ready moves the threads that have slept enough, by id. *)
IsDue(t) == tcb[t].sleeping_time = 0

Due == {t \in sleeping : IsDue(t)}
ById(S) == [k \in 1..Cardinality(S) |-> CHOOSE t \in S : Cardinality({u \in S : u <= t}) = k]

(* move_waiting_to_ready moves the threads at the head of the queue that   *)
(* the lock would let in, up to the first that it would not.               *)
LetsIn(t) ==
    \/ tcb[t].waiting_for = 2 /\ rwlock.read_count = 0 /\ rwlock.write_count = 0
    \/ tcb[t].waiting_for = 1 /\ rwlock.write_count = 0

(* Mutant: only one thread is moved.                                       *)
AdmitsOne(n) == n = IF waiting.size > 0 /\ LetsIn(AtHead(waiting)) THEN 1 ELSE 0

(* Mutant: nothing is moved when the scheduler was entered by thread_exit. *)
AdmitsNotAtExit(n) ==
    /\ jump = FromExit => n = 0
    /\ jump # FromExit => /\ \A k \in 1..n : LetsIn(Contents(waiting)[k])
                          /\ n < waiting.size => ~LetsIn(Contents(waiting)[n + 1])

Admits(n) ==
    /\ \A k \in 1..n : LetsIn(Contents(waiting)[k])
    /\ n < waiting.size => ~LetsIn(Contents(waiting)[n + 1])

(* Mutant: a thread that goes to sleep stays ready.                        *)
BackToReadyFromSleep ==
    IF jump \in {FromSignal, FromSleep} /\ current # Idle THEN <<current>> ELSE <<>>

(* handle_previous_thread: what becomes of the thread that ran.            *)
BackToReady == IF jump = FromSignal /\ current # Idle THEN <<current>> ELSE <<>>

BackToWaiting == IF jump = FromLock THEN <<current>> ELSE <<>>

Select(queue) ==
    \/ /\ queue.size > 0
       /\ current' = AtHead(queue)
       /\ ready' = Drop(queue, 1)
       /\ UNCHANGED program
    \/ /\ queue.size = 0
       /\ sleepingSize' # 0
       /\ current' = Idle
       /\ ready' = queue
       /\ UNCHANGED program
    \/ /\ queue.size = 0
       /\ sleepingSize' = 0
       /\ current' = NoThread
       /\ ready' = queue
       /\ program' = "returned"

Scheduler ==
    /\ program = "running"
    /\ jump # NoJump
    /\ jump' = NoJump
    /\ alarm' = TimeSlice
    /\ pending' = {}
    /\ sleeping' = sleeping \ Due
    /\ sleepingSize' = sleepingSize - Cardinality(Due)
    /\ at' = IF jump = FromExit THEN [at EXCEPT ![current] = "exited"] ELSE at
    /\ \E n \in 0..waiting.size :
          /\ Admits(n)
          /\ waiting' = PushAll(Drop(waiting, n), BackToWaiting)
          /\ Select(PushAll(ready,
                ById(Due) \o SubSeq(Contents(waiting), 1, n) \o BackToReady))
    /\ UNCHANGED <<tcb, rwlock, seatVars, tstps>>

-----------------------------------------------------------------------------
(* Signals and time.                                                       *)

Tstp ==
    /\ program = "running"
    /\ tstps < MaxTstp
    /\ pending' = pending \cup {"SIGTSTP"}
    /\ tstps' = tstps + 1
    /\ UNCHANGED <<current, jump, at, tcb, queueVars, rwlock, seatVars, alarm, program>>

(* sleep(1): the alarm may fall due, and is blocked.                       *)
SecondPasses ==
    /\ alarm' = IF alarm > 0 THEN alarm - 1 ELSE 0
    /\ pending' = IF alarm = 1 THEN pending \cup {"SIGALRM"} ELSE pending
    /\ UNCHANGED tstps

Runs(t) == program = "running" /\ jump = NoJump /\ current = t

(* Mutant: the time left is not kept from falling below zero.              *)
SleptOnUnclamped(time) == time - TimeSlice

(* sighandler: every sleeper has slept for another time slice.             *)
SleptOn(time) == IF time <= TimeSlice THEN 0 ELSE time - TimeSlice

(* thread_yield with a signal pending: SIGTSTP is let through first, and   *)
(* the handler does not return.                                            *)
YieldToSignal(t) ==
    /\ Runs(t)
    /\ at[t] \in Yields
    /\ pending # {}
    /\ pending' = pending \ {IF "SIGTSTP" \in pending THEN "SIGTSTP" ELSE "SIGALRM"}
    /\ tcb' = [u \in Threads |->
                 IF u \in sleeping
                 THEN [tcb[u] EXCEPT !.sleeping_time = SleptOn(@)]
                 ELSE tcb[u]]
    /\ jump' = FromSignal
    /\ UNCHANGED <<current, at, queueVars, rwlock, seatVars, alarm, tstps, program>>

(* The thread is at this place and goes on from there: thread_yield        *)
(* returns when no signal is pending.                                      *)
GoesOn(t, place) ==
    /\ Runs(t)
    /\ at[t] = place
    /\ place \in Yields => pending = {}

-----------------------------------------------------------------------------
(* idle.                                                                   *)

IdleNap ==
    /\ GoesOn(Idle, "start")
    /\ at' = [at EXCEPT ![Idle] = "yield"]
    /\ SecondPasses
    /\ UNCHANGED <<current, jump, tcb, queueVars, rwlock, seatVars, program>>

(* The routine does not loop.  Its caller, scheduler, is in a later call   *)
(* by now: what happens next is undefined.                                 *)
IdleFalls ==
    /\ GoesOn(Idle, "yield")
    /\ program' = "fallen"
    /\ UNCHANGED <<current, jump, at, tcb, queueVars, rwlock, seatVars, signalVars>>

-----------------------------------------------------------------------------
(* fibonacci and pm: one turn of the loop, up to thread_yield or           *)
(* thread_exit.                                                            *)

NextFibonacci(c) ==
    IF c.i + 1 <= 2
    THEN [c EXCEPT !.i = @ + 1, !.f_cur = 1, !.f_prev = 1]
    ELSE [c EXCEPT !.i = @ + 1, !.f_cur = c.f_cur + c.f_prev, !.f_prev = c.f_cur]

PmTerm(i) == IF i % 2 = 0 THEN -i ELSE i

(* Mutant: f_prev is set in the first turn only.                           *)
NextPmKeepsFirst(c) ==
    IF c.i + 1 = 1
    THEN [c EXCEPT !.i = 1, !.f_cur = 1, !.f_prev = 1]
    ELSE [c EXCEPT !.i = @ + 1, !.f_cur = PmTerm(c.i + 1) + c.f_prev]

NextPm(c) ==
    IF c.i + 1 = 1
    THEN [c EXCEPT !.i = 1, !.f_cur = 1, !.f_prev = 1]
    ELSE LET f == PmTerm(c.i + 1) + c.f_prev
         IN  [c EXCEPT !.i = @ + 1, !.f_cur = f, !.f_prev = f]

Turn(t, next) ==
    /\ \E place \in {"start", "yield"} : GoesOn(t, place)
    /\ tcb' = [tcb EXCEPT ![t] = next]
    /\ SecondPasses
    /\ IF next.i = Program[t].n
       THEN jump' = FromExit /\ at' = [at EXCEPT ![t] = "leaving"]
       ELSE UNCHANGED jump /\ at' = [at EXCEPT ![t] = "yield"]
    /\ UNCHANGED <<current, queueVars, rwlock, seatVars, program>>

FibonacciTurn(t) == t \in Fibonacci /\ Turn(t, NextFibonacci(tcb[t]))
PmTurn(t) == t \in Pm /\ Turn(t, NextPm(tcb[t]))

-----------------------------------------------------------------------------
(* enroll.                                                                 *)

(* Step 1: thread_sleep.                                                   *)
Sleep(t) ==
    /\ t \in Enroll
    /\ GoesOn(t, "start")
    /\ tcb' = [tcb EXCEPT ![t].sleeping_time = Program[t].s]
    /\ sleeping' = sleeping \cup {t}
    /\ sleepingSize' = sleepingSize + 1
    /\ at' = [at EXCEPT ![t] = "slept"]
    /\ jump' = FromSleep
    /\ UNCHANGED <<current, ready, waiting, rwlock, seatVars, signalVars, program>>

(* Step 2: thread_awake of the friend, if it sleeps, ...                   *)
Awake(t) ==
    /\ GoesOn(t, "slept")
    /\ LET b == Program[t].b
       IN  IF b \in sleeping
           THEN /\ tcb' = [tcb EXCEPT ![b].sleeping_time = 0]
                /\ ready' = Push(ready, b)
                /\ sleeping' = sleeping \ {b}
                /\ sleepingSize' = sleepingSize - 1
           ELSE UNCHANGED <<tcb, ready, sleeping, sleepingSize>>
    /\ at' = [at EXCEPT ![t] = "readLock"]
    /\ UNCHANGED <<current, jump, waiting, rwlock, seatVars, signalVars, program>>

(* ... then read_lock, ...                                                 *)
WaitForLock(t, kind, place) ==
    /\ tcb' = [tcb EXCEPT ![t].waiting_for = kind]
    /\ at' = [at EXCEPT ![t] = place]
    /\ jump' = FromLock
    /\ UNCHANGED <<current, queueVars, rwlock, seatVars, signalVars, program>>

WaitToRead(t) ==
    /\ GoesOn(t, "readLock")
    /\ rwlock.write_count > 0
    /\ WaitForLock(t, 1, "readLock")

ReadLockThen(t, count) ==
    /\ GoesOn(t, "readLock")
    /\ rwlock.write_count = 0
    /\ rwlock' = [rwlock EXCEPT !.read_count = count]
    /\ tcb' = [tcb EXCEPT ![t].q_p = q_p, ![t].q_s = q_s]
    /\ SecondPasses
    /\ at' = [at EXCEPT ![t] = "reading"]
    /\ UNCHANGED <<current, jump, queueVars, seatVars, program>>

(* Mutant: the lock is taken without counting the readers that hold it.    *)
ReadLockAlone(t) == ReadLockThen(t, 1)

(* ... and the look at the remaining spots.                                *)
ReadLock(t) == ReadLockThen(t, rwlock.read_count + 1)

(* Step 3: read_unlock and the preferences.                                *)
ReadUnlock(t) ==
    /\ GoesOn(t, "reading")
    /\ rwlock' = [rwlock EXCEPT !.read_count = @ - 1]
    /\ tcb' = [tcb EXCEPT ![t].p_p = Program[t].dp * tcb[t].q_p,
                          ![t].p_s = Program[t].ds * tcb[t].q_s]
    /\ SecondPasses
    /\ at' = [at EXCEPT ![t] = "choosing"]
    /\ UNCHANGED <<current, jump, queueVars, seatVars, program>>

(* Mutant: the readers are not looked at.                                  *)
MayWriteOverReaders == rwlock.write_count = 0

(* Step 4: write_lock ...                                                  *)
MayWrite == rwlock.read_count = 0 /\ rwlock.write_count = 0

AtWriteLock(t) == GoesOn(t, "choosing") \/ GoesOn(t, "writeLock")

WaitToWrite(t) ==
    /\ AtWriteLock(t)
    /\ ~MayWrite
    /\ WaitForLock(t, 2, "writeLock")

(* Mutant: the spots of step 2 tell whether the class is full.             *)
EnrollsInPBySnapshot(t) ==
    LET c == tcb[t]
    IN  \/ c.p_p = c.p_s /\ Program[t].dp > Program[t].ds
        \/ c.p_p > c.p_s /\ c.q_p > 0
        \/ c.p_p < c.p_s /\ ~(c.q_s > 0)

(* ... and the choice of the class.  It counts on the spots of step 2 for  *)
(* the preference, and on the spots of now for the class being full.       *)
EnrollsInP(t) ==
    LET c == tcb[t]
    IN  \/ c.p_p = c.p_s /\ Program[t].dp > Program[t].ds
        \/ c.p_p > c.p_s /\ q_p > 0
        \/ c.p_p < c.p_s /\ ~(q_s > 0)

TakeSeat(t) ==
    /\ AtWriteLock(t)
    /\ MayWrite
    /\ rwlock' = [rwlock EXCEPT !.write_count = 1]
    /\ IF EnrollsInP(t)
       THEN q_p' = q_p - 1 /\ UNCHANGED q_s
       ELSE q_s' = q_s - 1 /\ UNCHANGED q_p
    /\ SecondPasses
    /\ at' = [at EXCEPT ![t] = "enrolled"]
    /\ UNCHANGED <<current, jump, tcb, queueVars, program>>

(* Step 5: write_unlock and thread_exit.                                   *)
Leave(t) ==
    /\ GoesOn(t, "enrolled")
    /\ rwlock' = [rwlock EXCEPT !.write_count = @ - 1]
    /\ SecondPasses
    /\ jump' = FromExit
    /\ at' = [at EXCEPT ![t] = "leaving"]
    /\ UNCHANGED <<current, tcb, queueVars, seatVars, program>>

-----------------------------------------------------------------------------
Terminated == program # "running" /\ UNCHANGED vars

Routine(t) ==
    \/ FibonacciTurn(t) \/ PmTurn(t)
    \/ Sleep(t) \/ Awake(t)
    \/ WaitToRead(t) \/ ReadLock(t) \/ ReadUnlock(t)
    \/ WaitToWrite(t) \/ TakeSeat(t) \/ Leave(t)

Process ==
    \/ Scheduler
    \/ \E t \in Threads \cup {Idle} : YieldToSignal(t)
    \/ IdleNap
    \/ IdleFalls
    \/ \E t \in Threads : Routine(t)

Next == Process \/ Tstp \/ Terminated

Spec == Init /\ [][Next]_vars

(* The kernel runs the one process there is, and a sleep ends.             *)
FairSpec == Spec /\ WF_vars(Process)

-----------------------------------------------------------------------------
(* Type invariant: the queues hold threads, the counts of the lock are     *)
(* what an rwlock may show, and no sleeping time is negative.              *)
Tcb == [waiting_for : 0..2, sleeping_time : Nat, i : Nat, f_cur : Int, f_prev : Int,
        q_p : Int, q_s : Int, p_p : Int, p_s : Int]
Places == Yields \cup {"start", "slept", "readLock", "writeLock", "leaving", "exited"}

TypeOK ==
    /\ current \in Threads \cup {Idle, NoThread}
    /\ jump \in {NoJump, First, FromSignal, FromLock, FromSleep, FromExit}
    /\ at \in [Threads \cup {Idle} -> Places]
    /\ tcb \in [Threads -> Tcb]
    /\ ready \in RingOf(Threads)
    /\ waiting \in RingOf(Threads)
    /\ sleeping \subseteq Threads
    /\ sleepingSize \in 0..THREAD_MAX
    /\ rwlock \in [read_count : Nat, write_count : 0..1]
    /\ q_p \in Int
    /\ q_s \in Int
    /\ alarm \in 0..TimeSlice
    /\ pending \subseteq {"SIGTSTP", "SIGALRM"}
    /\ tstps \in 0..MaxTstp
    /\ program \in {"running", "returned", "fallen"}

(* A live thread is in one place only: it runs, or it is in one of the     *)
(* queues, once, or it sleeps; and sleeping_set.size, which tells the      *)
(* scheduler whether to wait or to return, counts the sleepers.            *)
Occurrences(t, queue) == Cardinality({k \in 1..queue.size : Contents(queue)[k] = t})

OnePlace ==
    /\ sleepingSize = Cardinality(sleeping)
    /\ \A t \in Threads :
          LET runs == IF current = t /\ jump # FromSleep THEN 1 ELSE 0
              sleeps == IF t \in sleeping THEN 1 ELSE 0
          IN  runs + sleeps + Occurrences(t, ready) + Occurrences(t, waiting)
                 = IF at[t] = "exited" THEN 0 ELSE 1

(* rwlock counts the threads that are between lock and unlock, and a       *)
(* writer is alone.                                                        *)
Readers == {t \in Threads : at[t] = "reading"}
Writers == {t \in Threads : at[t] = "enrolled"}

LockIsHonest ==
    /\ rwlock.read_count = Cardinality(Readers)
    /\ rwlock.write_count = Cardinality(Writers)
    /\ Writers # {} => Readers = {} /\ Cardinality(Writers) = 1

(* What a thread has read under the read lock stays true until read_unlock *)
(* however often it is switched away from.                                 *)
SnapshotHolds == \A t \in Readers : tcb[t].q_p = q_p /\ tcb[t].q_s = q_s

(* scheduler returns, and the program ends, only when every thread has     *)
(* exited: none is left waiting for a lock that nobody holds.              *)
ReturnsWhenDone ==
    program = "returned" =>
        /\ \A t \in Threads : at[t] = "exited"
        /\ rwlock = [read_count |-> 0, write_count |-> 0]

(* After scheduler has chosen, no thread that has slept enough still       *)
(* sleeps, and the first waiting thread waits for a lock that others hold. *)
Blocked(t) ==
    \/ tcb[t].waiting_for = 1 /\ Writers # {}
    \/ tcb[t].waiting_for = 2 /\ Writers \cup Readers # {}

NobodyIsLeftBehind ==
    [][Scheduler => /\ \A t \in sleeping' : tcb'[t].sleeping_time > 0
                    /\ waiting'.size > 0 => Blocked(AtHead(waiting))']_vars

(* fibonacci prints the Fibonacci numbers and pm the alternating sums 1,   *)
(* 1 - 2, 1 - 2 + 3, ..., however the threads take turns.                  *)
Fib[k \in Nat] == IF k <= 2 THEN 1 ELSE Fib[k - 1] + Fib[k - 2]
AlternatingSum(k) == IF k % 2 = 0 THEN -(k \div 2) ELSE (k + 1) \div 2

NumbersAreRight ==
    \A t \in Threads : tcb[t].i > 0 =>
        /\ t \in Fibonacci => tcb[t].f_cur = Fib[tcb[t].i]
        /\ t \in Pm => tcb[t].f_cur = AlternatingSum(tcb[t].i)

(* A class gets more threads than it has spots only for want of spots, or  *)
(* when a thread had no preference: a preference that rests on spots that  *)
(* others have taken since is harmless.                                    *)
Enrolled == {t \in Enroll : at[t] \in {"enrolled", "leaving", "exited"}}

OverbookedOnlyByTies ==
    q_p < 0 \/ q_s < 0 =>
        \/ Cardinality(Enrolled) > SeatsP + SeatsS
        \/ \E t \in Enrolled : tcb[t].p_p = tcb[t].p_s

(* thread_tool.h calls q_p and q_s the remaining spots in the classes: no  *)
(* spot is given away that is not there while there is one in the other    *)
(* class.                                                                  *)
SpotsAreThere == q_p + q_s >= 0 => q_p >= 0 /\ q_s >= 0

(* Every thread exits in the end.  When idle, which does not loop, ends    *)
(* the program too early, it leaves behind only threads that sleep: nobody *)
(* who could run, or who waits for the lock.                               *)
EveryThreadExits ==
    <>(\A t \in Threads : at[t] = "exited" \/ (program = "fallen" /\ t \in sleeping))
=============================================================================
