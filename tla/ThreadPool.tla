----------------------------- MODULE ThreadPool -----------------------------
(***************************************************************************)
(* The matrix multiplication machine of hw4: main.c submits every request, *)
(* waits for all of them, prints the products and destroys the pool; one   *)
(* frontend thread cuts requests into works; the backend threads compute   *)
(* the works.                                                              *)
(*                                                                         *)
(* Granularity.  A critical section that holds one mutex from lock to      *)
(* unlock and blocks on nothing else is one action.  tpool_synchronize     *)
(* reads the sizes of both queues while it holds only sync_mutex, so its   *)
(* three reads are three steps, and no other thread enters a section of    *)
(* sync_mutex between them.  pthread_cond_wait is a waiting state that a   *)
(* broadcast, or a spurious wakeup, takes back to the test of its loop.    *)
(* The computation of a work is one step per entry.                        *)
(*                                                                         *)
(* Memory.  free(parent_request) puts the request into freed; a later read *)
(* of the struct may return anything.  The queues are FIFO sequences here. *)
(***************************************************************************)
EXTENDS Sequences, FiniteSets, MatrixWork

CONSTANTS
    Backends,   \* the backend threads (num_threads of them)
    N,          \* matrix_size
    T,          \* the number of requests main submits
    NumWorks,   \* num_works of each request
    a, b        \* the operands of each request

Requests == 1..T
Entries == 0..TotalEntries(N)-1

ASSUME PoolAssumption ==
    /\ Backends # {}
    /\ N \in Nat \ {0}
    /\ T \in Nat \ {0}
    /\ NumWorks \in [Requests -> Nat \ {0}]

VARIABLES
    mpc,            \* where main is
    mreq,           \* the requests main has counted in active_requests
    active,         \* pool->active_requests
    requestQueue,   \* pool->request_queue: the requests, oldest first
    requestStop,    \* request_queue->stop
    workQueue,      \* pool->work_queue: the works, oldest first
    workStop,       \* work_queue->stop
    fpc,            \* where the frontend is
    freq,           \* current_request (the last one dequeued; 0: none yet)
    fi, fstart,     \* i and start of the loop that splits current_request
    fwork,          \* new_work
    bt,             \* bt of each request, the transposed b
    remaining,      \* remaining_works of each request
    freed,          \* the requests whose struct has been freed
    bpc,            \* where each backend is
    bwork, bidx,    \* current_work and idx of each backend
    c,              \* the result matrices, by entry
    done,           \* history: the works of each request that are finished
    printed         \* what main has printed

mainVars == <<mpc, mreq, printed>>
queueVars == <<requestQueue, requestStop, workQueue, workStop>>
frontVars == <<fpc, freq, fi, fstart, fwork, bt>>
backVars == <<bpc, bwork, bidx, c>>
countVars == <<active, remaining, freed, done>>
vars == <<mainVars, queueVars, frontVars, backVars, countVars>>

(* struct work; i, its place among the works of its request, is kept for   *)
(* the properties only.                                                    *)
Work == [req : 0..T, i : Nat, start : Nat, end : Int]
NoWork == [req |-> 0, i |-> 0, start |-> 0, end |-> 0]

NotPrinted == <<>>

-----------------------------------------------------------------------------
(* pthread_cond_broadcast on each condition variable.                      *)

WakeBackends == [t \in Backends |-> IF bpc[t] = "waiting" THEN "dequeue"
                                                          ELSE bpc[t]]
WokenFrontend == IF fpc = "waiting" THEN "dequeue" ELSE fpc
WokenMain == IF mpc = "syncWait" THEN "sync" ELSE mpc

(* main holds sync_mutex between its reads in tpool_synchronize.           *)
SyncMutexFree == mpc \notin {"syncWork", "syncRequest"}

-----------------------------------------------------------------------------
Init ==
    /\ mpc = "request"
    /\ mreq = 0
    /\ active = 0
    /\ requestQueue = <<>>
    /\ requestStop = FALSE
    /\ workQueue = <<>>
    /\ workStop = FALSE
    /\ fpc = "check"
    /\ freq = 0
    /\ fi = 0
    /\ fstart = 0
    /\ fwork = NoWork
    /\ bt = [r \in Requests |-> <<>>]
    /\ remaining = [r \in Requests |-> 0]
    /\ freed = {}
    /\ bpc = [t \in Backends |-> "check"]
    /\ bwork = [t \in Backends |-> NoWork]
    /\ bidx = [t \in Backends |-> 0]
    /\ c = [r \in Requests |-> [idx \in Entries |-> 0]]
    /\ done = [r \in Requests |-> {}]
    /\ printed = NotPrinted

-----------------------------------------------------------------------------
(* main and the pool operations it calls.                                  *)

(* tpool_request, first half: the request is counted under sync_mutex.     *)
CountRequest ==
    /\ mpc = "request"
    /\ mpc' = "enqueue"
    /\ mreq' = mreq + 1
    /\ active' = active + 1
    /\ UNCHANGED <<printed, remaining, freed, done, queueVars, frontVars, backVars>>

(* tpool_request, second half: enqueue_request.                            *)
EnqueueRequest ==
    /\ mpc = "enqueue"
    /\ requestQueue' = Append(requestQueue, mreq)
    /\ fpc' = WokenFrontend
    /\ mpc' = IF mreq < T THEN "request" ELSE "sync"
    /\ UNCHANGED <<mreq, printed, requestStop, workQueue, workStop, freq, fi,
                   fstart, fwork, bt, backVars, countVars>>

(* tpool_synchronize: the three tests of the loop condition, in order.     *)
TestActiveAgainst(limit) ==
    /\ mpc = "sync"
    /\ mpc' = IF active > limit THEN "syncWait" ELSE "syncWork"
    /\ UNCHANGED <<mreq, printed, queueVars, frontVars, backVars, countVars>>

(* Mutant: main looks at the two queues only.                              *)
TestActiveNever == TestActiveAgainst(T)

(* Mutant: one unfinished request goes unnoticed.                          *)
TestActiveOffByOne == TestActiveAgainst(1)

TestActive == TestActiveAgainst(0)

TestWorkQueue ==
    /\ mpc = "syncWork"
    /\ mpc' = IF Len(workQueue) > 0 THEN "syncWait" ELSE "syncRequest"
    /\ UNCHANGED <<mreq, printed, queueVars, frontVars, backVars, countVars>>

TestRequestQueue ==
    /\ mpc = "syncRequest"
    /\ mpc' = IF Len(requestQueue) > 0 THEN "syncWait" ELSE "print"
    /\ UNCHANGED <<mreq, printed, queueVars, frontVars, backVars, countVars>>

(* main prints every entry of every result ...                             *)
PrintResults ==
    /\ mpc = "print"
    /\ printed' = c
    /\ mpc' = "free"
    /\ UNCHANGED <<mreq, queueVars, frontVars, backVars, countVars>>

(* ... and frees the matrices.                                             *)
FreeMatrices ==
    /\ mpc = "free"
    /\ mpc' = "stopRequests"
    /\ UNCHANGED <<mreq, printed, queueVars, frontVars, backVars, countVars>>

(* tpool_destroy: stop both queues, then join the frontend and the         *)
(* backends.                                                               *)
StopRequests ==
    /\ mpc = "stopRequests"
    /\ requestStop' = TRUE
    /\ fpc' = WokenFrontend
    /\ mpc' = "stopWorks"
    /\ UNCHANGED <<mreq, printed, requestQueue, workQueue, workStop, freq, fi,
                   fstart, fwork, bt, backVars, countVars>>

StopWorksTelling(newBpc) ==
    /\ mpc = "stopWorks"
    /\ workStop' = TRUE
    /\ bpc' = newBpc
    /\ mpc' = "join"
    /\ UNCHANGED <<mreq, printed, requestQueue, requestStop, workQueue, frontVars,
                   bwork, bidx, c, countVars>>

(* Mutant: the backends are not told.                                      *)
StopWorksSilently == StopWorksTelling(bpc)

StopWorks == StopWorksTelling(WakeBackends)

JoinAll ==
    /\ mpc = "join"
    /\ fpc = "exited"
    /\ \A t \in Backends : bpc[t] = "exited"
    /\ mpc' = "done"
    /\ UNCHANGED <<mreq, printed, queueVars, frontVars, backVars, countVars>>

Main ==
    \/ CountRequest \/ EnqueueRequest
    \/ TestActive \/ TestWorkQueue \/ TestRequestQueue
    \/ PrintResults \/ FreeMatrices
    \/ StopRequests \/ StopWorks \/ JoinAll

-----------------------------------------------------------------------------
(* frontend_thread_func.                                                   *)

(* The test at the head of the loop.                                       *)
FrontCheck ==
    /\ fpc = "check"
    /\ fpc' = IF requestStop /\ Len(requestQueue) = 0 THEN "exited" ELSE "dequeue"
    /\ UNCHANGED <<mainVars, queueVars, freq, fi, fstart, fwork, bt, backVars, countVars>>

(* dequeue_request: wait while the queue is empty and not stopped, return  *)
(* NULL if it is empty after all, or take the oldest request.              *)
FrontWait ==
    /\ fpc = "dequeue"
    /\ Len(requestQueue) = 0 /\ ~requestStop
    /\ fpc' = "waiting"
    /\ UNCHANGED <<mainVars, queueVars, freq, fi, fstart, fwork, bt, backVars, countVars>>

FrontDequeueNothing ==
    /\ fpc = "dequeue"
    /\ Len(requestQueue) = 0 /\ requestStop
    /\ fpc' = "check"
    /\ UNCHANGED <<mainVars, queueVars, freq, fi, fstart, fwork, bt, backVars, countVars>>

FrontDequeue ==
    /\ fpc = "dequeue"
    /\ Len(requestQueue) > 0
    /\ freq' = Head(requestQueue)
    /\ requestQueue' = Tail(requestQueue)
    /\ fpc' = "prepare"
    /\ UNCHANGED <<mainVars, requestStop, workQueue, workStop, fi, fstart, fwork, bt,
                   backVars, countVars>>

(* remaining_works is set and b is transposed before any work exists, so   *)
(* nobody else touches the request yet.                                    *)
PrepareFor(num) ==
    /\ fpc = "prepare"
    /\ remaining' = [remaining EXCEPT ![freq] = num]
    /\ bt' = [bt EXCEPT ![freq] = Transposed(N, b[freq])]
    /\ fi' = 0
    /\ fstart' = 0
    /\ fpc' = "split"
    /\ UNCHANGED <<mainVars, queueVars, freq, fwork, backVars, active, freed, done>>

(* Mutant: one work too few is waited for.                                 *)
PrepareOneShort == PrepareFor(NumWorks[freq] - 1)

Prepare == PrepareFor(NumWorks[freq])

(* The loop test i < current_request->num_works reads the request, which a *)
(* backend frees with its last work: from then on it may go either way.    *)
LoopMayGoOn == freq \in freed \/ fi < NumWorks[freq]
LoopMayEnd  == freq \in freed \/ fi >= NumWorks[freq]

(* The loop body up to create_work, unless it breaks.                      *)
CreateWork ==
    /\ fpc = "split"
    /\ LoopMayGoOn
    /\ fstart < TotalEntries(N)
    /\ fwork' = [req |-> freq, i |-> fi, start |-> fstart,
                 end |-> WorkEnd(N, NumWorks[freq], fi, fstart)]
    /\ fpc' = "enqueue"
    /\ UNCHANGED <<mainVars, queueVars, freq, fi, fstart, bt, backVars, countVars>>

(* enqueue_work, and the step to the next i and start.                     *)
EnqueueWorkThen(nextStart) ==
    /\ fpc = "enqueue"
    /\ workQueue' = Append(workQueue, fwork)
    /\ bpc' = WakeBackends
    /\ fstart' = nextStart
    /\ fi' = fi + 1
    /\ fwork' = NoWork
    /\ fpc' = "split"
    /\ UNCHANGED <<mainVars, requestQueue, requestStop, workStop, freq, bt,
                   bwork, bidx, c, countVars>>

(* Mutant: the next work starts at the last entry of this one.             *)
EnqueueWorkOverlapping == EnqueueWorkThen(fwork.end)

EnqueueWork == EnqueueWorkThen(fwork.end + 1)

(* The loop ends on its test or on the break.                              *)
LeaveLoop ==
    /\ fpc = "split"
    /\ LoopMayEnd \/ fstart >= TotalEntries(N)
    /\ fpc' = "check"
    /\ UNCHANGED <<mainVars, queueVars, freq, fi, fstart, fwork, bt, backVars, countVars>>

Frontend ==
    \/ FrontCheck \/ FrontWait \/ FrontDequeueNothing \/ FrontDequeue
    \/ Prepare \/ CreateWork \/ EnqueueWork \/ LeaveLoop

-----------------------------------------------------------------------------
(* backend_thread_func, by backend t.                                      *)

BackCheck(t) ==
    /\ bpc[t] = "check"
    /\ bpc' = [bpc EXCEPT ![t] = IF workStop /\ Len(workQueue) = 0 THEN "exited"
                                                                   ELSE "dequeue"]
    /\ UNCHANGED <<mainVars, queueVars, frontVars, bwork, bidx, c, countVars>>

(* dequeue_work, as dequeue_request above.                                 *)
BackWait(t) ==
    /\ bpc[t] = "dequeue"
    /\ Len(workQueue) = 0 /\ ~workStop
    /\ bpc' = [bpc EXCEPT ![t] = "waiting"]
    /\ UNCHANGED <<mainVars, queueVars, frontVars, bwork, bidx, c, countVars>>

BackDequeueNothing(t) ==
    /\ bpc[t] = "dequeue"
    /\ Len(workQueue) = 0 /\ workStop
    /\ bpc' = [bpc EXCEPT ![t] = "check"]
    /\ UNCHANGED <<mainVars, queueVars, frontVars, bwork, bidx, c, countVars>>

BackDequeue(t) ==
    /\ bpc[t] = "dequeue"
    /\ Len(workQueue) > 0
    /\ bwork' = [bwork EXCEPT ![t] = Head(workQueue)]
    /\ bidx' = [bidx EXCEPT ![t] = Head(workQueue).start]
    /\ workQueue' = Tail(workQueue)
    /\ bpc' = [bpc EXCEPT ![t] = "compute"]
    /\ UNCHANGED <<mainVars, requestQueue, requestStop, workStop, frontVars, c, countVars>>

(* One iteration of the loop over the entries of the work.                 *)
ComputeEntry(t) ==
    LET r == bwork[t].req
        idx == bidx[t]
    IN  /\ bpc[t] = "compute"
        /\ idx <= bwork[t].end
        /\ c' = [c EXCEPT ![r][idx] =
                    Calculation(N, a[r][RowOf(N, idx)], bt[r][ColOf(N, idx)])]
        /\ bidx' = [bidx EXCEPT ![t] = idx + 1]
        /\ UNCHANGED <<mainVars, queueVars, frontVars, bpc, bwork, countVars>>

(* The critical section of sync_mutex after the loop.  The work itself is  *)
(* freed after the unlock; no other thread holds a pointer to it by then.  *)
WorkDone(t) == bpc[t] = "compute" /\ bidx[t] > bwork[t].end
LastWork(t) == remaining[bwork[t].req] - 1 = 0

EndWork(t, newActive, newMpc) ==
    LET r == bwork[t].req
    IN  /\ WorkDone(t)
        /\ SyncMutexFree
        /\ remaining' = [remaining EXCEPT ![r] = @ - 1]
        /\ done' = [done EXCEPT ![r] = @ \cup {bwork[t].i}]
        /\ freed' = IF LastWork(t) THEN freed \cup {r} ELSE freed
        /\ active' = newActive
        /\ mpc' = newMpc
        /\ bwork' = [bwork EXCEPT ![t] = NoWork]
        /\ bidx' = [bidx EXCEPT ![t] = 0]
        /\ bpc' = [bpc EXCEPT ![t] = "check"]
        /\ UNCHANGED <<mreq, printed, queueVars, frontVars, c>>

(* Mutant: every work counts as a whole request.                           *)
FinishWorkRetiresAlways(t) ==
    EndWork(t, active - 1, IF active - 1 = 0 THEN WokenMain ELSE mpc)

(* Mutant: the last request is retired without a broadcast.                *)
FinishWorkSilently(t) == EndWork(t, IF LastWork(t) THEN active - 1 ELSE active, mpc)

(* The backend that finishes the last work of a request retires it, and    *)
(* the one that retires the last request wakes main.                       *)
FinishWork(t) ==
    \/ /\ WorkDone(t) /\ LastWork(t)
       /\ EndWork(t, active - 1, IF active - 1 = 0 THEN WokenMain ELSE mpc)
    \/ /\ WorkDone(t) /\ ~LastWork(t)
       /\ EndWork(t, active, mpc)

Backend(t) ==
    \/ BackCheck(t) \/ BackWait(t) \/ BackDequeueNothing(t) \/ BackDequeue(t)
    \/ ComputeEntry(t) \/ FinishWork(t)

-----------------------------------------------------------------------------
(* POSIX lets pthread_cond_wait return without a broadcast.                *)
SpuriousWakeup ==
    \/ /\ mpc = "syncWait"
       /\ mpc' = "sync"
       /\ UNCHANGED <<mreq, printed, queueVars, frontVars, backVars, countVars>>
    \/ /\ fpc = "waiting"
       /\ fpc' = "dequeue"
       /\ UNCHANGED <<mainVars, queueVars, freq, fi, fstart, fwork, bt, backVars, countVars>>
    \/ \E t \in Backends :
       /\ bpc[t] = "waiting"
       /\ bpc' = [bpc EXCEPT ![t] = "dequeue"]
       /\ UNCHANGED <<mainVars, queueVars, frontVars, bwork, bidx, c, countVars>>

Terminated == mpc = "done" /\ UNCHANGED vars

Next ==
    \/ Main
    \/ Frontend
    \/ \E t \in Backends : Backend(t)
    \/ SpuriousWakeup
    \/ Terminated

Spec == Init /\ [][Next]_vars

(* The kernel runs every thread that can run; no thread holds a mutex      *)
(* forever, so a thread that wants one gets it.                            *)
Fairness ==
    /\ WF_vars(Main)
    /\ WF_vars(Frontend)
    /\ \A t \in Backends : WF_vars(Backend(t))

FairSpec == Spec /\ Fairness

-----------------------------------------------------------------------------
(* Properties.                                                             *)

(* The works that exist and are not finished: in the queue, with a         *)
(* backend, or about to be enqueued.                                       *)
QueuedWorks == {workQueue[k] : k \in 1..Len(workQueue)}
RunningWorks == {bwork[t] : t \in {u \in Backends : bpc[u] = "compute"}}
NewWorks == IF fpc = "enqueue" THEN {fwork} ELSE {}
LiveWorks == QueuedWorks \cup RunningWorks \cup NewWorks

(* main has returned from tpool_synchronize.                               *)
Synchronized ==
    mpc \in {"print", "free", "stopRequests", "stopWorks", "join", "done"}

(* Every variable stays in its type; remaining and active never go         *)
(* negative.                                                               *)
TypeOK ==
    /\ mpc \in {"request", "enqueue", "sync", "syncWork", "syncRequest", "syncWait",
                "print", "free", "stopRequests", "stopWorks", "join", "done"}
    /\ mreq \in 0..T
    /\ active \in 0..T
    /\ requestQueue \in Seq(Requests)
    /\ requestStop \in BOOLEAN
    /\ workQueue \in Seq(Work)
    /\ workStop \in BOOLEAN
    /\ fpc \in {"check", "dequeue", "waiting", "prepare", "split", "enqueue", "exited"}
    /\ freq \in 0..T
    /\ fi \in Nat
    /\ fstart \in Nat
    /\ fwork \in Work
    /\ bt = [r \in Requests |-> bt[r]]
    /\ remaining \in [Requests -> Nat]
    /\ freed \subseteq Requests
    /\ bpc \in [Backends -> {"check", "dequeue", "waiting", "compute", "exited"}]
    /\ bwork \in [Backends -> Work]
    /\ bidx \in [Backends -> Nat]
    /\ c = [r \in Requests |-> [idx \in Entries |-> c[r][idx]]]
    /\ done \in [Requests -> SUBSET Nat]

(* A thread sleeps on a condition variable only while what it waits for is *)
(* still missing: no broadcast comes too early to be heard.  For main this *)
(* says more than its loop does: it never sleeps because of a queue size,  *)
(* a reason to wait that no broadcast would ever end.                      *)
NoLostWakeup ==
    /\ mpc = "syncWait" => active > 0
    /\ fpc = "waiting" => Len(requestQueue) = 0 /\ ~requestStop
    /\ \A t \in Backends : bpc[t] = "waiting" => Len(workQueue) = 0 /\ ~workStop

(* The entry idx of the product of request r: a row of a times a column of *)
(* b, no matter how the code got there.                                    *)
Product(r, idx) ==
    Calculation(N, a[r][RowOf(N, idx)], [k \in 0..N-1 |-> b[r][k][ColOf(N, idx)]])

(* Once tpool_synchronize has returned, every entry of every request is    *)
(* the entry of its product: nothing is skipped by the split, left in a    *)
(* queue, or still being computed by a slow backend.                       *)
SynchronizedIsComplete ==
    Synchronized => \A r \in Requests : \A idx \in Entries : c[r][idx] = Product(r, idx)

(* Once tpool_synchronize has returned nobody will write a result any      *)
(* more: main may free the matrices, and a stopped queue holds no work.    *)
SynchronizedIsQuiet ==
    Synchronized => /\ LiveWorks = {}
                    /\ Len(requestQueue) = 0
                    /\ fpc # "prepare"

(* No thread is about to touch a request that has been freed: the only     *)
(* read of a freed request is the loop test of the frontend, and whatever  *)
(* it reads there it creates no further work.                              *)
NoWorkOfFreedRequest ==
    /\ \A w \in LiveWorks : w.req \notin freed
    /\ freq \in freed => fpc # "prepare" /\ (fpc = "split" => fstart >= TotalEntries(N))

(* No two unfinished works share an entry, and the frontend has not yet    *)
(* handed out an entry at or after fstart: two backends never write the    *)
(* same int.                                                               *)
WorksAreDisjoint ==
    /\ \A k, l \in 1..Len(workQueue) : k # l => workQueue[k] # workQueue[l]
    /\ \A t, u \in Backends :
          t # u /\ bpc[t] = "compute" /\ bpc[u] = "compute" => bwork[t] # bwork[u]
    /\ QueuedWorks \cap RunningWorks = {}
    /\ \A w, x \in LiveWorks :
          w.req = x.req /\ w # x => w.end < x.start \/ x.end < w.start
    /\ \A w \in QueuedWorks \cup RunningWorks :
          w.req = freq => w.end < fstart

(* The works of a request are balanced: no work has two entries more than  *)
(* another, and none is empty or reaches past the matrix.                  *)
WorksAreBalanced ==
    \A w \in LiveWorks :
       LET size == w.end - w.start + 1
       IN  /\ size \in 1..TotalEntries(N)
           /\ size \in {BaseSize(N, NumWorks[w.req]), BaseSize(N, NumWorks[w.req]) + 1}
           /\ w.end < TotalEntries(N)

(* tpool_synchronize returns: when all works are finished main is let      *)
(* through, whatever the interleaving.                                     *)
SynchronizeReturns == <>(mpc = "print")

(* The service the pool implements: a request is completed when the last   *)
(* backend retires its struct, and the output is what main prints.         *)
Service == INSTANCE MatrixService WITH
    Results <- [r \in Requests |-> [idx \in Entries |-> Product(r, idx)]],
    submitted <- mreq,
    completed <- freed,
    output <- printed

(* The pool implements MatrixService: requests are completed once, after   *)
(* they were submitted, and main prints their products, after all of them  *)
(* are complete.                                                           *)
ImplementsService == Service!Spec

(* main gets to the end of tpool_destroy: it passes tpool_synchronize and  *)
(* every thread of the pool hears of the stop and can be joined.           *)
PoolIsDestroyed == <>(mpc = "done")
=============================================================================
