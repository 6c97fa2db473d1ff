-------------------------- MODULE ThreadPoolProofs --------------------------
(***************************************************************************)
(* Proofs about ThreadPool, for any number of backends, any size of the    *)
(* matrices and any number of requests and works.                          *)
(***************************************************************************)
EXTENDS ThreadPoolInvariant, FiniteSetTheorems, TLAPS

-----------------------------------------------------------------------------
(* The arithmetic of the split.                                            *)

(* A matrix has at least one entry.                                        *)
LEMMA EntriesType == TotalEntries(N) \in Nat \ {0}
BY PoolAssumption DEF TotalEntries

(* Division with remainder.                                                *)
LEMMA Division ==
    ASSUME NEW num \in Nat \ {0}
    PROVE  /\ BaseSize(N, num) \in Nat
           /\ Remainder(N, num) \in 0..num-1
           /\ TotalEntries(N) = num * BaseSize(N, num) + Remainder(N, num)
<1> DEFINE E == TotalEntries(N)
<1>1. E \in Nat /\ num \in Nat /\ num > 0
  BY EntriesType
<1> HIDE DEF E
<1>2. E \div num \in Int /\ E % num \in 0..num-1 /\ E = num * (E \div num) + (E % num)
  BY <1>1
<1>3. E \div num >= 0
  BY <1>1, <1>2
<1> QED
  BY <1>2, <1>3 DEF E, BaseSize, Remainder

LEMMA StartType ==
    ASSUME NEW num \in Nat \ {0}, NEW i \in Nat
    PROVE  /\ Start(num, i) \in Nat
           /\ Start(num, 0) = 0
           /\ Start(num, num) = TotalEntries(N)
           /\ WorkSize(N, num, i) \in Nat
<1> DEFINE B == BaseSize(N, num)
           R == Remainder(N, num)
<1>1. B \in Nat /\ R \in 0..num-1 /\ TotalEntries(N) = num * B + R
  BY Division
<1> HIDE DEF B, R
<1>2. i * B \in Nat /\ 0 * B = 0
  BY <1>1
<1> QED
  BY <1>1, <1>2 DEF Start, WorkSize, B, R

(* A work starts where the one before it ends.                             *)
LEMMA StartStep ==
    ASSUME NEW num \in Nat \ {0}, NEW i \in Nat
    PROVE  Start(num, i + 1) = Start(num, i) + WorkSize(N, num, i)
<1> DEFINE B == BaseSize(N, num)
           R == Remainder(N, num)
<1>1. B \in Nat /\ R \in Nat
  BY Division
<1> HIDE DEF B, R
<1>2. (i + 1) * B = i * B + B /\ i * B \in Nat
  BY <1>1
<1> QED
  BY <1>1, <1>2 DEF Start, WorkSize, B, R

LEMMA StartMonotonic ==
    ASSUME NEW num \in Nat \ {0}, NEW i \in Nat, NEW j \in Nat, i <= j
    PROVE  Start(num, i) <= Start(num, j)
<1> DEFINE B == BaseSize(N, num)
           R == Remainder(N, num)
           d == j - i
<1>1. B \in Nat /\ R \in Nat
  BY Division
<1>2. d \in Nat /\ j = i + d
  OBVIOUS
<1> HIDE DEF B, R, d
<1>3. j * B = i * B + d * B /\ i * B \in Nat /\ d * B \in Nat
  BY <1>1, <1>2
<1> QED
  BY <1>1, <1>2, <1>3 DEF Start, B, R

(* The work the frontend cuts at the start of the i-th share is that       *)
(* share: it is not empty and it is never clipped.                         *)
LEMMA WorkIsSlice ==
    ASSUME NEW num \in Nat \ {0}, NEW i \in 0..num-1,
           Start(num, i) < TotalEntries(N)
    PROVE  /\ WorkEnd(N, num, i, Start(num, i)) = Start(num, i + 1) - 1
           /\ Start(num, i) <= Start(num, i + 1) - 1
           /\ Start(num, i + 1) <= TotalEntries(N)
<1> DEFINE B == BaseSize(N, num)
           R == Remainder(N, num)
           E == TotalEntries(N)
<1>1. B \in Nat /\ R \in 0..num-1 /\ E = num * B + R /\ E \in Nat
  BY Division, EntriesType
<1>2. Start(num, i + 1) <= E
  BY StartMonotonic, StartType
<1>3. Start(num, i + 1) = Start(num, i) + WorkSize(N, num, i)
  BY StartStep
<1>4. Start(num, i) \in Nat /\ WorkSize(N, num, i) \in Nat
  BY StartType
<1>5. WorkSize(N, num, i) > 0
  <2>1. CASE B > 0
    BY <2>1, <1>1 DEF WorkSize
  <2>2. CASE B = 0
    <3>1. E = R /\ i * B = 0 /\ i \in Nat
      BY <1>1, <2>2
    <3>2. i < R
      BY <3>1, <2>2, <1>1 DEF Start
    <3> QED
      BY <3>2, <1>1 DEF WorkSize
  <2> QED
    BY <2>1, <2>2, <1>1
<1> QED
  BY <1>1, <1>2, <1>3, <1>4, <1>5 DEF WorkEnd

-----------------------------------------------------------------------------
(* Type correctness.                                                       *)

LEMMA InitInvariant == Init => IInv
<1> SUFFICES ASSUME Init PROVE IInv
  OBVIOUS
<1> USE PoolAssumption
<1>1. TypeOK
  <2>1. c = [r \in Requests |-> [idx \in Entries |-> c[r][idx]]] /\ bt = [r \in Requests |-> bt[r]]
    BY Zenon DEF Init
  <2>2. requestQueue \in Seq(Requests) /\ workQueue \in Seq(Work) /\ fwork \in Work
        /\ bwork \in [Backends -> Work]
    BY DEF Init, Work, NoWork
  <2>3. remaining \in [Requests -> Nat] /\ done \in [Requests -> SUBSET Nat]
        /\ bidx \in [Backends -> Nat]
        /\ bpc \in [Backends -> {"check", "dequeue", "waiting", "compute", "exited"}]
    BY DEF Init
  <2>4. /\ mpc = "request" /\ mreq \in 0..T /\ active \in 0..T /\ fpc = "check" /\ freq \in 0..T
        /\ requestStop = FALSE /\ workStop = FALSE /\ fi = 0 /\ fstart = 0 /\ freed = {}
    BY DEF Init
  <2> QED
    BY <2>1, <2>2, <2>3, <2>4 DEF TypeOK
<1>2. MainInv /\ RequestInv /\ WaitInv
  BY DEF Init, MainInv, RequestInv, WaitInv, Enqueued
<1>3. SplitInv /\ WorkInv /\ UniqueInv
  BY DEF Init, SplitInv, InLoop, Prepared, WorkInv, UniqueInv, Requests
<1>4. CountInv
  <2>1. Cardinality((1..0) \ {}) = 0
    BY FS_EmptySet
  <2> QED
    BY <2>1 DEF Init, CountInv, Prepared, InLoop, Requests
<1>5. ResultInv
  BY DEF Init, ResultInv, Prepared, Requests
<1> QED
  BY <1>1, <1>2, <1>3, <1>4, <1>5 DEF IInv

(* What Next can be.                                                       *)
LEMMA NextCases ==
    [Next]_vars =>
        \/ CountRequest \/ EnqueueRequest \/ TestActive \/ TestWorkQueue
        \/ TestRequestQueue \/ PrintResults \/ FreeMatrices \/ StopRequests
        \/ StopWorks \/ JoinAll
        \/ FrontCheck \/ FrontWait \/ FrontDequeueNothing \/ FrontDequeue
        \/ Prepare \/ CreateWork \/ EnqueueWork \/ LeaveLoop
        \/ \E t \in Backends : BackCheck(t)
        \/ \E t \in Backends : BackWait(t)
        \/ \E t \in Backends : BackDequeueNothing(t)
        \/ \E t \in Backends : BackDequeue(t)
        \/ \E t \in Backends : ComputeEntry(t)
        \/ \E t \in Backends : FinishWork(t)
        \/ SpuriousWakeup
        \/ UNCHANGED vars
BY Zenon DEF Next, Main, Frontend, Backend, Terminated

(* The requests that are counted and not retired are at most those counted *)
(* so far, and there is one as long as some counted request is not freed.  *)
LEMMA ActiveFacts ==
    ASSUME TypeOK, CountInv
    PROVE  /\ active <= mreq
           /\ IsFiniteSet((1..mreq) \ freed)
           /\ active = 0 => (1..mreq) \ freed = {}
<1>1. IsFiniteSet(1..mreq) /\ Cardinality(1..mreq) = mreq
  <2>1. 1 \in Int /\ mreq \in Int /\ mreq >= 0
    BY PoolAssumption DEF TypeOK
  <2> QED
    BY ONLY <2>1, FS_Interval
<1>2. IsFiniteSet((1..mreq) \ freed) /\ Cardinality((1..mreq) \ freed) <= mreq
  BY <1>1, FS_Subset
<1>3. Cardinality((1..mreq) \ freed) = 0 => (1..mreq) \ freed = {}
  BY <1>2, FS_EmptySet
<1> QED
  BY <1>2, <1>3 DEF CountInv

(* Variables keep their types; what FinishWork decrements is positive.     *)
LEMMA TypeStep == IInv /\ [Next]_vars => TypeOK'
<1> SUFFICES ASSUME IInv, [Next]_vars PROVE TypeOK'
  OBVIOUS
<1> USE PoolAssumption DEF mainVars, queueVars, frontVars, backVars, countVars
<1>0. TypeOK /\ MainInv /\ RequestInv /\ SplitInv /\ WorkInv /\ CountInv
  BY DEF IInv
<1>1. CASE CountRequest
  BY <1>0, <1>1, ActiveFacts DEF TypeOK, MainInv, CountRequest
<1>2. CASE EnqueueRequest
  BY <1>0, <1>2 DEF TypeOK, MainInv, EnqueueRequest, WokenFrontend, Requests
<1>3. CASE TestActive \/ TestWorkQueue \/ TestRequestQueue \/ PrintResults \/ FreeMatrices
           \/ StopRequests \/ StopWorks \/ JoinAll
  BY <1>0, <1>3 DEF TypeOK, TestActive, TestActiveAgainst, TestWorkQueue, TestRequestQueue,
      PrintResults, FreeMatrices, StopRequests, StopWorks, StopWorksTelling, JoinAll,
      WokenFrontend, WakeBackends
<1>4. CASE FrontCheck \/ FrontWait \/ FrontDequeueNothing \/ LeaveLoop
  BY <1>0, <1>4 DEF TypeOK, FrontCheck, FrontWait, FrontDequeueNothing, LeaveLoop
<1>5. CASE FrontDequeue
  <2>1. requestQueue # <<>>
    BY <1>5 DEF FrontDequeue
  <2>2. Head(requestQueue) \in Requests /\ Tail(requestQueue) \in Seq(Requests)
    BY <1>0, <2>1 DEF TypeOK
  <2>3. Head(requestQueue) \in 0..T
    BY <2>2 DEF Requests
  <2> QED
    BY <1>0, <1>5, <2>2, <2>3 DEF TypeOK, FrontDequeue
<1>6. CASE Prepare
  <2>1. freq \in Requests /\ NumWorks[freq] \in Nat
    BY <1>0, <1>6 DEF TypeOK, RequestInv, Prepare, PrepareFor, Requests
  <2>2. bt' = [r \in Requests |-> bt'[r]] /\ remaining' \in [Requests -> Nat]
    BY <1>0, <1>6, <2>1 DEF TypeOK, Prepare, PrepareFor
  <2> QED
    BY <1>0, <1>6, <2>2 DEF TypeOK, Prepare, PrepareFor
<1>7. CASE CreateWork
  <2>1. freq \in Requests /\ NumWorks[freq] \in Nat \ {0}
    BY <1>0, <1>7 DEF TypeOK, RequestInv, CreateWork, Requests
  <2>2. WorkEnd(N, NumWorks[freq], fi, fstart) \in Int
    <3>1. WorkSize(N, NumWorks[freq], fi) \in Nat
      BY <1>0, <2>1, StartType DEF TypeOK
    <3> QED
      BY <1>0, <3>1, EntriesType DEF TypeOK, WorkEnd
  <2>3. fwork' \in Work
    BY <1>0, <1>7, <2>2 DEF TypeOK, CreateWork, Work
  <2> QED
    BY <1>0, <1>7, <2>3 DEF TypeOK, CreateWork
<1>8. CASE EnqueueWork
  <2>1. fwork.end + 1 \in Nat
    <3>1. fwork.start <= fwork.end
      BY <1>0, <1>8 DEF WorkInv, LiveWork, EnqueueWork, EnqueueWorkThen
    <3>2. fwork.start \in Nat /\ fwork.end \in Int
      BY <1>0 DEF TypeOK, Work
    <3> QED
      BY <3>1, <3>2
  <2>2. NoWork \in Work
    BY DEF NoWork, Work
  <2> QED
    BY <1>0, <1>8, <2>1, <2>2 DEF TypeOK, EnqueueWork, EnqueueWorkThen, WakeBackends
<1>9. ASSUME NEW t \in Backends, BackCheck(t) \/ BackWait(t) \/ BackDequeueNothing(t)
      PROVE  TypeOK'
  <2>1. bpc' \in [Backends -> {"check", "dequeue", "waiting", "compute", "exited"}]
    BY <1>0, <1>9 DEF TypeOK, BackCheck, BackWait, BackDequeueNothing
  <2> QED
    BY <1>0, <1>9, <2>1 DEF TypeOK, BackCheck, BackWait, BackDequeueNothing
<1>10. ASSUME NEW t \in Backends, BackDequeue(t) PROVE TypeOK'
  <2>1. workQueue # <<>>
    BY <1>10 DEF BackDequeue
  <2>2. Head(workQueue) \in Work /\ Tail(workQueue) \in Seq(Work)
    BY <1>0, <2>1 DEF TypeOK
  <2>3. Head(workQueue).start \in Nat
    BY <2>2 DEF Work
  <2> HIDE DEF Work
  <2> QED
    BY <1>0, <1>10, <2>2, <2>3 DEF TypeOK, BackDequeue
<1>11. ASSUME NEW t \in Backends, ComputeEntry(t) PROVE TypeOK'
  <2>1. c' = [r \in Requests |-> [idx \in Entries |-> c'[r][idx]]]
    BY <1>0, <1>11 DEF TypeOK, ComputeEntry
  <2>2. bidx' \in [Backends -> Nat]
    BY <1>0, <1>11 DEF TypeOK, ComputeEntry
  <2> QED
    BY <1>0, <1>11, <2>1, <2>2 DEF TypeOK, ComputeEntry
<1>12. ASSUME NEW t \in Backends, FinishWork(t) PROVE TypeOK'
  <2> DEFINE w == bwork[t]
  <2>1. HandedOut(w) /\ w \in Work
    BY <1>0, <1>12 DEF TypeOK, WorkInv, FinishWork, WorkDone
  <2>2. w.req \in Requests /\ w.i \in Nat /\ remaining[w.req] - 1 \in Nat
    <3>1. w.req \in Requests /\ w.i \in Nat /\ remaining[w.req] > 0
      BY <1>0, <2>1 DEF CountInv, HandedOut, LiveWork, Work
    <3>2. remaining[w.req] \in Nat
      BY <1>0, <3>1 DEF TypeOK
    <3> QED
      BY <3>1, <3>2
  <2>3. remaining' \in [Requests -> Nat] /\ done' \in [Requests -> SUBSET Nat]
        /\ freed' \subseteq Requests
    <3>1. remaining' = [remaining EXCEPT ![w.req] = @ - 1]
          /\ done' = [done EXCEPT ![w.req] = @ \cup {w.i}]
          /\ freed' \in {freed, freed \cup {w.req}}
      BY <1>12 DEF FinishWork, EndWork
    <3>2. remaining \in [Requests -> Nat] /\ done \in [Requests -> SUBSET Nat]
          /\ freed \subseteq Requests
      BY <1>0 DEF TypeOK
    <3> HIDE DEF w
    <3> QED
      BY <2>2, <3>1, <3>2
  <2>4. active' \in 0..T
    <3>1. active # 0
      <4>1. w.req \in 1..mreq /\ w.req \notin freed
        BY <1>0, <2>1, SMTT(30) DEF TypeOK, HandedOut, LiveWork, RequestInv, Enqueued, Prepared, Requests
      <4> QED
        BY <1>0, <4>1, ActiveFacts
    <3> QED
      BY <1>0, <1>12, <3>1 DEF TypeOK, FinishWork, EndWork
  <2>5. NoWork \in Work
    BY DEF NoWork, Work
  <2>6. mpc' \in {mpc, "sync"}
    BY <1>12 DEF FinishWork, EndWork, WokenMain
  <2>7. bpc' = [bpc EXCEPT ![t] = "check"] /\ bwork' = [bwork EXCEPT ![t] = NoWork]
        /\ bidx' = [bidx EXCEPT ![t] = 0]
        /\ UNCHANGED <<mreq, printed, queueVars, frontVars, c>>
    BY <1>12 DEF FinishWork, EndWork
  <2> QED
    BY <1>0, <2>3, <2>4, <2>5, <2>6, <2>7 DEF TypeOK
<1>13. CASE SpuriousWakeup
  <2>1. /\ mpc' \in {mpc, "sync"} /\ fpc' \in {fpc, "dequeue"}
        /\ bpc' = bpc \/ \E t \in Backends : bpc' = [bpc EXCEPT ![t] = "dequeue"]
        /\ UNCHANGED <<mreq, printed, queueVars, freq, fi, fstart, fwork, bt, bwork, bidx,
                       c, countVars>>
    BY <1>13 DEF SpuriousWakeup
  <2>2. bpc' \in [Backends -> {"check", "dequeue", "waiting", "compute", "exited"}]
    BY <1>0, <2>1 DEF TypeOK
  <2> QED
    BY <1>0, <2>1, <2>2 DEF TypeOK
<1>14. CASE UNCHANGED vars
  BY <1>0, <1>14 DEF TypeOK, vars
<1> QED
  BY <1>1, <1>2, <1>3, <1>4, <1>5, <1>6, <1>7, <1>8, <1>9, <1>10, <1>11, <1>12,
     <1>13, <1>14, NextCases

-----------------------------------------------------------------------------
(* main.                                                                   *)

(* As long as a work exists its request is counted, so main cannot be past *)
(* the test of active_requests.                                            *)
LEMMA LiveIsActive ==
    ASSUME IInv, NEW w, LiveWork(w)
    PROVE  w.req \in 1..mreq /\ active > 0
<1>1. TypeOK /\ RequestInv /\ CountInv
  BY DEF IInv
<1>2. freq <= mreq
  BY <1>1 DEF TypeOK, RequestInv, Enqueued
<1>3. w.req \in 1..mreq /\ w.req \notin freed
  BY <1>1, <1>2, PoolAssumption DEF LiveWork, Prepared, TypeOK, Requests
<1>4. active # 0
  BY <1>1, <1>3, ActiveFacts
<1> QED
  BY <1>1, <1>3, <1>4 DEF TypeOK

(* When every request is counted and none is active, all of them have been *)
(* split and freed and there is nothing left to do.                        *)
LEMMA AllRetired ==
    ASSUME IInv, mreq = T, active = 0, mpc # "enqueue"
    PROVE  /\ freed = Requests
           /\ freq = T
           /\ fpc # "prepare"
           /\ Len(requestQueue) = 0
           /\ \A w : ~LiveWork(w)
<1> USE PoolAssumption
<1>1. TypeOK /\ RequestInv /\ CountInv
  BY DEF IInv
<1>2. freed = Requests
  BY <1>1, ActiveFacts DEF TypeOK, Requests
<1>3. Prepared(T)
  BY <1>1, <1>2 DEF CountInv, Requests
<1>4. freq = T /\ fpc # "prepare"
  BY <1>1, <1>3 DEF Prepared, TypeOK
<1>5. Len(requestQueue) = 0
  BY <1>1, <1>4 DEF RequestInv, Enqueued
<1>6. \A w : ~LiveWork(w)
  BY LiveIsActive, <1>1
<1> QED
  BY <1>2, <1>4, <1>5, <1>6

LEMMA MainStep == IInv /\ [Next]_vars => MainInv'
<1> SUFFICES ASSUME IInv, [Next]_vars PROVE MainInv'
  OBVIOUS
<1> USE PoolAssumption DEF mainVars, queueVars, frontVars, backVars, countVars
<1>0. TypeOK /\ MainInv
  BY DEF IInv
<1>1. CASE CountRequest
  BY <1>0, <1>1 DEF TypeOK, MainInv, CountRequest
<1>2. CASE EnqueueRequest
  BY <1>0, <1>2 DEF TypeOK, MainInv, EnqueueRequest
<1>3. CASE TestActive
  BY <1>0, <1>3 DEF TypeOK, MainInv, TestActive, TestActiveAgainst
<1>4. CASE TestWorkQueue
  <2>1. Len(workQueue) = 0
    <3>1. ASSUME Len(workQueue) # 0 PROVE FALSE
      <4>1. 1 \in 1..Len(workQueue)
        BY <3>1, <1>0 DEF TypeOK
      <4>2. LiveWork(workQueue[1])
        BY <4>1 DEF IInv, WorkInv, HandedOut
      <4>3. active = 0
        BY <1>0, <1>4 DEF MainInv, TestWorkQueue
      <4> QED
        BY <4>2, <4>3, LiveIsActive
    <3> QED
      BY <3>1
  <2> QED
    BY <1>0, <1>4, <2>1 DEF MainInv, TestWorkQueue
<1>5. CASE TestRequestQueue
  <2>1. Len(requestQueue) = 0
    BY <1>0, <1>5, AllRetired DEF MainInv, TestRequestQueue
  <2> QED
    BY <1>0, <1>5, <2>1 DEF MainInv, TestRequestQueue
<1>6. CASE PrintResults \/ FreeMatrices \/ StopRequests \/ StopWorks \/ JoinAll
  BY <1>0, <1>6 DEF MainInv, PrintResults, FreeMatrices, StopRequests, StopWorks,
      StopWorksTelling, JoinAll
<1>7. CASE FrontCheck \/ FrontWait \/ FrontDequeueNothing \/ FrontDequeue \/ Prepare
           \/ CreateWork \/ EnqueueWork \/ LeaveLoop
  BY <1>0, <1>7 DEF MainInv, FrontCheck, FrontWait, FrontDequeueNothing, FrontDequeue,
      Prepare, PrepareFor, CreateWork, EnqueueWork, EnqueueWorkThen, LeaveLoop
<1>8. CASE \E t \in Backends : BackCheck(t) \/ BackWait(t) \/ BackDequeueNothing(t)
                               \/ BackDequeue(t) \/ ComputeEntry(t)
  BY <1>0, <1>8 DEF MainInv, BackCheck, BackWait, BackDequeueNothing, BackDequeue, ComputeEntry
<1>9. ASSUME NEW t \in Backends, FinishWork(t) PROVE MainInv'
  <2>1. active > 0
    <3>1. LiveWork(bwork[t])
      BY <1>9 DEF IInv, WorkInv, HandedOut, FinishWork, WorkDone
    <3> QED
      BY <3>1, LiveIsActive
  <2>2. mpc \in {"request", "enqueue", "sync", "syncWait"}
    BY <1>0, <2>1 DEF MainInv
  <2>3. UNCHANGED <<mreq, printed, workStop>>
    BY <1>9 DEF FinishWork, EndWork
  <2>4. \/ active' = active /\ mpc' = mpc
        \/ active' = active - 1 /\ mpc' = IF active - 1 = 0 THEN WokenMain ELSE mpc
    BY <1>9 DEF FinishWork, EndWork
  <2> QED
    BY <1>0, <2>1, <2>2, <2>3, <2>4 DEF MainInv, TypeOK, WokenMain
<1>10. CASE SpuriousWakeup
  BY <1>0, <1>10 DEF MainInv, SpuriousWakeup
<1>11. CASE UNCHANGED vars
  BY <1>0, <1>11 DEF MainInv, vars
<1> QED
  BY <1>1, <1>2, <1>3, <1>4, <1>5, <1>6, <1>7, <1>8, <1>9, <1>10, <1>11, NextCases

-----------------------------------------------------------------------------
(* The queue of requests, and the threads that wait.                       *)

LEMMA RequestStep == IInv /\ [Next]_vars => RequestInv'
<1> SUFFICES ASSUME IInv, [Next]_vars PROVE RequestInv'
  OBVIOUS
<1> USE PoolAssumption DEF mainVars, queueVars, frontVars, backVars, countVars
<1>0. TypeOK /\ MainInv /\ RequestInv
  BY DEF IInv
<1>1. CASE CountRequest
  BY <1>0, <1>1 DEF TypeOK, RequestInv, CountRequest, Enqueued
<1>2. CASE EnqueueRequest
  <2>1. requestQueue' = Append(requestQueue, mreq) /\ freq' = freq /\ mreq' = mreq
        /\ Enqueued = mreq - 1 /\ Enqueued' = mreq
    BY <1>2 DEF EnqueueRequest, Enqueued
  <2>2. /\ Len(requestQueue') = Len(requestQueue) + 1
        /\ \A k \in 1..Len(requestQueue) : requestQueue'[k] = requestQueue[k]
        /\ requestQueue'[Len(requestQueue) + 1] = mreq
    BY <1>0, <2>1 DEF TypeOK
  <2>3. \A k \in 1..Len(requestQueue') : requestQueue'[k] = freq + k
    <3>1. Len(requestQueue) \in Nat /\ freq \in Nat /\ mreq \in Nat
      BY <1>0 DEF TypeOK
    <3>2. Len(requestQueue) + 1 = mreq - freq
      BY <1>0, <2>1, <3>1 DEF RequestInv
    <3>3. \A k \in 1..Len(requestQueue) : requestQueue[k] = freq + k
      BY <1>0 DEF RequestInv
    <3>4. ASSUME NEW k \in 1..Len(requestQueue') PROVE requestQueue'[k] = freq + k
      <4>1. CASE k \in 1..Len(requestQueue)
        BY <2>2, <3>3, <4>1
      <4>2. CASE k = Len(requestQueue) + 1
        <5>1. freq + k = mreq
          BY <3>1, <3>2, <4>2
        <5> QED
          BY <2>2, <4>2, <5>1
      <4> QED
        BY <2>2, <3>1, <4>1, <4>2
    <3> QED
      BY <3>4
  <2>4. fpc' \in {"prepare", "split", "enqueue"} => freq > 0
    BY <1>0, <1>2 DEF RequestInv, EnqueueRequest, WokenFrontend
  <2> QED
    BY <1>0, <2>1, <2>2, <2>3, <2>4 DEF TypeOK, RequestInv
<1>3. CASE TestActive \/ TestWorkQueue \/ TestRequestQueue \/ PrintResults \/ FreeMatrices
           \/ StopRequests \/ StopWorks \/ JoinAll
  BY <1>0, <1>3 DEF RequestInv, Enqueued, TestActive, TestActiveAgainst, TestWorkQueue,
      TestRequestQueue, PrintResults, FreeMatrices, StopRequests, StopWorks,
      StopWorksTelling, JoinAll, WokenFrontend
<1>4. CASE FrontCheck \/ FrontWait \/ FrontDequeueNothing \/ Prepare \/ CreateWork
           \/ EnqueueWork \/ LeaveLoop
  BY <1>0, <1>4 DEF RequestInv, Enqueued, FrontCheck, FrontWait, FrontDequeueNothing,
      Prepare, PrepareFor, CreateWork, EnqueueWork, EnqueueWorkThen, LeaveLoop
<1>5. CASE FrontDequeue
  <2>1. requestQueue # <<>> /\ freq' = Head(requestQueue)
        /\ requestQueue' = Tail(requestQueue) /\ Enqueued' = Enqueued
    BY <1>5 DEF FrontDequeue, Enqueued
  <2>2. /\ Len(requestQueue') = Len(requestQueue) - 1
        /\ \A k \in 1..Len(requestQueue') : requestQueue'[k] = requestQueue[k + 1]
        /\ Head(requestQueue) = requestQueue[1] /\ Len(requestQueue) >= 1
    BY <1>0, <2>1 DEF TypeOK
  <2>3. freq' = freq + 1
    <3>1. 1 \in 1..Len(requestQueue)
      BY <2>2
    <3> QED
      BY <1>0, <2>1, <2>2, <3>1 DEF RequestInv
  <2>4. \A k \in 1..Len(requestQueue') : requestQueue'[k] = freq' + k
    <3> SUFFICES ASSUME NEW k \in 1..Len(requestQueue') PROVE requestQueue'[k] = freq' + k
      OBVIOUS
    <3>1. Len(requestQueue) \in Nat /\ freq \in Nat
      BY <1>0 DEF TypeOK
    <3>2. k + 1 \in 1..Len(requestQueue)
      BY <2>2, <3>1
    <3>3. requestQueue[k + 1] = freq + (k + 1)
      BY <1>0, <3>2 DEF RequestInv
    <3> QED
      BY <2>2, <2>3, <3>1, <3>3
  <2>5. Enqueued \in Int
    BY <1>0 DEF TypeOK, Enqueued
  <2> QED
    BY <1>0, <2>1, <2>2, <2>3, <2>4, <2>5, SMTT(30) DEF TypeOK, RequestInv
<1>6. CASE \E t \in Backends : BackCheck(t) \/ BackWait(t) \/ BackDequeueNothing(t)
                               \/ BackDequeue(t) \/ ComputeEntry(t)
  BY <1>0, <1>6 DEF RequestInv, Enqueued, BackCheck, BackWait, BackDequeueNothing,
      BackDequeue, ComputeEntry
<1>7. CASE \E t \in Backends : FinishWork(t)
  <2>1. UNCHANGED <<mreq, requestQueue, fpc, freq>> /\ (mpc' = "enqueue" <=> mpc = "enqueue")
    BY <1>7 DEF FinishWork, EndWork, WokenMain
  <2> QED
    BY <1>0, <2>1 DEF RequestInv, Enqueued
<1>8. CASE SpuriousWakeup
  BY <1>0, <1>8 DEF RequestInv, Enqueued, SpuriousWakeup
<1>9. CASE UNCHANGED vars
  BY <1>0, <1>9 DEF RequestInv, Enqueued, vars
<1> QED
  BY <1>1, <1>2, <1>3, <1>4, <1>5, <1>6, <1>7, <1>8, <1>9, NextCases

LEMMA WaitStep == IInv /\ [Next]_vars => WaitInv'
<1> SUFFICES ASSUME IInv, [Next]_vars PROVE WaitInv'
  OBVIOUS
<1> USE DEF mainVars, queueVars, frontVars, backVars, countVars
<1>0. TypeOK /\ WaitInv
  BY DEF IInv
<1>1. CASE CountRequest \/ TestActive \/ TestWorkQueue \/ TestRequestQueue \/ PrintResults
           \/ FreeMatrices \/ JoinAll
  BY <1>0, <1>1 DEF WaitInv, CountRequest, TestActive, TestActiveAgainst, TestWorkQueue,
      TestRequestQueue, PrintResults, FreeMatrices, JoinAll
<1>2. CASE EnqueueRequest \/ StopRequests
  BY <1>0, <1>2 DEF WaitInv, EnqueueRequest, StopRequests, WokenFrontend
<1>3. CASE StopWorks \/ EnqueueWork
  <2>1. bpc' = WakeBackends /\ UNCHANGED <<requestQueue, requestStop>>
        /\ (fpc' = "waiting" => fpc = "waiting")
    BY <1>3 DEF StopWorks, StopWorksTelling, EnqueueWork, EnqueueWorkThen
  <2> QED
    BY <1>0, <2>1 DEF WaitInv, WakeBackends
<1>4. CASE FrontCheck \/ FrontWait \/ FrontDequeueNothing \/ FrontDequeue \/ Prepare
           \/ CreateWork \/ LeaveLoop
  BY <1>0, <1>4 DEF WaitInv, FrontCheck, FrontWait, FrontDequeueNothing, FrontDequeue,
      Prepare, PrepareFor, CreateWork, LeaveLoop
<1>5. ASSUME NEW t \in Backends,
             BackCheck(t) \/ BackWait(t) \/ BackDequeueNothing(t) \/ BackDequeue(t)
             \/ ComputeEntry(t) \/ FinishWork(t)
      PROVE  WaitInv'
  <2>1. UNCHANGED <<requestQueue, requestStop, workStop, fpc>>
    BY <1>5 DEF BackCheck, BackWait, BackDequeueNothing, BackDequeue, ComputeEntry,
        FinishWork, EndWork
  <2>2. CASE BackDequeue(t)
    BY <1>0, <2>1, <2>2 DEF WaitInv, TypeOK, BackDequeue
  <2>3. CASE ~BackDequeue(t)
    <3>1. workQueue' = workQueue
      BY <1>5, <2>3 DEF BackCheck, BackWait, BackDequeueNothing, ComputeEntry, FinishWork, EndWork
    <3>2. \A u \in Backends : bpc'[u] = "waiting" =>
             bpc[u] = "waiting" \/ (Len(workQueue) = 0 /\ ~workStop)
      BY <1>0, <1>5, <2>3 DEF TypeOK, BackCheck, BackWait, BackDequeueNothing, ComputeEntry,
          FinishWork, EndWork
    <3> QED
      BY <1>0, <2>1, <3>1, <3>2 DEF WaitInv
  <2> QED
    BY <2>2, <2>3
<1>6. CASE SpuriousWakeup
  BY <1>0, <1>6 DEF TypeOK, WaitInv, SpuriousWakeup
<1>7. CASE UNCHANGED vars
  BY <1>0, <1>7 DEF WaitInv, vars
<1> QED
  BY <1>1, <1>2, <1>3, <1>4, <1>5, <1>6, <1>7, NextCases

-----------------------------------------------------------------------------
(* The loop that splits a request.                                         *)

(* The steps that matter to the split, and what all others leave alone.    *)
FrontQuiet ==
    /\ UNCHANGED <<freq, fi, fstart, fwork>>
    /\ \/ fpc' = fpc
       \/ /\ fpc \in {"check", "dequeue", "waiting", "exited"}
          /\ fpc' \in {"check", "dequeue", "waiting", "exited"}

LEMMA FrontCases ==
    [Next]_vars => FrontDequeue \/ Prepare \/ CreateWork \/ EnqueueWork \/ LeaveLoop \/ FrontQuiet
<1> USE DEF mainVars, queueVars, frontVars, backVars, countVars
<1>1. CountRequest \/ EnqueueRequest \/ TestActive \/ TestWorkQueue \/ TestRequestQueue
      \/ PrintResults \/ FreeMatrices \/ StopRequests \/ StopWorks \/ JoinAll => FrontQuiet
  BY DEF FrontQuiet, CountRequest, EnqueueRequest, TestActive, TestActiveAgainst, TestWorkQueue,
      TestRequestQueue, PrintResults, FreeMatrices, StopRequests, StopWorks, StopWorksTelling,
      JoinAll, WokenFrontend
<1>2. FrontCheck \/ FrontWait \/ FrontDequeueNothing \/ SpuriousWakeup \/ UNCHANGED vars
      => FrontQuiet
  BY DEF FrontQuiet, FrontCheck, FrontWait, FrontDequeueNothing, SpuriousWakeup, vars
<1>3. \A t \in Backends : BackCheck(t) \/ BackWait(t) \/ BackDequeueNothing(t) \/ BackDequeue(t)
                          \/ ComputeEntry(t) \/ FinishWork(t) => FrontQuiet
  BY DEF FrontQuiet, BackCheck, BackWait, BackDequeueNothing, BackDequeue, ComputeEntry,
      FinishWork, EndWork
<1> QED
  BY <1>1, <1>2, <1>3, NextCases

LEMMA QuietSame ==
    FrontQuiet => /\ InLoop' <=> InLoop
                  /\ \A r : Prepared(r)' <=> Prepared(r)
BY DEF FrontQuiet, InLoop, Prepared

(* When the loop may end everything has been cut, also when the request    *)
(* has been freed under it.                                                *)
LEMMA LoopEnd ==
    ASSUME IInv, InLoop, LoopMayEnd
    PROVE  fi = NumWorks[freq] /\ fstart = TotalEntries(N)
<1> USE PoolAssumption
<1>1. TypeOK /\ RequestInv /\ SplitInv /\ CountInv
  BY DEF IInv
<1>2. freq \in Requests /\ NumWorks[freq] \in Nat \ {0} /\ fi \in Nat
  BY <1>1 DEF TypeOK, RequestInv, InLoop, Requests
<1>3. fi <= NumWorks[freq] /\ fstart = Start(NumWorks[freq], fi)
  BY <1>1 DEF SplitInv
<1>4. fi >= NumWorks[freq]
  <2>1. CASE freq \in freed
    <3>1. NumWorks[freq] - 1 \in done[freq]
      BY <1>1, <1>2, <2>1 DEF CountInv, WorkIds
    <3>2. NumWorks[freq] - 1 < fi
      BY <1>1, <1>2, <3>1 DEF CountInv
    <3> QED
      BY <1>2, <3>2
  <2> QED
    BY <2>1 DEF LoopMayEnd
<1>5. fi = NumWorks[freq]
  BY <1>2, <1>3, <1>4
<1> QED
  BY <1>2, <1>3, <1>5, StartType

(* Taking a request from the queue prepares no other one ...               *)
LEMMA DequeueSame ==
    ASSUME IInv, FrontDequeue
    PROVE  /\ freq' = freq + 1 /\ freq' \in Requests /\ freq \in Nat
           /\ ~InLoop /\ ~InLoop'
           /\ \A r \in Requests : Prepared(r)' <=> Prepared(r)
<1>1. TypeOK /\ RequestInv
  BY DEF IInv
<1>2. /\ fpc = "dequeue" /\ fpc' = "prepare" /\ freq' = Head(requestQueue)
      /\ requestQueue # <<>>
  BY DEF FrontDequeue
<1>3. requestQueue[1] = Head(requestQueue) /\ 1 \in 1..Len(requestQueue)
      /\ Head(requestQueue) \in Requests
  BY <1>1, <1>2 DEF TypeOK
<1>4. freq' = freq + 1 /\ freq' \in Requests /\ freq \in Nat
  <2>1. requestQueue[1] = freq + 1
    BY <1>1, <1>3 DEF RequestInv
  <2>2. freq \in Nat
    BY <1>1, PoolAssumption DEF TypeOK
  <2> QED
    BY <1>2, <1>3, <2>1, <2>2
<1> QED
  BY <1>2, <1>4 DEF InLoop, Prepared, Requests

(* ... and preparing it prepares only it.                                  *)
LEMMA PrepareSame ==
    ASSUME IInv, Prepare
    PROVE  /\ freq' = freq /\ freq \in Requests
           /\ ~InLoop /\ InLoop' /\ ~Prepared(freq)
           /\ \A r \in Requests : Prepared(r)' <=> Prepared(r) \/ r = freq
<1>1. TypeOK /\ RequestInv
  BY DEF IInv
<1>2. fpc = "prepare" /\ fpc' = "split" /\ freq' = freq
  BY DEF Prepare, PrepareFor
<1>3. freq \in Requests
  BY <1>1, <1>2 DEF TypeOK, RequestInv, Requests
<1> QED
  BY <1>2, <1>3 DEF InLoop, Prepared, Requests

LEMMA SplitStep == IInv /\ [Next]_vars => SplitInv'
<1> SUFFICES ASSUME IInv, [Next]_vars PROVE SplitInv'
  OBVIOUS
<1> USE PoolAssumption
<1>0. TypeOK /\ RequestInv /\ SplitInv /\ WorkInv
  BY DEF IInv
<1>1. CASE FrontDequeue
  <2>1. fpc' = "prepare"
    BY <1>1 DEF FrontDequeue
  <2> QED
    BY <1>0, <1>1, <2>1, DequeueSame DEF SplitInv
<1>2. CASE Prepare
  <2>1. fi' = 0 /\ fstart' = 0 /\ fpc' = "split"
    BY <1>2 DEF Prepare, PrepareFor
  <2>2. Start(NumWorks[freq], 0) = 0 /\ NumWorks[freq] \in Nat
    BY <1>2, PrepareSame, StartType
  <2>3. \A idx \in Entries : ~(idx < 0)
    BY EntriesType DEF Entries
  <2> QED
    BY <1>0, <1>2, <2>1, <2>2, <2>3, PrepareSame DEF SplitInv
<1>3. CASE CreateWork
  <2>1. UNCHANGED <<freq, fi, fstart>> /\ fpc = "split" /\ fpc' = "enqueue"
    BY <1>3 DEF CreateWork
  <2> QED
    BY <1>0, <2>1 DEF SplitInv, InLoop, Prepared
<1>4. CASE EnqueueWork
  <2>1. /\ freq' = freq /\ fi' = fi + 1 /\ fstart' = fwork.end + 1
        /\ fpc = "enqueue" /\ fpc' = "split"
    BY <1>4 DEF EnqueueWork, EnqueueWorkThen
  <2>2. /\ LiveWork(fwork) /\ fwork.req = freq /\ fwork.i = fi
    BY <1>0, <2>1 DEF WorkInv
  <2>3. freq \in Requests /\ NumWorks[freq] \in Nat \ {0} /\ fi \in 0..NumWorks[freq]-1
    BY <2>2 DEF LiveWork, WorkIds
  <2>4. fstart' = Start(NumWorks[freq], fi + 1)
    <3>1. Start(NumWorks[freq], fi + 1) \in Nat /\ fwork.end = Start(NumWorks[freq], fi + 1) - 1
      BY <2>2, <2>3, StartType DEF LiveWork
    <3> QED
      BY <2>1, <3>1
  <2>5. fstart = Start(NumWorks[freq], fi)
    BY <1>0, <2>1 DEF SplitInv, InLoop
  <2>6. ASSUME NEW idx \in Entries, idx < fstart'
        PROVE  \E i \in 0..fi'-1 : idx \in Slice(freq, i)
    <3>1. CASE idx < fstart
      <4>1. PICK i \in 0..fi-1 : idx \in Slice(freq, i)
        BY <1>0, <2>1, <3>1 DEF SplitInv, InLoop
      <4>2. i \in 0..fi'-1
        BY <2>1, <2>3
      <4> QED
        BY <4>1, <4>2
    <3>2. CASE idx >= fstart
      <4>1. idx \in Int
        BY EntriesType DEF Entries
      <4>2. idx \in Slice(freq, fi)
        <5>1. Start(NumWorks[freq], fi) \in Nat /\ Start(NumWorks[freq], fi + 1) \in Nat
          BY <2>3, StartType
        <5>2. Start(NumWorks[freq], fi) <= idx /\ idx <= Start(NumWorks[freq], fi + 1) - 1
          BY <2>4, <2>5, <2>6, <3>2, <4>1, <5>1
        <5> QED
          BY <4>1, <5>1, <5>2 DEF Slice
      <4>3. fi \in 0..fi'-1
        BY <2>1, <2>3
      <4> QED
        BY <4>2, <4>3
    <3>3. fstart \in Nat /\ idx \in Int
      BY <1>0, EntriesType DEF TypeOK, Entries
    <3> QED
      BY <3>1, <3>2, <3>3
  <2>7. InLoop /\ InLoop' /\ \A r : Prepared(r)' <=> Prepared(r)
    BY <2>1 DEF InLoop, Prepared
  <2>8. fi' <= NumWorks[freq]
    BY <2>1, <2>3
  <2> QED
    BY <1>0, <2>1, <2>4, <2>6, <2>7, <2>8 DEF SplitInv, Slice
<1>5. CASE LeaveLoop
  <2>1. UNCHANGED <<freq, fi, fstart>> /\ fpc = "split" /\ fpc' = "check"
    BY <1>5 DEF LeaveLoop
  <2>2. InLoop /\ ~InLoop' /\ \A r : Prepared(r)' <=> Prepared(r)
    BY <2>1 DEF InLoop, Prepared
  <2>3. fstart >= TotalEntries(N)
    BY <1>5, <2>2, LoopEnd, EntriesType DEF LeaveLoop
  <2>4. \A idx \in Entries : idx < fstart
    BY <1>0, <2>3, EntriesType DEF Entries, TypeOK
  <2>5. freq \in Requests /\ NumWorks[freq] \in Nat /\ fi <= NumWorks[freq] /\ fi \in Nat
    BY <1>0, <2>2 DEF RequestInv, SplitInv, InLoop, TypeOK, Requests
  <2>6. \A idx \in Entries : \E i \in WorkIds(freq) : idx \in Slice(freq, i)
    <3>1. \A idx \in Entries : \E i \in 0..fi-1 : idx \in Slice(freq, i)
      BY <1>0, <2>2, <2>4 DEF SplitInv
    <3>2. 0..fi-1 \subseteq WorkIds(freq)
      BY <2>5 DEF WorkIds
    <3> QED
      BY <3>1, <3>2
  <2> QED
    BY <1>0, <2>1, <2>2, <2>3, <2>6 DEF SplitInv, Slice
<1>6. CASE FrontQuiet
  <2>1. /\ UNCHANGED <<freq, fi, fstart>>
        /\ fpc' \in {"check", "dequeue", "waiting", "exited"} =>
              fpc \in {"check", "dequeue", "waiting", "exited"}
    BY <1>6 DEF FrontQuiet
  <2> QED
    BY <1>0, <1>6, <2>1, QuietSame DEF SplitInv
<1> QED
  BY <1>1, <1>2, <1>3, <1>4, <1>5, <1>6, FrontCases

-----------------------------------------------------------------------------
(* The works.                                                              *)

(* The works that exist, but for the one the frontend is about to enqueue. *)
WorkQuiet ==
    /\ UNCHANGED <<workQueue, bwork, freed, done>>
    /\ \A t \in Backends : bpc'[t] = "compute" <=> bpc[t] = "compute"

LEMMA WorkCases ==
    IInv /\ [Next]_vars => \/ EnqueueWork
                           \/ \E t \in Backends : BackDequeue(t)
                           \/ \E t \in Backends : FinishWork(t)
                           \/ WorkQuiet
<1> SUFFICES ASSUME IInv, [Next]_vars
             PROVE  \/ EnqueueWork
                    \/ \E t \in Backends : BackDequeue(t)
                    \/ \E t \in Backends : FinishWork(t)
                    \/ WorkQuiet
  OBVIOUS
<1> USE DEF mainVars, queueVars, frontVars, backVars, countVars
<1>0. bpc = [t \in Backends |-> bpc[t]]
  BY DEF IInv, TypeOK
<1>1. CountRequest \/ EnqueueRequest \/ TestActive \/ TestWorkQueue \/ TestRequestQueue
      \/ PrintResults \/ FreeMatrices \/ StopRequests \/ JoinAll => WorkQuiet
  BY DEF WorkQuiet, CountRequest, EnqueueRequest, TestActive, TestActiveAgainst, TestWorkQueue,
      TestRequestQueue, PrintResults, FreeMatrices, StopRequests, JoinAll
<1>2. StopWorks => WorkQuiet
  BY DEF WorkQuiet, StopWorks, StopWorksTelling, WakeBackends
<1>3. FrontCheck \/ FrontWait \/ FrontDequeueNothing \/ FrontDequeue \/ Prepare \/ CreateWork
      \/ LeaveLoop \/ UNCHANGED vars => WorkQuiet
  BY DEF WorkQuiet, FrontCheck, FrontWait, FrontDequeueNothing, FrontDequeue, Prepare,
      PrepareFor, CreateWork, LeaveLoop, vars
<1>4. \A t \in Backends : BackCheck(t) \/ BackWait(t) \/ BackDequeueNothing(t) \/ ComputeEntry(t)
                          => WorkQuiet
  BY <1>0 DEF WorkQuiet, BackCheck, BackWait, BackDequeueNothing, ComputeEntry
<1>5. SpuriousWakeup => WorkQuiet
  BY <1>0 DEF WorkQuiet, SpuriousWakeup
<1> QED
  BY <1>1, <1>2, <1>3, <1>4, <1>5, NextCases

(* What the frontend creates is the next slice of a request that is still  *)
(* there.                                                                  *)
LEMMA CreatedWorkIsLive ==
    ASSUME IInv, CreateWork
    PROVE  LiveWork(fwork)' /\ fwork'.req = freq' /\ fwork'.i = fi'
<1> USE PoolAssumption
<1>1. TypeOK /\ RequestInv /\ SplitInv /\ CountInv
  BY DEF IInv
<1>2. /\ fpc = "split" /\ fpc' = "enqueue" /\ LoopMayGoOn /\ fstart < TotalEntries(N)
      /\ fwork' = [req |-> freq, i |-> fi, start |-> fstart,
                   end |-> WorkEnd(N, NumWorks[freq], fi, fstart)]
      /\ UNCHANGED <<freq, fi, fstart, freed, done>>
  BY DEF CreateWork, countVars
<1>3. freq \in Requests /\ NumWorks[freq] \in Nat \ {0} /\ fi \in Nat
  BY <1>1, <1>2 DEF TypeOK, RequestInv, Requests
<1>4. freq \notin freed
  BY <1>2, <1>3, LoopEnd, EntriesType DEF InLoop, LoopMayEnd
<1>5. fi \in WorkIds(freq)
  BY <1>2, <1>3, <1>4 DEF LoopMayGoOn, WorkIds
<1>6. fi \notin done[freq]
  <2>1. InLoop
    BY <1>2 DEF InLoop
  <2>2. \A i \in done[freq] : i < fi
    BY <1>1, <1>3, <2>1 DEF CountInv
  <2> QED
    BY <1>3, <2>2
<1>7. fstart = Start(NumWorks[freq], fi)
  BY <1>1, <1>2 DEF SplitInv, InLoop
<1>8. /\ WorkEnd(N, NumWorks[freq], fi, fstart) = Start(NumWorks[freq], fi + 1) - 1
      /\ fstart <= Start(NumWorks[freq], fi + 1) - 1
      /\ Start(NumWorks[freq], fi + 1) <= TotalEntries(N)
  BY <1>2, <1>3, <1>5, <1>7, WorkIsSlice DEF WorkIds
<1>9. Start(NumWorks[freq], fi + 1) - 1 < TotalEntries(N)
  <2>1. fi + 1 \in Nat
    BY <1>3
  <2>2. Start(NumWorks[freq], fi + 1) \in Nat
    BY <1>3, <2>1, StartType
  <2> QED
    BY <1>8, <2>2, EntriesType
<1>10. Prepared(freq)'
  BY <1>2 DEF Prepared
<1> QED
  BY <1>2, <1>3, <1>4, <1>5, <1>6, <1>7, <1>8, <1>9, <1>10 DEF LiveWork, WorkIds

(* FinishWork takes one work off the count, and takes the count to zero    *)
(* exactly when no other work of the request is left.                      *)
LEMMA FinishFacts ==
    ASSUME IInv, NEW t \in Backends, FinishWork(t)
    PROVE  LET r == bwork[t].req
               i == bwork[t].i
           IN  /\ r \in Requests /\ r \notin freed /\ Prepared(r)
               /\ i \in WorkIds(r) /\ i \notin done[r]
               /\ HandedOut(bwork[t])
               /\ done' = [done EXCEPT ![r] = @ \cup {i}]
               /\ freed' = IF LastWork(t) THEN freed \cup {r} ELSE freed
               /\ remaining' = [remaining EXCEPT ![r] = @ - 1]
               /\ remaining'[r] = Cardinality(WorkIds(r) \ done'[r])
               /\ LastWork(t) <=> done'[r] = WorkIds(r)
               /\ LastWork(t) <=> remaining'[r] = 0
<1> DEFINE r == bwork[t].req
           i == bwork[t].i
           S == WorkIds(r) \ done[r]
<1>1. TypeOK /\ CountInv /\ HandedOut(bwork[t])
  BY DEF IInv, WorkInv, FinishWork, WorkDone
<1>2. r \in Requests /\ r \notin freed /\ Prepared(r) /\ i \in WorkIds(r) /\ i \notin done[r]
  BY <1>1 DEF HandedOut, LiveWork
<1>3. /\ done' = [done EXCEPT ![r] = @ \cup {i}]
      /\ freed' = IF LastWork(t) THEN freed \cup {r} ELSE freed
      /\ remaining' = [remaining EXCEPT ![r] = @ - 1]
  BY DEF FinishWork, EndWork
<1>4. /\ remaining[r] \in Nat /\ remaining[r] = Cardinality(S) /\ done[r] \subseteq WorkIds(r)
      /\ remaining'[r] = remaining[r] - 1 /\ done'[r] = done[r] \cup {i}
  BY <1>1, <1>2, <1>3 DEF TypeOK, CountInv
<1>5. IsFiniteSet(S)
  <2>1. IsFiniteSet(WorkIds(r))
    <3>1. 0 \in Int /\ NumWorks[r] - 1 \in Int
      BY <1>2, PoolAssumption
    <3> QED
      BY <3>1, FS_Interval DEF WorkIds
  <2> QED
    BY <2>1, FS_Subset
<1>6. S \ {i} = WorkIds(r) \ done'[r] /\ i \in S
  BY <1>2, <1>4
<1> HIDE DEF S
<1>7. IsFiniteSet(S \ {i}) /\ Cardinality(S \ {i}) = Cardinality(S) - 1
  BY <1>5, <1>6, FS_RemoveElement
<1>8. Cardinality(S \ {i}) = 0 <=> S \ {i} = {}
  BY <1>7, FS_EmptySet
<1>9. done'[r] \subseteq WorkIds(r)
  BY <1>2, <1>4
<1> QED
  BY <1>1, <1>2, <1>3, <1>4, <1>6, <1>7, <1>8, <1>9 DEF LastWork

LEMMA WorkStep == IInv /\ [Next]_vars => WorkInv'
<1> SUFFICES ASSUME IInv, [Next]_vars PROVE WorkInv'
  OBVIOUS
<1> USE PoolAssumption
<1>0. TypeOK /\ RequestInv /\ WorkInv /\ UniqueInv /\ CountInv
  BY DEF IInv
<1>1. CASE WorkQuiet /\ FrontQuiet
  <2>1. UNCHANGED <<workQueue, bwork, freed, done, freq, fi, fwork>>
        /\ (fpc' = "enqueue" <=> fpc = "enqueue")
    BY <1>1 DEF WorkQuiet, FrontQuiet
  <2> QED
    BY <1>0, <1>1, <2>1, QuietSame DEF WorkInv, HandedOut, LiveWork, WorkQuiet
<1>2. CASE FrontDequeue
  <2>1. WorkQuiet /\ fpc' # "enqueue"
    BY <1>2 DEF FrontDequeue, WorkQuiet, backVars, countVars
  <2> QED
    BY <1>0, <1>2, <2>1, DequeueSame DEF WorkInv, HandedOut, LiveWork, WorkQuiet
<1>3. CASE Prepare
  <2>1. WorkQuiet /\ fpc' # "enqueue"
    BY <1>3 DEF Prepare, PrepareFor, WorkQuiet, queueVars, backVars, countVars
  <2> QED
    BY <1>0, <1>3, <2>1, PrepareSame DEF WorkInv, HandedOut, LiveWork, WorkQuiet
<1>4. CASE CreateWork
  <2>1. WorkQuiet /\ UNCHANGED <<freq, fi>> /\ fpc = "split" /\ fpc' = "enqueue"
    BY <1>4 DEF CreateWork, WorkQuiet, queueVars, backVars, countVars
  <2>2. InLoop /\ InLoop' /\ \A r : Prepared(r)' <=> Prepared(r)
    BY <2>1 DEF InLoop, Prepared
  <2> QED
    BY <1>0, <1>4, <2>1, <2>2, CreatedWorkIsLive DEF WorkInv, HandedOut, LiveWork, WorkQuiet
<1>5. CASE LeaveLoop
  <2>1. WorkQuiet /\ UNCHANGED <<freq, fi>> /\ fpc = "split" /\ fpc' = "check"
    BY <1>5 DEF LeaveLoop, WorkQuiet, queueVars, backVars, countVars
  <2>2. ~InLoop' /\ \A r : Prepared(r)' <=> Prepared(r)
    BY <2>1 DEF InLoop, Prepared
  <2> QED
    BY <1>0, <2>1, <2>2 DEF WorkInv, HandedOut, LiveWork, WorkQuiet
<1>6. CASE EnqueueWork
  <2>1. /\ fpc = "enqueue" /\ fpc' = "split" /\ workQueue' = Append(workQueue, fwork)
        /\ fi' = fi + 1 /\ UNCHANGED <<freq, bwork, freed, done>>
    BY <1>6 DEF EnqueueWork, EnqueueWorkThen, countVars
  <2>2. InLoop /\ InLoop' /\ \A r : Prepared(r)' <=> Prepared(r)
    BY <2>1 DEF InLoop, Prepared
  <2>3. \A t \in Backends : bpc'[t] = "compute" <=> bpc[t] = "compute"
    BY <1>6 DEF EnqueueWork, EnqueueWorkThen, WakeBackends
  <2>4. LiveWork(fwork) /\ fwork.req = freq /\ fwork.i = fi /\ fi \in Nat
    BY <1>0, <2>1 DEF WorkInv, TypeOK
  <2>5. \A k \in 1..Len(workQueue) : workQueue[k].req \in Requests /\ workQueue[k].i \in Nat
        /\ workQueue'[k] = workQueue[k]
    BY <1>0, <2>1 DEF TypeOK, WorkInv, HandedOut, LiveWork, WorkIds
  <2>6. /\ Len(workQueue') = Len(workQueue) + 1 /\ Len(workQueue) \in Nat
        /\ workQueue'[Len(workQueue) + 1] = fwork
    BY <1>0, <2>1 DEF TypeOK
  <2>7. ASSUME NEW k \in 1..Len(workQueue') PROVE HandedOut(workQueue[k])'
    <3>1. CASE k \in 1..Len(workQueue)
      <4>1. HandedOut(workQueue[k])
        BY <1>0, <3>1 DEF WorkInv
      <4> QED
        BY <2>1, <2>2, <2>4, <2>5, <3>1, <4>1 DEF HandedOut, LiveWork
    <3>2. CASE k = Len(workQueue) + 1
      <4>1. workQueue'[k] = fwork
        BY <2>6, <3>2
      <4> QED
        BY <2>1, <2>2, <2>4, <4>1 DEF HandedOut, LiveWork
    <3> QED
      BY <2>6, <3>1, <3>2
  <2>8. ASSUME NEW t \in Backends, bpc'[t] = "compute" PROVE HandedOut(bwork[t])'
    <3>1. HandedOut(bwork[t]) /\ bwork'[t] = bwork[t]
      BY <1>0, <2>1, <2>3, <2>8 DEF WorkInv
    <3>2. bwork[t].i \in Nat
      BY <3>1 DEF HandedOut, LiveWork, WorkIds
    <3> QED
      BY <2>1, <2>2, <2>4, <3>1, <3>2 DEF HandedOut, LiveWork
  <2> QED
    BY <2>1, <2>7, <2>8 DEF WorkInv
<1>7. ASSUME NEW t \in Backends, BackDequeue(t) PROVE WorkInv'
  <2>1. /\ workQueue # <<>> /\ workQueue' = Tail(workQueue)
        /\ bwork' = [bwork EXCEPT ![t] = Head(workQueue)]
        /\ bpc' = [bpc EXCEPT ![t] = "compute"]
        /\ UNCHANGED <<freq, fi, fpc, fwork, freed, done>>
    BY <1>7 DEF BackDequeue, countVars, frontVars
  <2>2. (InLoop' <=> InLoop) /\ \A r : Prepared(r)' <=> Prepared(r)
    BY <2>1 DEF InLoop, Prepared
  <2>3. /\ Head(workQueue) = workQueue[1] /\ 1 \in 1..Len(workQueue)
        /\ Len(workQueue') = Len(workQueue) - 1 /\ Len(workQueue) \in Nat
        /\ \A k \in 1..Len(workQueue') : workQueue'[k] = workQueue[k + 1]
    BY <1>0, <2>1 DEF TypeOK
  <2>4. ASSUME NEW k \in 1..Len(workQueue') PROVE HandedOut(workQueue[k])'
    <3>1. HandedOut(workQueue[k + 1])
      <4>1. k + 1 \in 1..Len(workQueue)
        BY <2>3
      <4> QED
        BY <1>0, <4>1 DEF WorkInv
    <3> QED
      BY <2>1, <2>2, <2>3, <3>1 DEF HandedOut, LiveWork
  <2>5. ASSUME NEW u \in Backends, bpc'[u] = "compute" PROVE HandedOut(bwork[u])'
    <3>1. CASE u = t
      <4>1. bwork'[u] = workQueue[1] /\ HandedOut(workQueue[1])
        BY <1>0, <2>1, <2>3, <3>1 DEF TypeOK, WorkInv
      <4> QED
        BY <2>1, <2>2, <4>1 DEF HandedOut, LiveWork
    <3>2. CASE u # t
      <4>1. bwork'[u] = bwork[u] /\ HandedOut(bwork[u])
        BY <1>0, <2>1, <2>5, <3>2 DEF TypeOK, WorkInv
      <4> QED
        BY <2>1, <2>2, <4>1 DEF HandedOut, LiveWork
    <3> QED
      BY <3>1, <3>2
  <2>6. fpc' = "enqueue" => LiveWork(fwork)' /\ fwork'.req = freq' /\ fwork'.i = fi'
    BY <1>0, <2>1, <2>2 DEF WorkInv, LiveWork
  <2> QED
    BY <2>4, <2>5, <2>6 DEF WorkInv
<1>8. ASSUME NEW t \in Backends, FinishWork(t) PROVE WorkInv'
  <2> DEFINE q == bwork[t].req
             j == bwork[t].i
  <2>1. /\ bwork' = [bwork EXCEPT ![t] = NoWork] /\ bpc' = [bpc EXCEPT ![t] = "check"]
        /\ UNCHANGED <<workQueue, freq, fi, fpc, fwork>> /\ bpc[t] = "compute"
    BY <1>8 DEF FinishWork, EndWork, WorkDone, queueVars, frontVars
  <2>2. (InLoop' <=> InLoop) /\ \A r : Prepared(r)' <=> Prepared(r)
    BY <2>1 DEF InLoop, Prepared
  <2>3. /\ q \in Requests /\ j \in WorkIds(q)
        /\ done' = [done EXCEPT ![q] = @ \cup {j}]
        /\ freed' = IF LastWork(t) THEN freed \cup {q} ELSE freed
        /\ LastWork(t) <=> done'[q] = WorkIds(q)
        /\ HandedOut(bwork[t])
    BY <1>8, FinishFacts
  <2> HIDE DEF q, j
  <2>4. ASSUME NEW w, LiveWork(w), ~(w.req = q /\ w.i = j)
        PROVE  w.req \notin freed' /\ w.i \notin done'[w.req]
    <3>1. w.req \in Requests /\ w.i \notin done[w.req] /\ w.i \in WorkIds(w.req)
          /\ w.req \notin freed
      BY <2>4 DEF LiveWork
    <3>2. w.i \notin done'[w.req]
      BY <1>0, <2>3, <2>4, <3>1 DEF TypeOK
    <3> QED
      BY <2>3, <3>1, <3>2
  <2>5. ASSUME NEW k \in 1..Len(workQueue') PROVE HandedOut(workQueue[k])'
    <3>1. HandedOut(workQueue[k]) /\ workQueue'[k] = workQueue[k]
          /\ ~(workQueue[k].req = q /\ workQueue[k].i = j)
      BY <1>0, <2>1, <2>5 DEF WorkInv, UniqueInv, SameWork, q, j
    <3>2. workQueue[k].req \notin freed' /\ workQueue[k].i \notin done'[workQueue[k].req]
      BY <2>4, <3>1 DEF HandedOut
    <3> QED
      BY <2>1, <2>2, <3>1, <3>2 DEF HandedOut, LiveWork
  <2>6. ASSUME NEW u \in Backends, bpc'[u] = "compute" PROVE HandedOut(bwork[u])'
    <3>1. u # t /\ bpc[u] = "compute" /\ bwork'[u] = bwork[u]
      BY <1>0, <2>1, <2>6 DEF TypeOK
    <3>2. HandedOut(bwork[u]) /\ ~(bwork[u].req = q /\ bwork[u].i = j)
      BY <1>0, <2>1, <3>1 DEF WorkInv, UniqueInv, SameWork, q, j
    <3>3. bwork[u].req \notin freed' /\ bwork[u].i \notin done'[bwork[u].req]
      BY <2>4, <3>2 DEF HandedOut
    <3> QED
      BY <2>1, <2>2, <3>1, <3>2, <3>3 DEF HandedOut, LiveWork
  <2>7. ASSUME fpc' = "enqueue"
        PROVE  LiveWork(fwork)' /\ fwork'.req = freq' /\ fwork'.i = fi'
    <3>1. LiveWork(fwork) /\ fwork.req = freq /\ fwork.i = fi /\ fi \in Nat
      BY <1>0, <2>1, <2>7 DEF WorkInv, TypeOK
    <3>2. ~(fwork.req = q /\ fwork.i = j)
      BY <2>1, <2>3, <2>7, <3>1 DEF HandedOut, InLoop, q, j
    <3>3. fwork.req \notin freed' /\ fwork.i \notin done'[fwork.req]
      BY <2>4, <3>1, <3>2
    <3> QED
      BY <2>1, <2>2, <3>1, <3>3 DEF LiveWork
  <2> QED
    BY <2>5, <2>6, <2>7 DEF WorkInv
<1> QED
  BY <1>1, <1>2, <1>3, <1>4, <1>5, <1>6, <1>7, <1>8, FrontCases, WorkCases

LEMMA UniqueStep == IInv /\ [Next]_vars => UniqueInv'
<1> SUFFICES ASSUME IInv, [Next]_vars PROVE UniqueInv'
  OBVIOUS
<1>0. TypeOK /\ WorkInv /\ UniqueInv
  BY DEF IInv
<1>1. CASE WorkQuiet
  BY <1>0, <1>1 DEF UniqueInv, SameWork, WorkQuiet
<1>2. CASE EnqueueWork
  <2>1. /\ fpc = "enqueue" /\ workQueue' = Append(workQueue, fwork)
        /\ bwork' = bwork
    BY <1>2 DEF EnqueueWork, EnqueueWorkThen
  <2>2. \A t \in Backends : bpc'[t] = "compute" <=> bpc[t] = "compute"
    BY <1>2 DEF EnqueueWork, EnqueueWorkThen, WakeBackends
  <2>3. /\ Len(workQueue') = Len(workQueue) + 1 /\ Len(workQueue) \in Nat
        /\ workQueue'[Len(workQueue) + 1] = fwork
        /\ \A k \in 1..Len(workQueue) : workQueue'[k] = workQueue[k]
    BY <1>0, <2>1 DEF TypeOK
  <2>4. InLoop /\ fwork.req = freq /\ fwork.i = fi /\ fi \in Nat
    BY <1>0, <2>1 DEF WorkInv, InLoop, TypeOK
  <2>5. ASSUME NEW w, HandedOut(w) PROVE ~SameWork(w, fwork) /\ ~SameWork(fwork, w)
    BY <2>4, <2>5 DEF HandedOut, SameWork
  <2>6. \A k \in 1..Len(workQueue) :
           ~SameWork(workQueue[k], fwork) /\ ~SameWork(fwork, workQueue[k])
    BY <1>0, <2>5 DEF WorkInv
  <2>7. \A t \in Backends : bpc[t] = "compute" => ~SameWork(fwork, bwork[t])
    BY <1>0, <2>5 DEF WorkInv
  <2>8. ASSUME NEW k \in 1..Len(workQueue'), NEW l \in 1..Len(workQueue'), k # l
        PROVE  ~SameWork(workQueue'[k], workQueue'[l])
    <3>1. CASE k \in 1..Len(workQueue) /\ l \in 1..Len(workQueue)
      BY <1>0, <2>3, <2>8, <3>1 DEF UniqueInv
    <3>2. CASE k = Len(workQueue) + 1 /\ l \in 1..Len(workQueue)
      BY <2>3, <2>6, <3>2
    <3>3. CASE l = Len(workQueue) + 1 /\ k \in 1..Len(workQueue)
      BY <2>3, <2>6, <3>3
    <3> QED
      BY <2>3, <2>8, <3>1, <3>2, <3>3
  <2>9. ASSUME NEW k \in 1..Len(workQueue'), NEW t \in Backends, bpc'[t] = "compute"
        PROVE  ~SameWork(workQueue'[k], bwork'[t])
    <3>1. CASE k \in 1..Len(workQueue)
      BY <1>0, <2>1, <2>2, <2>3, <2>9, <3>1 DEF UniqueInv
    <3>2. CASE k = Len(workQueue) + 1
      BY <2>1, <2>2, <2>3, <2>7, <2>9, <3>2
    <3> QED
      BY <2>3, <2>9, <3>1, <3>2
  <2> QED
    BY <1>0, <2>1, <2>2, <2>8, <2>9 DEF UniqueInv, SameWork
<1>3. ASSUME NEW t \in Backends, BackDequeue(t) PROVE UniqueInv'
  <2>1. /\ workQueue # <<>> /\ workQueue' = Tail(workQueue)
        /\ bwork' = [bwork EXCEPT ![t] = Head(workQueue)]
        /\ bpc' = [bpc EXCEPT ![t] = "compute"] /\ bpc[t] # "compute"
    BY <1>3 DEF BackDequeue
  <2>2. /\ Head(workQueue) = workQueue[1] /\ 1 \in 1..Len(workQueue)
        /\ Len(workQueue') = Len(workQueue) - 1 /\ Len(workQueue) \in Nat
        /\ \A k \in 1..Len(workQueue') : workQueue'[k] = workQueue[k + 1]
    BY <1>0, <2>1 DEF TypeOK
  <2>3. \A u \in Backends :
           /\ u # t /\ bpc'[u] = "compute" => bpc[u] = "compute" /\ bwork'[u] = bwork[u]
           /\ u = t => bwork'[u] = workQueue[1]
    BY <1>0, <2>1, <2>2 DEF TypeOK
  <2>4. ASSUME NEW k \in 1..Len(workQueue'), NEW l \in 1..Len(workQueue'), k # l
        PROVE  ~SameWork(workQueue'[k], workQueue'[l])
    <3>1. k + 1 \in 1..Len(workQueue) /\ l + 1 \in 1..Len(workQueue) /\ k + 1 # l + 1
      BY <2>2, <2>4
    <3> QED
      BY <1>0, <2>2, <3>1 DEF UniqueInv
  <2>5. ASSUME NEW u \in Backends, NEW v \in Backends, u # v,
               bpc'[u] = "compute", bpc'[v] = "compute"
        PROVE  ~SameWork(bwork'[u], bwork'[v])
    BY <1>0, <2>2, <2>3, <2>5 DEF UniqueInv, SameWork
  <2>6. ASSUME NEW k \in 1..Len(workQueue'), NEW u \in Backends, bpc'[u] = "compute"
        PROVE  ~SameWork(workQueue'[k], bwork'[u])
    <3>1. k + 1 \in 1..Len(workQueue) /\ k + 1 # 1 /\ workQueue'[k] = workQueue[k + 1]
      BY <2>2, <2>6
    <3>2. CASE u = t
      BY <1>0, <2>2, <2>3, <3>1, <3>2 DEF UniqueInv
    <3>3. CASE u # t
      BY <1>0, <2>3, <2>6, <3>1, <3>3 DEF UniqueInv
    <3> QED
      BY <3>2, <3>3
  <2> QED
    BY <2>4, <2>5, <2>6 DEF UniqueInv, SameWork
<1>4. ASSUME NEW t \in Backends, FinishWork(t) PROVE UniqueInv'
  <2>1. /\ bwork' = [bwork EXCEPT ![t] = NoWork] /\ bpc' = [bpc EXCEPT ![t] = "check"]
        /\ workQueue' = workQueue
    BY <1>4 DEF FinishWork, EndWork, queueVars
  <2>2. \A u \in Backends :
           bpc'[u] = "compute" => bpc[u] = "compute" /\ bwork'[u] = bwork[u]
    BY <1>0, <2>1 DEF TypeOK
  <2> QED
    BY <1>0, <2>1, <2>2 DEF UniqueInv, SameWork
<1> QED
  BY <1>1, <1>2, <1>3, <1>4, WorkCases

-----------------------------------------------------------------------------
(* The counters.                                                           *)

LEMMA CountStep == IInv /\ [Next]_vars => CountInv'
<1> SUFFICES ASSUME IInv, [Next]_vars PROVE CountInv'
  OBVIOUS
<1> USE PoolAssumption
<1>0. TypeOK /\ MainInv /\ RequestInv /\ CountInv
  BY DEF IInv
<1>1. CASE CountRequest
  <2>1. mreq' = mreq + 1 /\ active' = active + 1
        /\ UNCHANGED <<remaining, freed, done, freq, fi, fpc>>
    BY <1>1 DEF CountRequest, frontVars
  <2>2. (InLoop' <=> InLoop) /\ \A r : Prepared(r)' <=> Prepared(r)
    BY <2>1 DEF InLoop, Prepared
  <2>3. active' = Cardinality((1..mreq') \ freed')
    <3> DEFINE S == (1..mreq) \ freed
    <3>1. mreq \in Nat /\ freq \in Nat /\ freq <= mreq
      BY <1>0 DEF TypeOK, RequestInv, Enqueued
    <3>2. mreq + 1 \notin freed
      BY <1>0, <3>1 DEF CountInv, Prepared
    <3>3. (1..mreq') \ freed' = S \cup {mreq + 1} /\ mreq + 1 \notin S
      BY <2>1, <3>1, <3>2
    <3>4. IsFiniteSet(S) /\ active = Cardinality(S)
      BY <1>0, ActiveFacts DEF CountInv
    <3> HIDE DEF S
    <3>5. Cardinality(S \cup {mreq + 1}) = Cardinality(S) + 1
      BY <3>3, <3>4, FS_AddElement
    <3> QED
      BY <2>1, <3>3, <3>4, <3>5
  <2> QED
    BY <1>0, <2>1, <2>2, <2>3 DEF CountInv, WorkIds
<1>2. ASSUME NEW t \in Backends, FinishWork(t) PROVE CountInv'
  <2> DEFINE q == bwork[t].req
             j == bwork[t].i
  <2>1. /\ q \in Requests /\ q \notin freed /\ Prepared(q)
        /\ j \in WorkIds(q) /\ HandedOut(bwork[t])
        /\ done' = [done EXCEPT ![q] = @ \cup {j}]
        /\ freed' = IF LastWork(t) THEN freed \cup {q} ELSE freed
        /\ remaining' = [remaining EXCEPT ![q] = @ - 1]
        /\ remaining'[q] = Cardinality(WorkIds(q) \ done'[q])
        /\ LastWork(t) <=> done'[q] = WorkIds(q)
        /\ LastWork(t) <=> remaining'[q] = 0
    BY <1>2, FinishFacts
  <2>2. UNCHANGED <<mreq, freq, fi, fpc>>
        /\ active' = IF LastWork(t) THEN active - 1 ELSE active
    BY <1>2 DEF FinishWork, EndWork, frontVars
  <2>3. (InLoop' <=> InLoop) /\ \A r : Prepared(r)' <=> Prepared(r)
    BY <2>2 DEF InLoop, Prepared
  <2>4. TypeOK'
    BY TypeStep
  <2>5. q \in 1..mreq /\ (q = freq /\ InLoop => j < fi)
    BY <2>1, LiveIsActive DEF HandedOut
  <2> HIDE DEF q, j
  <2>6. active' = Cardinality((1..mreq') \ freed')
    <3> DEFINE S == (1..mreq) \ freed
    <3>1. IsFiniteSet(S) /\ active = Cardinality(S)
      BY <1>0, ActiveFacts DEF CountInv
    <3>2. q \in S /\ (1..mreq) \ (freed \cup {q}) = S \ {q}
      BY <2>1, <2>5
    <3> HIDE DEF S
    <3>3. Cardinality(S \ {q}) = Cardinality(S) - 1
      BY <3>1, <3>2, FS_RemoveElement
    <3>4. (1..mreq') \ freed' = IF LastWork(t) THEN S \ {q} ELSE S
      BY <2>1, <2>2, <3>2 DEF S
    <3> QED
      BY <2>2, <3>1, <3>3, <3>4
  <2>7. \A r \in Requests : r # q => done'[r] = done[r] /\ remaining'[r] = remaining[r]
    BY <1>0, <2>1 DEF TypeOK
  <2>8. done'[q] = done[q] \cup {j}
    BY <1>0, <2>1 DEF TypeOK
  <2>9. \A r \in freed' : Prepared(r)' /\ done'[r] = WorkIds(r)
    <3>1. \A r \in freed : r \in Requests /\ r # q
      BY <1>0, <2>1 DEF TypeOK
    <3> QED
      BY <1>0, <2>1, <2>3, <2>7, <3>1 DEF CountInv
  <2>10. ASSUME NEW r \in Requests
         PROVE  /\ done'[r] \subseteq WorkIds(r)
                /\ ~Prepared(r)' => done'[r] = {}
                /\ r = freq' /\ InLoop' => \A i \in done'[r] : i < fi'
                /\ Prepared(r)' => remaining'[r] = Cardinality(WorkIds(r) \ done'[r])
                /\ Prepared(r)' /\ r \notin freed' => remaining'[r] > 0
    <3>1. CASE r # q
      BY <1>0, <2>1, <2>2, <2>3, <2>7, <3>1 DEF CountInv
    <3>2. CASE r = q
      <4>1. remaining'[r] \in Nat
        BY <2>4 DEF TypeOK
      <4>2. ASSUME r \notin freed' PROVE remaining'[r] > 0
        <5>1. ~LastWork(t)
          BY <2>1, <3>2, <4>2
        <5>2. remaining'[r] # 0
          BY <2>1, <3>2, <5>1
        <5> QED
          BY <4>1, <5>2
      <4> QED
        BY <1>0, <2>1, <2>2, <2>3, <2>5, <2>8, <3>2, <4>2 DEF CountInv
    <3> QED
      BY <3>1, <3>2
  <2> QED
    BY <2>6, <2>9, <2>10 DEF CountInv, WorkIds
<1>3. CASE Prepare
  <2>1. UNCHANGED <<mreq, active, freed, done>> /\ fi' = 0
        /\ remaining' = [remaining EXCEPT ![freq] = NumWorks[freq]]
    BY <1>3 DEF Prepare, PrepareFor, mainVars
  <2>2. /\ freq' = freq /\ freq \in Requests /\ ~InLoop /\ InLoop' /\ ~Prepared(freq)
        /\ \A r \in Requests : Prepared(r)' <=> Prepared(r) \/ r = freq
    BY <1>3, PrepareSame
  <2>3. /\ remaining'[freq] = NumWorks[freq] /\ NumWorks[freq] \in Nat \ {0}
        /\ \A r \in Requests : r # freq => remaining'[r] = remaining[r]
    BY <1>0, <2>1, <2>2 DEF TypeOK
  <2>4. done[freq] = {} /\ WorkIds(freq) \ done[freq] = WorkIds(freq)
    BY <1>0, <2>2 DEF CountInv
  <2>5. Cardinality(WorkIds(freq)) = NumWorks[freq]
    <3> DEFINE n == NumWorks[freq]
    <3>1. n \in Nat \ {0}
      BY <2>3
    <3> HIDE DEF n
    <3>2. 0 \in Int /\ n - 1 \in Int
      BY <3>1
    <3>3. Cardinality(0..n-1) = IF 0 > n - 1 THEN 0 ELSE (n - 1) - 0 + 1
      BY ONLY <3>2, FS_Interval
    <3>4. Cardinality(0..n-1) = n
      BY <3>1, <3>3
    <3> QED
      BY <3>4 DEF WorkIds, n
  <2>6. \A r \in freed : r \in Requests
    BY <1>0 DEF TypeOK
  <2>7. ASSUME NEW r \in Requests
        PROVE  /\ done[r] \subseteq WorkIds(r)
               /\ ~Prepared(r)' => done[r] = {}
               /\ r = freq /\ InLoop' => \A i \in done[r] : i < 0
               /\ Prepared(r)' => remaining'[r] = Cardinality(WorkIds(r) \ done[r])
               /\ Prepared(r)' /\ r \notin freed => remaining'[r] > 0
    <3>1. CASE r = freq
      BY <2>2, <2>3, <2>4, <2>5, <3>1
    <3>2. CASE r # freq
      BY <1>0, <2>2, <2>3, <3>2 DEF CountInv
    <3> QED
      BY <3>1, <3>2
  <2> QED
    BY <1>0, <2>1, <2>2, <2>6, <2>7 DEF CountInv, WorkIds
<1>4. CASE FrontDequeue
  <2>1. UNCHANGED <<mreq, active, freed, done, remaining>>
    BY <1>4 DEF FrontDequeue, mainVars, countVars
  <2>2. \A r \in freed : r \in Requests
    BY <1>0 DEF TypeOK
  <2> QED
    BY <1>0, <1>4, <2>1, <2>2, DequeueSame DEF CountInv, WorkIds
<1>5. CASE CreateWork \/ EnqueueWork \/ LeaveLoop
  <2>1. UNCHANGED <<mreq, active, freed, done, remaining, freq>> /\ fi' \in {fi, fi + 1}
        /\ fpc \in {"split", "enqueue"} /\ fpc' \in {"split", "enqueue", "check"}
    BY <1>5 DEF CreateWork, EnqueueWork, EnqueueWorkThen, LeaveLoop, mainVars, countVars
  <2>2. InLoop /\ \A r : Prepared(r)' <=> Prepared(r)
    BY <2>1 DEF InLoop, Prepared
  <2>3. \A r \in Requests : \A i \in done[r] : i \in Nat
    BY <1>0 DEF TypeOK
  <2>4. fi \in Nat /\ \A i \in Nat : i < fi => i < fi'
    BY <1>0, <2>1 DEF TypeOK
  <2> QED
    BY <1>0, <2>1, <2>2, <2>3, <2>4 DEF CountInv, WorkIds
<1>6. CASE FrontQuiet /\ UNCHANGED <<mreq, active, freed, done, remaining>>
  <2>1. UNCHANGED <<freq, fi>>
    BY <1>6 DEF FrontQuiet
  <2> QED
    BY <1>0, <1>6, <2>1, QuietSame DEF CountInv, WorkIds
<1>7. CASE UNCHANGED <<mreq, active, freed, done, remaining>>
  BY <1>3, <1>4, <1>5, <1>6, <1>7, FrontCases
<1>8. \/ CountRequest \/ \E t \in Backends : FinishWork(t)
      \/ Prepare
      \/ UNCHANGED <<mreq, active, freed, done, remaining>>
  BY NextCases DEF EnqueueRequest, TestActive, TestActiveAgainst, TestWorkQueue,
      TestRequestQueue, PrintResults, FreeMatrices, StopRequests, StopWorks,
      StopWorksTelling, JoinAll, FrontCheck, FrontWait, FrontDequeueNothing, FrontDequeue,
      CreateWork, EnqueueWork, EnqueueWorkThen, LeaveLoop, BackCheck, BackWait,
      BackDequeueNothing, BackDequeue, ComputeEntry, SpuriousWakeup, vars, mainVars, countVars
<1> QED
  BY <1>1, <1>2, <1>3, <1>7, <1>8

-----------------------------------------------------------------------------
(* The results.                                                            *)

(* Computing an entry makes it right and spoils none.                      *)
LEMMA ComputeIsRight ==
    ASSUME IInv, NEW t \in Backends, ComputeEntry(t)
    PROVE  /\ bwork[t].req \in Requests /\ bidx[t] \in Entries
           /\ c'[bwork[t].req][bidx[t]] = Product(bwork[t].req, bidx[t])
           /\ \A r \in Requests : \A idx \in Entries :
                 c[r][idx] = Product(r, idx) => c'[r][idx] = Product(r, idx)
<1> USE PoolAssumption
<1> DEFINE q == bwork[t].req
           x == bidx[t]
<1>1. TypeOK /\ ResultInv /\ bpc[t] = "compute" /\ HandedOut(bwork[t])
  BY DEF IInv, WorkInv, ComputeEntry
<1>2. /\ x <= bwork[t].end
      /\ c' = [c EXCEPT ![q][x] =
                  Calculation(N, a[q][RowOf(N, x)], bt[q][ColOf(N, x)])]
  BY DEF ComputeEntry
<1>3. q \in Requests /\ Prepared(q) /\ bwork[t].end < TotalEntries(N)
  BY <1>1 DEF HandedOut, LiveWork
<1>4. x \in Entries
  <2>1. x \in Nat /\ bwork[t].end \in Int
    BY <1>1 DEF TypeOK, Work
  <2> QED
    BY <1>2, <1>3, <2>1, EntriesType DEF Entries
<1>5. bt[q] = Transposed(N, b[q])
  BY <1>1, <1>3 DEF ResultInv
<1>6. ColOf(N, x) \in 0..N-1
  <2>1. x \in Int
    BY <1>4, EntriesType DEF Entries
  <2> QED
    BY <2>1 DEF ColOf
<1>7. bt[q][ColOf(N, x)] = [k \in 0..N-1 |-> b[q][k][ColOf(N, x)]]
  BY <1>5, <1>6 DEF Transposed
<1> HIDE DEF q, x
<1>8. c' = [c EXCEPT ![q][x] = Product(q, x)]
  BY <1>2, <1>7 DEF Product
<1>9. c = [r \in Requests |-> [idx \in Entries |-> c[r][idx]]]
  BY <1>1 DEF TypeOK
<1>10. c'[q][x] = Product(q, x)
  BY <1>3, <1>4, <1>8, <1>9
<1>11. \A r \in Requests : \A idx \in Entries : ~(r = q /\ idx = x) => c'[r][idx] = c[r][idx]
  BY <1>3, <1>4, <1>8, <1>9
<1> QED
  BY <1>3, <1>4, <1>10, <1>11 DEF q, x

LEMMA ResultStep == IInv /\ [Next]_vars => ResultInv'
<1> SUFFICES ASSUME IInv, [Next]_vars PROVE ResultInv'
  OBVIOUS
<1> USE PoolAssumption
<1>0. TypeOK /\ WorkInv /\ CountInv /\ ResultInv
  BY DEF IInv
<1> DEFINE Quiet == UNCHANGED <<bt, c, bwork, bidx, done>>
                    /\ \A t \in Backends : bpc'[t] = "compute" <=> bpc[t] = "compute"
           Same == \A r \in Requests : Prepared(r)' <=> Prepared(r)
<1>1. CASE Quiet /\ Same
  BY <1>0, <1>1 DEF ResultInv, Product, Slice
<1>2. CASE Prepare
  <2>1. bt' = [bt EXCEPT ![freq] = Transposed(N, b[freq])]
        /\ UNCHANGED <<c, bwork, bidx, done, bpc>>
    BY <1>2 DEF Prepare, PrepareFor, backVars
  <2>2. \A r \in Requests : bt'[r] = IF r = freq THEN Transposed(N, b[freq]) ELSE bt[r]
    <3>1. bt = [r \in Requests |-> bt[r]]
      BY <1>0 DEF TypeOK
    <3> QED
      BY <2>1, <3>1
  <2> QED
    BY <1>0, <1>2, <2>1, <2>2, PrepareSame DEF ResultInv, Product, Slice
<1>3. ASSUME NEW t \in Backends, ComputeEntry(t) PROVE ResultInv'
  <2>1. /\ bidx' = [bidx EXCEPT ![t] = bidx[t] + 1] /\ bpc[t] = "compute"
        /\ UNCHANGED <<bt, bwork, bpc, done, freq, fpc>>
    BY <1>3 DEF ComputeEntry, frontVars, countVars
  <2>2. \A r : Prepared(r)' <=> Prepared(r)
    BY <2>1 DEF Prepared
  <2>3. /\ bidx[t] \in Entries /\ bidx[t] \in Nat
        /\ c'[bwork[t].req][bidx[t]] = Product(bwork[t].req, bidx[t])
        /\ \A r \in Requests : \A idx \in Entries :
              c[r][idx] = Product(r, idx) => c'[r][idx] = Product(r, idx)
    BY <1>0, <1>3, ComputeIsRight DEF TypeOK
  <2>4. ASSUME NEW u \in Backends, bpc[u] = "compute"
        PROVE  /\ bidx'[u] >= bwork[u].start
               /\ \A idx \in Entries : bwork[u].start <= idx /\ idx < bidx'[u] =>
                     c'[bwork[u].req][idx] = Product(bwork[u].req, idx)
    <3>1. /\ bidx[u] >= bwork[u].start
          /\ \A idx \in Entries : bwork[u].start <= idx /\ idx < bidx[u] =>
                c[bwork[u].req][idx] = Product(bwork[u].req, idx)
      BY <1>0, <2>4 DEF ResultInv
    <3>2. bwork[u].req \in Requests
      BY <1>0, <2>4 DEF WorkInv, HandedOut, LiveWork
    <3>3. \A idx \in Entries : bwork[u].start <= idx /\ idx < bidx[u] =>
             c'[bwork[u].req][idx] = Product(bwork[u].req, idx)
      BY <2>3, <3>1, <3>2
    <3>4. CASE u # t
      <4>1. bidx'[u] = bidx[u]
        BY <1>0, <2>1, <3>4 DEF TypeOK
      <4> QED
        BY <3>1, <3>3, <4>1
    <3>5. CASE u = t
      <4>1. bidx'[u] = bidx[u] + 1
        BY <1>0, <2>1, <3>5 DEF TypeOK
      <4>2. bwork[u].start \in Nat
        BY <1>0 DEF TypeOK, Work
      <4>3. \A idx \in Entries : idx \in Nat
        BY EntriesType DEF Entries
      <4>4. \A idx \in Entries : idx < bidx'[u] => idx < bidx[u] \/ idx = bidx[t]
        BY <2>3, <3>5, <4>1, <4>3
      <4>5. bidx'[u] >= bwork[u].start
        BY <2>3, <3>1, <3>5, <4>1, <4>2
      <4> QED
        BY <2>3, <3>3, <3>5, <4>4, <4>5
    <3> QED
      BY <3>4, <3>5
  <2>5. \A r \in Requests : \A i \in done[r] : \A idx \in Slice(r, i) :
           idx \in Entries => c'[r][idx] = Product(r, idx)
    BY <1>0, <2>3 DEF ResultInv
  <2>6. \A r \in Requests : Prepared(r)' => bt'[r] = Transposed(N, b[r])
    BY <1>0, <2>1, <2>2 DEF ResultInv
  <2> QED
    BY <2>1, <2>4, <2>5, <2>6 DEF ResultInv, Product, Slice
<1>4. ASSUME NEW t \in Backends, BackDequeue(t) PROVE ResultInv'
  <2>1. /\ workQueue # <<>>
        /\ bwork' = [bwork EXCEPT ![t] = Head(workQueue)]
        /\ bidx' = [bidx EXCEPT ![t] = Head(workQueue).start]
        /\ bpc' = [bpc EXCEPT ![t] = "compute"]
        /\ UNCHANGED <<bt, c, done, freq, fpc>>
    BY <1>4 DEF BackDequeue, frontVars, countVars
  <2>2. \A r : Prepared(r)' <=> Prepared(r)
    BY <2>1 DEF Prepared
  <2>3. ASSUME NEW u \in Backends, bpc'[u] = "compute"
        PROVE  /\ bidx'[u] >= bwork'[u].start
               /\ \A idx \in Entries : bwork'[u].start <= idx /\ idx < bidx'[u] =>
                     c[bwork'[u].req][idx] = Product(bwork'[u].req, idx)
    <3>1. CASE u # t
      <4>1. bpc[u] = "compute" /\ bwork'[u] = bwork[u] /\ bidx'[u] = bidx[u]
        BY <1>0, <2>1, <2>3, <3>1 DEF TypeOK
      <4> QED
        BY <1>0, <4>1 DEF ResultInv
    <3>2. CASE u = t
      <4>1. bwork'[u] = Head(workQueue) /\ bidx'[u] = Head(workQueue).start
        BY <1>0, <2>1, <3>2 DEF TypeOK
      <4>2. Head(workQueue).start \in Nat
        <5>1. Head(workQueue) \in Work
          BY <1>0, <2>1 DEF TypeOK
        <5> QED
          BY <5>1 DEF Work
      <4>3. \A idx \in Entries : idx \in Nat
        BY EntriesType DEF Entries
      <4> QED
        BY <4>1, <4>2, <4>3
    <3> QED
      BY <3>1, <3>2
  <2> QED
    BY <1>0, <2>1, <2>2, <2>3 DEF ResultInv, Product, Slice
<1>5. ASSUME NEW t \in Backends, FinishWork(t) PROVE ResultInv'
  <2> DEFINE q == bwork[t].req
             j == bwork[t].i
  <2>1. /\ bwork' = [bwork EXCEPT ![t] = NoWork] /\ bidx' = [bidx EXCEPT ![t] = 0]
        /\ bpc' = [bpc EXCEPT ![t] = "check"]
        /\ bpc[t] = "compute" /\ bidx[t] > bwork[t].end
        /\ UNCHANGED <<bt, c, freq, fpc>>
    BY <1>5 DEF FinishWork, EndWork, WorkDone, frontVars
  <2>2. \A r : Prepared(r)' <=> Prepared(r)
    BY <2>1 DEF Prepared
  <2>3. q \in Requests /\ done' = [done EXCEPT ![q] = @ \cup {j}] /\ HandedOut(bwork[t])
    BY <1>5, FinishFacts
  <2>4. ASSUME NEW idx \in Slice(q, j), idx \in Entries PROVE c[q][idx] = Product(q, idx)
    <3>1. bwork[t].start = Start(NumWorks[q], j) /\ bwork[t].end = Start(NumWorks[q], j + 1) - 1
      BY <2>3 DEF HandedOut, LiveWork
    <3>2. bwork[t].start \in Int /\ bwork[t].end \in Int /\ bidx[t] \in Int
      <4>1. bwork[t] \in Work /\ bidx[t] \in Nat
        BY <1>0 DEF TypeOK
      <4> QED
        BY <4>1 DEF Work
    <3>3. idx \in bwork[t].start .. bwork[t].end
      BY <2>4, <3>1 DEF Slice
    <3>4. bwork[t].start <= idx /\ idx < bidx[t]
      BY <2>1, <3>2, <3>3
    <3> QED
      BY <1>0, <2>1, <2>4, <3>4 DEF ResultInv
  <2>5. \A r \in Requests : \A i \in done'[r] : i \in done[r] \/ (r = q /\ i = j)
    BY <1>0, <2>3 DEF TypeOK
  <2>6. \A u \in Backends : bpc'[u] = "compute" =>
           bpc[u] = "compute" /\ bwork'[u] = bwork[u] /\ bidx'[u] = bidx[u]
    BY <1>0, <2>1 DEF TypeOK
  <2> HIDE DEF q, j
  <2>7. \A r \in Requests : \A i \in done'[r] : \A idx \in Slice(r, i) :
           idx \in Entries => c[r][idx] = Product(r, idx)
    BY <1>0, <2>4, <2>5 DEF ResultInv
  <2> QED
    BY <1>0, <2>1, <2>2, <2>6, <2>7, SMTT(30) DEF ResultInv, Product, Slice
<1>6. \/ Quiet \/ Prepare
      \/ \E t \in Backends : ComputeEntry(t) \/ BackDequeue(t) \/ FinishWork(t)
  <2> USE DEF mainVars, queueVars, frontVars, backVars, countVars
  <2>1. bpc = [t \in Backends |-> bpc[t]]
    BY <1>0 DEF TypeOK
  <2>2. CountRequest \/ EnqueueRequest \/ TestActive \/ TestWorkQueue \/ TestRequestQueue
        \/ PrintResults \/ FreeMatrices \/ StopRequests \/ JoinAll => Quiet
    BY DEF CountRequest, EnqueueRequest, TestActive, TestActiveAgainst, TestWorkQueue,
        TestRequestQueue, PrintResults, FreeMatrices, StopRequests, JoinAll
  <2>3. StopWorks \/ EnqueueWork => Quiet
    BY DEF StopWorks, StopWorksTelling, EnqueueWork, EnqueueWorkThen, WakeBackends
  <2>4. FrontCheck \/ FrontWait \/ FrontDequeueNothing \/ FrontDequeue \/ CreateWork
        \/ LeaveLoop \/ UNCHANGED vars => Quiet
    BY DEF FrontCheck, FrontWait, FrontDequeueNothing, FrontDequeue, CreateWork, LeaveLoop, vars
  <2>5. \A t \in Backends : BackCheck(t) \/ BackWait(t) \/ BackDequeueNothing(t) => Quiet
    BY <2>1 DEF BackCheck, BackWait, BackDequeueNothing
  <2>6. SpuriousWakeup => Quiet
    BY <2>1 DEF SpuriousWakeup
  <2> HIDE DEF Quiet
  <2> QED
    BY <2>2, <2>3, <2>4, <2>5, <2>6, NextCases
<1>7. Same \/ Prepare
  <2>1. FrontDequeue => Same
    BY DequeueSame
  <2>2. CreateWork \/ EnqueueWork \/ LeaveLoop => Same
    BY DEF CreateWork, EnqueueWork, EnqueueWorkThen, LeaveLoop, Prepared
  <2>3. FrontQuiet => Same
    BY QuietSame
  <2> HIDE DEF Same
  <2> QED
    BY <2>1, <2>2, <2>3, FrontCases
<1> QED
  BY <1>1, <1>2, <1>3, <1>4, <1>5, <1>6, <1>7

-----------------------------------------------------------------------------
(* The theorems.                                                           *)

THEOREM Invariance == Spec => []IInv
<1>1. IInv /\ [Next]_vars => IInv'
  BY TypeStep, MainStep, RequestStep, WaitStep, SplitStep, WorkStep, UniqueStep,
     CountStep, ResultStep DEF IInv
<1> QED
  BY <1>1, InitInvariant, PTL DEF Spec

(* Every variable keeps its type: no counter of main or of a request ever  *)
(* becomes negative, whatever the interleaving of the backends.            *)
THEOREM TypeCorrect == Spec => []TypeOK
BY Invariance, PTL DEF IInv

(* No thread sleeps through the event it waits for: neither main, nor the  *)
(* frontend, nor a backend.                                                *)
THEOREM NoWakeupIsLost == Spec => []NoLostWakeup
<1>1. IInv => NoLostWakeup
  BY DEF IInv, MainInv, WaitInv, NoLostWakeup
<1> QED
  BY <1>1, Invariance, PTL

(* A live work is what LiveWork says, wherever it is.                      *)
LEMMA LiveWorksAreLive ==
    ASSUME IInv, NEW w \in LiveWorks
    PROVE  LiveWork(w) /\ w \in Work
<1>1. TypeOK /\ WorkInv
  BY DEF IInv
<1>2. CASE w \in QueuedWorks
  BY <1>1, <1>2 DEF QueuedWorks, WorkInv, HandedOut, TypeOK
<1>3. CASE w \in RunningWorks
  BY <1>1, <1>3 DEF RunningWorks, WorkInv, HandedOut, TypeOK
<1>4. CASE w \in NewWorks
  BY <1>1, <1>4 DEF NewWorks, WorkInv, TypeOK
<1> QED
  BY <1>2, <1>3, <1>4 DEF LiveWorks

(* Past tpool_synchronize every request is counted and none is active.     *)
LEMMA SynchronizedIsRetired ==
    ASSUME IInv, Synchronized
    PROVE  mreq = T /\ active = 0 /\ mpc # "enqueue"
BY DEF IInv, MainInv, Synchronized

(* Once tpool_synchronize has returned nobody writes to a matrix any more. *)
THEOREM SynchronizeIsQuiet == Spec => []SynchronizedIsQuiet
<1>1. ASSUME IInv, Synchronized
      PROVE  LiveWorks = {} /\ Len(requestQueue) = 0 /\ fpc # "prepare"
  BY <1>1, SynchronizedIsRetired, AllRetired, LiveWorksAreLive
<1>2. IInv => SynchronizedIsQuiet
  BY <1>1 DEF SynchronizedIsQuiet
<1> QED
  BY <1>2, Invariance, PTL

(* Every entry of a request that has been freed is right.                  *)
LEMMA FreedIsComplete ==
    ASSUME IInv, NEW r \in freed, NEW idx \in Entries
    PROVE  c[r][idx] = Product(r, idx)
<1>1. TypeOK /\ SplitInv /\ CountInv /\ ResultInv
  BY DEF IInv
<1>2. r \in Requests /\ Prepared(r) /\ done[r] = WorkIds(r)
  BY <1>1 DEF TypeOK, CountInv
<1>3. \E i \in WorkIds(r) : idx \in Slice(r, i)
  <2>1. CASE r = freq /\ InLoop
    <3>1. fi = NumWorks[freq] /\ fstart = TotalEntries(N)
      BY <2>1, LoopEnd DEF LoopMayEnd
    <3>2. idx < fstart
      BY <3>1, EntriesType DEF Entries
    <3>3. \E i \in 0..fi-1 : idx \in Slice(freq, i)
      BY <1>1, <2>1, <3>2 DEF SplitInv
    <3> QED
      BY <2>1, <3>1, <3>3 DEF WorkIds
  <2>2. CASE ~(r = freq /\ InLoop)
    BY <1>1, <1>2, <2>2 DEF SplitInv
  <2> QED
    BY <2>1, <2>2
<1> QED
  BY <1>1, <1>2, <1>3 DEF ResultInv

(* Once tpool_synchronize has returned every result is complete and right. *)
THEOREM SynchronizeIsComplete == Spec => []SynchronizedIsComplete
<1>1. ASSUME IInv, Synchronized, NEW r \in Requests, NEW idx \in Entries
      PROVE  c[r][idx] = Product(r, idx)
  BY <1>1, SynchronizedIsRetired, AllRetired, FreedIsComplete
<1>2. IInv => SynchronizedIsComplete
  BY <1>1 DEF SynchronizedIsComplete
<1> QED
  BY <1>2, Invariance, PTL

(* A request is freed only when nobody will work on it any more; the stale *)
(* loop test of the frontend does no harm.                                 *)
THEOREM FreedIsUnused == Spec => []NoWorkOfFreedRequest
<1>1. ASSUME IInv, NEW w \in LiveWorks PROVE w.req \notin freed
  BY <1>1, LiveWorksAreLive DEF LiveWork
<1>2. ASSUME IInv, freq \in freed
      PROVE  fpc # "prepare" /\ (fpc = "split" => fstart >= TotalEntries(N))
  <2>1. fpc # "prepare"
    BY <1>2 DEF IInv, CountInv, Prepared, TypeOK, Requests
  <2>2. ASSUME fpc = "split" PROVE fstart >= TotalEntries(N)
    <3>1. fstart = TotalEntries(N)
      BY <1>2, <2>2, LoopEnd DEF InLoop, LoopMayEnd
    <3> QED
      BY <3>1, EntriesType
  <2> QED
    BY <2>1, <2>2
<1>3. IInv => NoWorkOfFreedRequest
  BY <1>1, <1>2 DEF NoWorkOfFreedRequest
<1> QED
  BY <1>3, Invariance, PTL

(* The slices of two works of a request do not meet.                       *)
LEMMA SlicesAreDisjoint ==
    ASSUME IInv, NEW w \in LiveWorks, NEW x \in LiveWorks, w.req = x.req, w # x
    PROVE  w.end < x.start \/ x.end < w.start
<1> USE PoolAssumption
<1>1. LiveWork(w) /\ LiveWork(x) /\ w \in Work /\ x \in Work
  BY LiveWorksAreLive
<1> DEFINE num == NumWorks[w.req]
<1>2. /\ num \in Nat \ {0} /\ w.i \in Nat /\ x.i \in Nat
      /\ w.start = Start(num, w.i) /\ w.end = Start(num, w.i + 1) - 1
      /\ x.start = Start(num, x.i) /\ x.end = Start(num, x.i + 1) - 1
  BY <1>1 DEF LiveWork, WorkIds
<1>3. w.i # x.i
  <2>1. ASSUME w.i = x.i PROVE FALSE
    <3>1. w.start = x.start /\ w.end = x.end
      BY <1>2, <2>1
    <3> QED
      BY <1>1, <2>1, <3>1 DEF Work
  <2> QED
    BY <2>1
<1> HIDE DEF num
<1>4. w.i + 1 \in Nat /\ x.i + 1 \in Nat
  BY <1>2
<1>5. /\ Start(num, w.i) \in Nat /\ Start(num, x.i) \in Nat
      /\ Start(num, w.i + 1) \in Nat /\ Start(num, x.i + 1) \in Nat
  BY <1>2, <1>4, StartType
<1>6. CASE w.i < x.i
  <2>1. w.i + 1 <= x.i
    BY <1>2, <1>6
  <2>2. Start(num, w.i + 1) <= Start(num, x.i)
    BY <1>2, <1>4, <2>1, StartMonotonic
  <2> QED
    BY <1>2, <1>5, <2>2
<1>7. CASE x.i < w.i
  <2>1. x.i + 1 <= w.i
    BY <1>2, <1>7
  <2>2. Start(num, x.i + 1) <= Start(num, w.i)
    BY <1>2, <1>4, <2>1, StartMonotonic
  <2> QED
    BY <1>2, <1>5, <2>2
<1> QED
  BY <1>2, <1>3, <1>6, <1>7

(* A work that has left the frontend lies before fstart.                   *)
LEMMA HandedOutIsBefore ==
    ASSUME IInv, NEW w, HandedOut(w), w.req = freq, w \in Work
    PROVE  w.end < fstart
<1> USE PoolAssumption
<1>1. TypeOK /\ SplitInv /\ LiveWork(w)
  BY DEF IInv, HandedOut
<1> DEFINE num == NumWorks[freq]
<1>2. /\ num \in Nat \ {0} /\ w.i \in Nat /\ w.end = Start(num, w.i + 1) - 1
      /\ w.end < TotalEntries(N) /\ freq > 0 /\ fpc # "prepare" /\ fi \in Nat
  BY <1>1 DEF LiveWork, WorkIds, Prepared, Requests, TypeOK
<1>3. w.i + 1 \in Nat
  BY <1>2
<1>4. Start(num, w.i + 1) \in Nat /\ Start(num, fi) \in Nat
  BY <1>2, <1>3, StartType
<1>5. CASE InLoop
  <2>1. w.i + 1 <= fi /\ fstart = Start(num, fi)
    BY <1>1, <1>2, <1>5 DEF HandedOut, SplitInv
  <2>2. Start(num, w.i + 1) <= Start(num, fi)
    BY <1>2, <1>3, <2>1, StartMonotonic
  <2> QED
    BY <1>2, <1>4, <2>1, <2>2
<1>6. CASE ~InLoop
  <2>1. fstart >= TotalEntries(N) /\ fstart \in Nat
    BY <1>1, <1>2, <1>6 DEF SplitInv, InLoop, TypeOK
  <2> QED
    BY <1>2, <1>4, <2>1, EntriesType
<1> QED
  BY <1>5, <1>6

(* No two backends are ever given the same entry.                          *)
THEOREM DisjointWorks == Spec => []WorksAreDisjoint
<1>1. ASSUME IInv PROVE WorksAreDisjoint
  <2>1. TypeOK /\ WorkInv /\ UniqueInv
    BY <1>1 DEF IInv
  <2>2. \A k, l \in 1..Len(workQueue) : k # l => workQueue[k] # workQueue[l]
    BY <2>1 DEF UniqueInv, SameWork
  <2>3. \A t, u \in Backends :
          t # u /\ bpc[t] = "compute" /\ bpc[u] = "compute" => bwork[t] # bwork[u]
    BY <2>1 DEF UniqueInv, SameWork
  <2>4. QueuedWorks \cap RunningWorks = {}
    BY <2>1 DEF UniqueInv, SameWork, QueuedWorks, RunningWorks
  <2>5. \A w, x \in LiveWorks :
          w.req = x.req /\ w # x => w.end < x.start \/ x.end < w.start
    BY <1>1, SlicesAreDisjoint
  <2>6. ASSUME NEW w \in QueuedWorks \cup RunningWorks, w.req = freq PROVE w.end < fstart
    <3>1. HandedOut(w) /\ w \in Work
      BY <2>1, <2>6 DEF QueuedWorks, RunningWorks, WorkInv, TypeOK
    <3> QED
      BY <1>1, <2>6, <3>1, HandedOutIsBefore
  <2> QED
    BY <2>2, <2>3, <2>4, <2>5, <2>6 DEF WorksAreDisjoint
<1> QED
  BY <1>1, Invariance, PTL

(* The works of a request differ by at most one entry and none is empty.   *)
THEOREM BalancedWorks == Spec => []WorksAreBalanced
<1> USE PoolAssumption
<1>1. ASSUME IInv, NEW w \in LiveWorks
      PROVE  LET size == w.end - w.start + 1
             IN  /\ size \in 1..TotalEntries(N)
                 /\ size \in {BaseSize(N, NumWorks[w.req]), BaseSize(N, NumWorks[w.req]) + 1}
                 /\ w.end < TotalEntries(N)
  <2> DEFINE num == NumWorks[w.req]
             B == BaseSize(N, num)
  <2>1. LiveWork(w) /\ w \in Work
    BY <1>1, LiveWorksAreLive
  <2>2. /\ num \in Nat \ {0} /\ w.i \in Nat
        /\ w.start = Start(num, w.i) /\ w.end = Start(num, w.i + 1) - 1
        /\ w.start <= w.end /\ w.end < TotalEntries(N)
    BY <2>1 DEF LiveWork, WorkIds
  <2>3. Start(num, w.i) \in Nat /\ WorkSize(N, num, w.i) \in Nat
        /\ Start(num, w.i + 1) = Start(num, w.i) + WorkSize(N, num, w.i)
    BY <2>2, StartType, StartStep
  <2>4. B \in Nat
    BY <2>2, Division
  <2>5. WorkSize(N, num, w.i) \in {B, B + 1}
    BY <2>4 DEF WorkSize
  <2> HIDE DEF num, B
  <2> QED
    BY <2>2, <2>3, <2>5, EntriesType DEF num, B
<1>2. IInv => WorksAreBalanced
  BY <1>1 DEF WorksAreBalanced
<1> QED
  BY <1>2, Invariance, PTL

(* What main prints is c, and c is then the products.                      *)
LEMMA PrintedIsResults ==
    ASSUME IInv, mpc = "print"
    PROVE  c = [r \in Requests |-> [idx \in Entries |-> Product(r, idx)]]
<1>1. c = [r \in Requests |-> [idx \in Entries |-> c[r][idx]]]
  BY DEF IInv, TypeOK
<1>2. \A r \in Requests : \A idx \in Entries : c[r][idx] = Product(r, idx)
  BY SynchronizedIsRetired, AllRetired, FreedIsComplete DEF Synchronized
<1> QED
  BY <1>1, <1>2

(* Each step of the pool is a step of the service, or none of its concern. *)
LEMMA ServiceStep ==
    ASSUME IInv, [Next]_vars
    PROVE  [Service!Next]_(Service!serviceVars)
<1> USE PoolAssumption DEF mainVars, countVars
<1>0. TypeOK /\ MainInv
  BY DEF IInv
<1>1. CASE CountRequest
  <2>1. Service!Submit
    BY <1>0, <1>1 DEF CountRequest, MainInv, TypeOK, Service!Submit
  <2> QED
    BY <2>1 DEF Service!Next
<1>2. CASE PrintResults
  <2>1. /\ mreq = T /\ freed = 1..T /\ printed = NotPrinted
    BY <1>0, <1>2, AllRetired DEF PrintResults, MainInv, Requests
  <2>2. printed' = [r \in Requests |-> [idx \in Entries |-> Product(r, idx)]]
    BY <1>2, PrintedIsResults DEF PrintResults
  <2>3. UNCHANGED <<mreq, freed>>
    BY <1>2 DEF PrintResults
  <2>4. Service!Collect
    BY <2>1, <2>2, <2>3 DEF Service!Collect, Service!NoOutput, NotPrinted
  <2> QED
    BY <2>4 DEF Service!Next
<1>3. ASSUME NEW t \in Backends, FinishWork(t) PROVE [Service!Next]_(Service!serviceVars)
  <2>1. UNCHANGED <<mreq, printed>>
    BY <1>3 DEF FinishWork, EndWork
  <2>2. /\ bwork[t].req \in 1..mreq /\ bwork[t].req \notin freed
        /\ freed' = IF LastWork(t) THEN freed \cup {bwork[t].req} ELSE freed
    BY <1>3, FinishFacts, LiveIsActive DEF HandedOut
  <2>3. CASE LastWork(t)
    <3>1. Service!Complete(bwork[t].req)
      BY <2>1, <2>2, <2>3 DEF Service!Complete
    <3> QED
      BY <2>2, <3>1 DEF Service!Next
  <2>4. CASE ~LastWork(t)
    BY <2>1, <2>2, <2>4 DEF Service!serviceVars
  <2> QED
    BY <2>3, <2>4
<1>4. \/ CountRequest \/ PrintResults \/ \E t \in Backends : FinishWork(t)
      \/ UNCHANGED <<mreq, freed, printed>>
  BY NextCases DEF EnqueueRequest, TestActive, TestActiveAgainst, TestWorkQueue,
      TestRequestQueue, FreeMatrices, StopRequests, StopWorks, StopWorksTelling, JoinAll,
      FrontCheck, FrontWait, FrontDequeueNothing, FrontDequeue, Prepare, PrepareFor,
      CreateWork, EnqueueWork, EnqueueWorkThen, LeaveLoop, BackCheck, BackWait,
      BackDequeueNothing, BackDequeue, ComputeEntry, SpuriousWakeup, vars
<1>5. CASE UNCHANGED <<mreq, freed, printed>>
  BY <1>5 DEF Service!serviceVars
<1> QED
  BY <1>1, <1>2, <1>3, <1>4, <1>5

(* The pool implements the service: requests are completed once, after     *)
(* they were submitted, and main prints the products of all of them.       *)
THEOREM PoolImplementsService == Spec => ImplementsService
<1>1. Init => Service!Init
  BY DEF Init, Service!Init, Service!NoOutput, NotPrinted
<1>2. IInv /\ [Next]_vars => [Service!Next]_(Service!serviceVars)
  BY ServiceStep
<1> QED
  BY <1>1, <1>2, Invariance, PTL DEF Spec, ImplementsService, Service!Spec
=============================================================================
