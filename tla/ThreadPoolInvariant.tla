------------------------- MODULE ThreadPoolInvariant -------------------------
(***************************************************************************)
(* The inductive invariant of ThreadPool: what is true between any two     *)
(* steps, strong enough to be preserved by each of them and to imply the   *)
(* safety properties.                                                      *)
(***************************************************************************)
EXTENDS ThreadPool

(* Where the i-th work starts: i shares of base_size, and one more entry   *)
(* for each of the first works.                                            *)
Start(num, i) ==
    i * BaseSize(N, num) + (IF i < Remainder(N, num) THEN i ELSE Remainder(N, num))

Slice(r, i) == Start(NumWorks[r], i) .. Start(NumWorks[r], i + 1) - 1
WorkIds(r) == 0..NumWorks[r]-1

(* The requests the frontend has begun to split.                           *)
Prepared(r) == r < freq \/ (r = freq /\ fpc # "prepare")
InLoop == fpc \in {"split", "enqueue"}

Enqueued == IF mpc = "enqueue" THEN mreq - 1 ELSE mreq

-----------------------------------------------------------------------------
(* main counts requests in order and comes to the synchronisation with all *)
(* of them; requests are queued and taken in order.                        *)
MainInv ==
    /\ mpc = "request" => mreq < T
    /\ mpc = "enqueue" => mreq > 0
    /\ mpc \notin {"request", "enqueue"} => mreq = T
    /\ mpc \notin {"request", "enqueue", "sync", "syncWait"} => active = 0
    /\ mpc = "syncWait" => active > 0
    /\ mpc \in {"join", "done"} => workStop
    /\ mpc \in {"request", "enqueue", "sync", "syncWork", "syncRequest", "syncWait",
                "print"} => printed = NotPrinted

RequestInv ==
    /\ Len(requestQueue) = Enqueued - freq
    /\ \A k \in 1..Len(requestQueue) : requestQueue[k] = freq + k
    /\ fpc \in {"prepare", "split", "enqueue"} => freq > 0

(* A sleeping thread has nothing to do.                                    *)
WaitInv ==
    /\ fpc = "waiting" => Len(requestQueue) = 0 /\ ~requestStop
    /\ \A t \in Backends : bpc[t] = "waiting" => Len(workQueue) = 0 /\ ~workStop

(* The loop is at the start of the fi-th work, and what lies before it is  *)
(* cut into the works before; a loop that was left has cut everything.     *)
SplitInv ==
    /\ InLoop => /\ fi <= NumWorks[freq]
                 /\ fstart = Start(NumWorks[freq], fi)
                 /\ \A idx \in Entries :
                       idx < fstart => \E i \in 0..fi-1 : idx \in Slice(freq, i)
    /\ fpc \in {"check", "dequeue", "waiting", "exited"} /\ freq > 0 =>
          fstart >= TotalEntries(N)
    /\ \A r \in Requests : Prepared(r) /\ ~(r = freq /\ InLoop) =>
          \A idx \in Entries : \E i \in WorkIds(r) : idx \in Slice(r, i)

(* What is true of every work that exists and is not finished.             *)
LiveWork(w) ==
    /\ w.req \in Requests
    /\ Prepared(w.req)
    /\ w.req \notin freed
    /\ w.i \in WorkIds(w.req)
    /\ w.i \notin done[w.req]
    /\ w.start = Start(NumWorks[w.req], w.i)
    /\ w.end = Start(NumWorks[w.req], w.i + 1) - 1
    /\ w.start <= w.end
    /\ w.end < TotalEntries(N)

(* ... and of one that has left the frontend.                              *)
HandedOut(w) == LiveWork(w) /\ (w.req = freq /\ InLoop => w.i < fi)

WorkInv ==
    /\ \A k \in 1..Len(workQueue) : HandedOut(workQueue[k])
    /\ \A t \in Backends : bpc[t] = "compute" => HandedOut(bwork[t])
    /\ fpc = "enqueue" => LiveWork(fwork) /\ fwork.req = freq /\ fwork.i = fi

(* No work exists twice.                                                   *)
SameWork(w, x) == w.req = x.req /\ w.i = x.i

UniqueInv ==
    /\ \A k, l \in 1..Len(workQueue) : k # l => ~SameWork(workQueue[k], workQueue[l])
    /\ \A t, u \in Backends :
          t # u /\ bpc[t] = "compute" /\ bpc[u] = "compute" => ~SameWork(bwork[t], bwork[u])
    /\ \A k \in 1..Len(workQueue), t \in Backends :
          bpc[t] = "compute" => ~SameWork(workQueue[k], bwork[t])

(* The counters count what they should.                                    *)
CountInv ==
    /\ active = Cardinality((1..mreq) \ freed)
    /\ \A r \in freed : Prepared(r) /\ done[r] = WorkIds(r)
    /\ \A r \in Requests :
          /\ done[r] \subseteq WorkIds(r)
          /\ ~Prepared(r) => done[r] = {}
          /\ r = freq /\ InLoop => \A i \in done[r] : i < fi
          /\ Prepared(r) => remaining[r] = Cardinality(WorkIds(r) \ done[r])
          /\ Prepared(r) /\ r \notin freed => remaining[r] > 0

(* The entries that have been computed are right.                          *)
ResultInv ==
    /\ \A r \in Requests : Prepared(r) => bt[r] = Transposed(N, b[r])
    /\ \A r \in Requests : \A i \in done[r] : \A idx \in Slice(r, i) :
          idx \in Entries => c[r][idx] = Product(r, idx)
    /\ \A t \in Backends : bpc[t] = "compute" =>
          /\ bidx[t] >= bwork[t].start
          /\ \A idx \in Entries : bwork[t].start <= idx /\ idx < bidx[t] =>
                c[bwork[t].req][idx] = Product(bwork[t].req, idx)

IInv ==
    /\ TypeOK
    /\ MainInv
    /\ RequestInv
    /\ WaitInv
    /\ SplitInv
    /\ WorkInv
    /\ UniqueInv
    /\ CountInv
    /\ ResultInv
=============================================================================
