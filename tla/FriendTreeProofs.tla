-------------------------- MODULE FriendTreeProofs --------------------------
(***************************************************************************)
(* Proofs about FriendTree, for any friends, first values, number of       *)
(* commands and enough processes, as long as no adoption is passed on      *)
(* below the root.  IInv is inductive: first what steps of one process, of *)
(* a parent and a child, and of the root do to the tree and the jobs, then *)
(* the handlers one by one, the loop of Not_Tako and the commands.         *)
(***************************************************************************)
EXTENDS FriendTreeInvariant, FiniteSetTheorems, SequenceTheorems, TLAPS

-----------------------------------------------------------------------------
(* Jobs and messages.                                                      *)

(* The locals of a handler when it begins, and of one that is over.        *)
LEMMA JobFields ==
    ASSUME NEW cmd
    PROVE  /\ DOMAIN Job(cmd) = {"cmd", "at", "k", "success", "buf", "fifo", "say"}
           /\ Job(cmd).cmd = cmd /\ Job(cmd).at = "ask" /\ Job(cmd).k = 1
           /\ Job(cmd).success = TRUE /\ Job(cmd).buf = <<>> /\ Job(cmd).fifo = 0
           /\ Job(cmd).say = <<>>
<1>1. QED  BY DEF Job

LEMMA IdleFields ==
    /\ DOMAIN Idle = {"cmd", "at", "k", "success", "buf", "fifo", "say"}
    /\ Idle.at = "idle" /\ Idle.say = <<>> /\ Idle.cmd = <<"none">> /\ Idle.success = TRUE
<1>1. QED  BY DEF Idle, Job

(* The replies are words of one message, and different.                    *)
LEMMA Words ==
    /\ OneMessage(Success) /\ OneMessage(Fail) /\ OneMessage(Exited)
    /\ Success # Fail /\ Success # Exited /\ Fail # Exited
    /\ Success # <<>> /\ Fail # <<>> /\ Exited # <<>>
    /\ Fail[1][1] = "fail" /\ Success[1][1] = "success" /\ Exited[1][1] = "Exited"
    /\ \A x : <<x>> # <<>> /\ <<x>>[1] = x /\ OneMessage(<<x>>)
<1>1. QED  BY DEF OneMessage, Success, Fail, Exited

(* One message in an empty pipe.                                           *)
LEMMA OneAppended ==
    ASSUME NEW x
    PROVE  Append(<<>>, x) = <<x>> /\ <<>> \o <<x>> = <<x>> /\ Head(<<x>>) = x /\ Tail(<<x>>) = <<>>
<1>1. QED  OBVIOUS

(* A command that a parent has translated stays the same at the child.     *)
LEMMA ItselfIdempotent ==
    ASSUME NEW cmd, NEW name
    PROVE  ForItself(ForKid(cmd, name), name) = ForKid(cmd, name)
<1>1. QED  BY DEF ForItself, ForKid

(* What Settle makes of a job.                                             *)
LEMMA Settled ==
    ASSUME NEW job
    PROVE  \/ Settle(job) = job /\ ~(job.at = "done" /\ job.say = <<>> /\ job.cmd[1] # "graduate")
           \/ Settle(job) = Idle /\ job.at = "done" /\ job.say = <<>> /\ job.cmd[1] # "graduate"
<1>1. QED  BY DEF Settle

-----------------------------------------------------------------------------
(* The tree.                                                               *)

(* The children of a process, one by one.                                  *)
LEMMA KidDomain ==
    ASSUME NEW s, Shaped(s)
    PROVE  /\ DOMAIN s.kids = 1..Len(s.kids) /\ Len(s.kids) \in Nat
           /\ \A i \in 1..Len(s.kids) :
                 /\ s.kids[i] \in KidRecords
                 /\ s.kids[i].pid \in Pids /\ s.kids[i].name \in Names /\ s.kids[i].value \in Nat
<1>1. s.kids \in Seq(KidRecords)
  BY DEF Shaped
<1>2. DOMAIN s.kids = 1..Len(s.kids) /\ Len(s.kids) \in Nat
  BY <1>1
<1>3. ASSUME NEW i \in 1..Len(s.kids)
      PROVE  s.kids[i] \in KidRecords
  BY <1>1, <1>3
<1>4. QED  BY <1>2, <1>3 DEF KidRecords

(* Nobody is its own child.                                                *)
LEMMA NotOwnKid ==
    ASSUME TreeInv, NEW p \in DOMAIN procs, NEW i \in DOMAIN procs[p].kids
    PROVE  /\ procs[p].kids[i].pid # p
           /\ procs[p].kids[i].pid # Root
           /\ procs[p].kids[i].pid \in DOMAIN procs
           /\ procs[p].kids[i].pid \in KidPids(procs, p)
<1>1. /\ procs[p].kids[i].pid \in DOMAIN procs \ {Root}
      /\ procs[p].kids[i].pid \in KidPids(procs, p)
  BY DEF TreeInv, KidInv, KidPids
<1>2. ASSUME procs[p].kids[i].pid = p
      PROVE  FALSE
  <2>1. {p} \in SUBSET (DOMAIN procs \ {Root}) /\ {p} # {}
    BY <1>1, <1>2
  <2>2. PICK x \in {p} : \A q \in DOMAIN procs : x \in KidPids(procs, q) => q \notin {p}
    BY <2>1 DEF TreeInv, Grounded
  <2>3. QED  BY <1>1, <1>2, <2>2
<1>3. QED  BY <1>1, <1>2

(* The names, the children and the processes are the same ones.            *)
SameTree ==
    /\ DOMAIN procs' = DOMAIN procs
    /\ \A q \in DOMAIN procs :
          /\ procs'[q].name = procs[q].name
          /\ DOMAIN procs'[q].kids = DOMAIN procs[q].kids
          /\ \A i \in DOMAIN procs[q].kids :
                /\ procs'[q].kids[i].pid = procs[q].kids[i].pid
                /\ procs'[q].kids[i].name = procs[q].kids[i].name

(* The same tree has the same children.                                    *)
LEMMA SameKidPids ==
    ASSUME SameTree
    PROVE  \A q \in DOMAIN procs : KidPids(procs', q) = KidPids(procs, q)
<1>1. QED  BY DEF SameTree, KidPids

(* What is true of the tree stays true of the same tree.                   *)
LEMMA TreeStays ==
    ASSUME TreeInv, SameTree,
           \A q \in DOMAIN procs : ~procs'[q].alive => procs'[q].kids = <<>>,
           Root \in DOMAIN procs
    PROVE  TreeInv'
<1>1. KidInv'
  BY DEF TreeInv, SameTree, KidInv
<1>2. OneParent'
  <2> SUFFICES ASSUME NEW q \in DOMAIN procs, NEW s \in DOMAIN procs,
                      NEW i \in DOMAIN procs[q].kids, NEW j \in DOMAIN procs[s].kids,
                      procs'[q].kids[i].pid = procs'[s].kids[j].pid
               PROVE  q = s /\ i = j
    BY DEF SameTree, OneParent
  <2>1. procs[q].kids[i].pid = procs[s].kids[j].pid
    BY DEF SameTree
  <2>2. QED  BY <2>1 DEF TreeInv, OneParent
<1>3. ParentInv'
  BY SameKidPids DEF TreeInv, SameTree, ParentInv
<1>4. NameInv'
  BY DEF TreeInv, SameTree, NameInv
<1>5. DeadInv'
  BY DEF SameTree, DeadInv
<1>6. Grounded'
  <2> SUFFICES ASSUME NEW S \in SUBSET (DOMAIN procs \ {Root}), S # {}
               PROVE  \E p \in S : \A q \in DOMAIN procs : p \in KidPids(procs', q) => q \notin S
    BY DEF SameTree, Grounded
  <2>1. PICK p \in S : \A q \in DOMAIN procs : p \in KidPids(procs, q) => q \notin S
    BY DEF TreeInv, Grounded
  <2>2. QED  BY <2>1, SameKidPids
<1>7. QED  BY <1>1, <1>2, <1>3, <1>4, <1>5, <1>6 DEF TreeInv

(* The ways are those of the tree.                                         *)
LEMMA WayStays ==
    ASSUME SameTree, NEW r, NEW p, NEW c
    PROVE  Leads(r, p, c)' <=> Leads(r, p, c)
<1>1. \A W \in SUBSET DOMAIN procs : Way(W, r, p, c)' <=> Way(W, r, p, c)
  <2> SUFFICES ASSUME NEW W \in SUBSET DOMAIN procs
               PROVE  Way(W, r, p, c)' <=> Way(W, r, p, c)
    OBVIOUS
  <2>1. \A x \in W : procs'[x].name = procs[x].name
    BY DEF SameTree
  <2>2. \A q \in DOMAIN procs : KidPids(procs', q) = KidPids(procs, q)
    BY SameKidPids
  <2>3. DOMAIN procs' = DOMAIN procs
    BY DEF SameTree
  <2>4. QED  BY <2>1, <2>2, <2>3 DEF Way
<1>2. QED  BY <1>1 DEF Leads, SameTree

-----------------------------------------------------------------------------
(* What a process may be in the middle of.                                 *)

(* Everybody but the root is a child of somebody else, who is alive.       *)
LEMMA Parented ==
    ASSUME Shape, TreeInv, NEW p \in DOMAIN procs, p # Root
    PROVE  \E q \in DOMAIN procs : \E i \in DOMAIN procs[q].kids :
              procs[q].kids[i].pid = p /\ procs[q].alive /\ q # p
<1>1. PICK q \in DOMAIN procs : p \in KidPids(procs, q)
  BY DEF TreeInv, ParentInv
<1>2. PICK i \in DOMAIN procs[q].kids : procs[q].kids[i].pid = p
  BY <1>1 DEF KidPids
<1>3. procs[q].alive
  <2>1. procs[q].kids = <<>> => DOMAIN procs[q].kids = {}
    OBVIOUS
  <2>2. procs[q].alive \in BOOLEAN
    BY DEF Shape, Shaped
  <2>3. QED  BY <1>2, <2>1, <2>2 DEF TreeInv, DeadInv
<1>4. q # p
  BY <1>2, NotOwnKid
<1>5. QED  BY <1>2, <1>3, <1>4

(* Who is not free is asked by its parent, which waits for it.             *)
LEMMA AskedByParent ==
    ASSUME Shape, TreeInv, ServedInv, NEW p \in DOMAIN procs, p # Root, ~Free(procs[p])
    PROVE  \E q \in DOMAIN procs : \E i \in DOMAIN procs[q].kids :
              /\ procs[q].kids[i].pid = p /\ q # p /\ procs[q].alive
              /\ WaitsFor(q, i)
              /\ Serves(procs[p], Asked(q, i), main.at)
<1>1. PICK q \in DOMAIN procs : \E i \in DOMAIN procs[q].kids :
          procs[q].kids[i].pid = p /\ procs[q].alive /\ q # p
  BY Parented
<1>2. QED  BY <1>1 DEF ServedInv

(* When the root does not wait, everybody else is free.                    *)
LEMMA AllFree ==
    ASSUME Shape, TreeInv, ServedInv, procs[Root].job.at # "wait"
    PROVE  \A p \in DOMAIN procs \ {Root} : Free(procs[p])
<1> DEFINE S == {p \in DOMAIN procs \ {Root} : ~Free(procs[p])}
<1> SUFFICES ASSUME S # {} PROVE FALSE
  OBVIOUS
<1>1. PICK p \in S : \A q \in DOMAIN procs : p \in KidPids(procs, q) => q \notin S
  BY DEF TreeInv, Grounded
<1>2. PICK q \in DOMAIN procs : \E i \in DOMAIN procs[q].kids :
          procs[q].kids[i].pid = p /\ q # p /\ WaitsFor(q, i)
  BY <1>1, AskedByParent
<1>3. p \in KidPids(procs, q)
  BY <1>2 DEF KidPids
<1>4. q # Root
  BY <1>2 DEF WaitsFor
<1>5. Free(procs[q])
  BY <1>1, <1>3, <1>4
<1>6. QED  BY <1>2, <1>5, IdleFields DEF WaitsFor, Free

(* By what it does, the rest is known.                                     *)
ByJob(s) ==
    /\ s.job.at \in {"idle", "ask", "wait", "done"}
    /\ s.job.at = "idle" => s.job = Idle
    /\ s.job.at \in {"ask", "wait"} => Working(s)
    /\ s.down # <<>> => Hearing(s)
    /\ s.job.at = "done" => s.alive /\ s.down = <<>>

(* Who is asked for something is known by what it does.                    *)
LEMMA ServesByJob ==
    ASSUME NEW s, NEW m, NEW at, Serves(s, m, at)
    PROVE  ByJob(s)
<1>1. QED  BY IdleFields DEF Serves, ByJob, Hearing, Working, Saying, Leaving, Replied, Gone

(* So is the root, which the loop asks.                                    *)
LEMMA RootByJob ==
    ASSUME NEW s, RootServes(s) \/ Free(s)
    PROVE  ByJob(s) /\ s.alive
<1>1. QED  BY IdleFields DEF RootServes, ByJob, Hearing, Working, Saying, Leaving, Replied, Free

(* And so is everybody.                                                    *)
LEMMA KnownByJob ==
    ASSUME Shape, LiveInv, NEW p \in DOMAIN procs
    PROVE  ByJob(procs[p])
<1>1. CASE p = Root
  BY <1>1, RootByJob DEF LiveInv, Core, RootInv
<1>2. CASE Free(procs[p])
  BY <1>2, IdleFields DEF Free, ByJob
<1>3. CASE p # Root /\ ~Free(procs[p])
  BY <1>3, AskedByParent, ServesByJob DEF LiveInv, Core
<1>4. QED  BY <1>1, <1>2, <1>3

-----------------------------------------------------------------------------
(* Steps that change one or two processes.                                 *)

(* Only the process p changes.                                             *)
OnlyAt(p, s) ==
    /\ DOMAIN procs' = DOMAIN procs
    /\ procs'[p] = s
    /\ \A q \in DOMAIN procs : q # p => procs'[q] = procs[q]

(* Who is free does nothing and has nothing to do.                         *)
LEMMA FreeFacts ==
    ASSUME NEW s
    PROVE  /\ Free(s) => ~Active(s) /\ ~Busy(s) /\ ByJob(s) /\ s.alive
           /\ s.job = Idle => s.job.at # "wait"
<1>1. QED  BY IdleFields DEF Free, Active, Busy, ByJob

(* A process goes on with its job, or begins or ends it.                   *)
LEMMA LocalStep ==
    ASSUME Shape, Core, Root \in DOMAIN procs, UNCHANGED main,
           NEW p \in DOMAIN procs, NEW s, OnlyAt(p, s),
           Shaped(s), s.name = procs[p].name, s.kids = procs[p].kids, ~s.alive => s.kids = <<>>,
           Active(procs[p]), procs[p].job.at # "wait", s.job.at # "wait",
           p # Root => \A m : Serves(procs[p], m, main.at) => Serves(s, m, main.at),
           p = Root => RootServes(s),
           Busy(s) => Allowed(Task(s))
    PROVE  Shape' /\ SameTree /\ Core'
<1>1. SameTree
  BY DEF SameTree, OnlyAt
<1>2. Shape'
  BY DEF Shape, OnlyAt
<1>3. TreeInv'
  <2>1. \A q \in DOMAIN procs : ~procs'[q].alive => procs'[q].kids = <<>>
    BY DEF OnlyAt, Core, TreeInv, DeadInv
  <2>2. QED  BY <1>1, <2>1, TreeStays DEF Core
<1>4. ServedInv'
  <2> SUFFICES ASSUME NEW q \in DOMAIN procs, NEW i \in DOMAIN procs[q].kids
               PROVE  LET kid == procs'[procs'[q].kids[i].pid]
                      IN  IF WaitsFor(q, i)' THEN Serves(kid, Asked(q, i)', main.at) ELSE Free(kid)
    BY <1>1 DEF ServedInv, SameTree
  <2> DEFINE r == procs[q].kids[i].pid
  <2>1. r # q /\ r \in DOMAIN procs
    BY NotOwnKid DEF Core
  <2>2. procs'[q].kids[i] = procs[q].kids[i]
    BY DEF OnlyAt
  <2>3. IF WaitsFor(q, i) THEN Serves(procs[r], Asked(q, i), main.at) ELSE Free(procs[r])
    BY DEF Core, ServedInv
  <2>4. CASE r = p
    <3>1. procs'[q] = procs[q]
      BY <2>1, <2>4 DEF OnlyAt
    <3>2. WaitsFor(q, i) /\ Serves(procs[p], Asked(q, i), main.at) /\ p # Root
      BY <2>3, <2>4, FreeFacts, NotOwnKid DEF Core
    <3>3. Serves(s, Asked(q, i), main.at)
      BY <3>2
    <3>4. WaitsFor(q, i)' /\ Asked(q, i)' = Asked(q, i) /\ procs'[procs'[q].kids[i].pid] = s
      BY <2>4, <3>1, <3>2 DEF WaitsFor, Asked, OnlyAt
    <3>5. QED  BY <3>3, <3>4
  <2>5. CASE r # p /\ q # p
    <3>1. procs'[q] = procs[q] /\ procs'[r] = procs[r]
      BY <2>1, <2>5 DEF OnlyAt
    <3>2. (WaitsFor(q, i)' <=> WaitsFor(q, i)) /\ Asked(q, i)' = Asked(q, i)
          /\ procs'[procs'[q].kids[i].pid] = procs[r]
      BY <3>1 DEF WaitsFor, Asked
    <3>3. QED  BY <2>3, <3>2
  <2>6. CASE r # p /\ q = p
    <3>1. ~WaitsFor(q, i) /\ ~WaitsFor(q, i)' /\ procs'[procs'[q].kids[i].pid] = procs[r]
      BY <2>1, <2>2, <2>6 DEF WaitsFor, OnlyAt
    <3>2. QED  BY <2>3, <3>1
  <2>7. QED  BY <2>4, <2>5, <2>6
<1>5. RootInv'
  <2>1. CASE p = Root
    BY <2>1, FreeFacts DEF Core, RootInv, OnlyAt
  <2>2. CASE p # Root
    BY <2>2 DEF Core, RootInv, OnlyAt
  <2>3. QED  BY <2>1, <2>2
<1>6. OneActive'
  BY DEF Core, OneActive, OnlyAt
<1>7. CmdInv'
  <2>1. \A m : Allowed(m)' <=> Allowed(m)
    BY DEF Allowed
  <2>2. QED  BY <2>1 DEF Core, CmdInv, OnlyAt
<1>8. QED  BY <1>1, <1>2, <1>3, <1>4, <1>5, <1>6, <1>7 DEF Core

(* The process p changes, and its child r that it waits for or asks.       *)
BothAt(p, s, r, t) ==
    /\ DOMAIN procs' = DOMAIN procs
    /\ procs'[p] = s
    /\ procs'[r] = t
    /\ \A q \in DOMAIN procs : q \notin {p, r} => procs'[q] = procs[q]

(* The children stay the same ones, whatever their values.                 *)
KeepsKids(s, t) ==
    /\ s.name = t.name
    /\ DOMAIN s.kids = DOMAIN t.kids
    /\ \A i \in DOMAIN t.kids : s.kids[i].pid = t.kids[i].pid /\ s.kids[i].name = t.kids[i].name

(* A process and a child that it asks or waits for change together.        *)
LEMMA LinkStep ==
    ASSUME Shape, Core, Root \in DOMAIN procs, UNCHANGED main,
           NEW p \in DOMAIN procs, NEW k \in DOMAIN procs[p].kids,
           NEW r, r = procs[p].kids[k].pid,
           NEW s, NEW t, BothAt(p, s, r, t),
           Shaped(s), KeepsKids(s, procs[p]), s.alive,
           Shaped(t), KeepsKids(t, procs[r]), t.alive,
           p # Root => \A m : Serves(procs[p], m, main.at) => Serves(s, m, main.at),
           p = Root => RootServes(s),
           Busy(s) => Allowed(Task(s)),
           Busy(t) => Allowed(Task(t)),
           ~Free(procs[p]),
           t.job.at # "wait", procs[r].job.at # "wait",
           procs[p].job.at = "wait" => procs[p].job.k = k,
           IF s.job.at = "wait"
           THEN s.job.k = k /\ Serves(t, ForKid(s.job.cmd, procs[p].kids[k].name), main.at)
           ELSE Free(t),
           Active(procs[p]) \/ Active(procs[r]),
           ~(Active(s) /\ Active(t))
    PROVE  Shape' /\ SameTree /\ Core'
<1>1. r \in DOMAIN procs /\ r # p /\ r # Root
  BY NotOwnKid DEF Core
<1>2. SameTree
  BY DEF SameTree, BothAt, KeepsKids
<1>3. Shape'
  BY DEF Shape, BothAt
<1>4. TreeInv'
  <2>1. \A q \in DOMAIN procs : ~procs'[q].alive => procs'[q].kids = <<>>
    BY DEF BothAt, Core, TreeInv, DeadInv
  <2>2. QED  BY <1>2, <2>1, TreeStays DEF Core
<1>5. ServedInv'
  <2> SUFFICES ASSUME NEW q \in DOMAIN procs, NEW i \in DOMAIN procs[q].kids
               PROVE  LET kid == procs'[procs'[q].kids[i].pid]
                      IN  IF WaitsFor(q, i)' THEN Serves(kid, Asked(q, i)', main.at) ELSE Free(kid)
    BY <1>2 DEF ServedInv, SameTree
  <2> DEFINE x == procs[q].kids[i].pid
  <2>1. x # q /\ x # Root /\ x \in DOMAIN procs
    BY NotOwnKid DEF Core
  <2>2. procs'[q].kids[i].pid = x /\ procs'[q].kids[i].name = procs[q].kids[i].name
    BY <1>2 DEF SameTree
  <2>3. IF WaitsFor(q, i) THEN Serves(procs[x], Asked(q, i), main.at) ELSE Free(procs[x])
    BY DEF Core, ServedInv
  <2> HIDE DEF x
  <2>4. CASE x = r
    <3>1. q = p /\ i = k
      BY <1>1, <2>4 DEF x, Core, TreeInv, OneParent
    <3>2. procs'[procs'[q].kids[i].pid] = t /\ (WaitsFor(q, i)' <=> s.job.at = "wait" /\ s.job.k = k)
          /\ Asked(q, i)' = ForKid(s.job.cmd, procs[p].kids[k].name)
      BY <2>2, <2>4, <3>1 DEF BothAt, WaitsFor, Asked
    <3>3. QED  BY <3>2
  <2>5. CASE x = p
    <3>1. q # p /\ q # r
      <4>1. q # p
        BY <2>1, <2>5
      <4>2. CASE q = r
        <5>1. procs[r].job.at # "wait"
          OBVIOUS
        <5>2. Free(procs[p])
          BY <2>3, <2>5, <4>2, <5>1 DEF WaitsFor
        <5>3. QED  BY <5>2
      <4>3. QED  BY <4>1, <4>2
    <3>2. procs'[q] = procs[q] /\ procs'[procs'[q].kids[i].pid] = s
      BY <2>2, <2>5, <3>1 DEF BothAt
    <3>3. WaitsFor(q, i) /\ Serves(procs[p], Asked(q, i), main.at) /\ p # Root
      BY <2>1, <2>3, <2>5
    <3>4. Serves(s, Asked(q, i), main.at)
      BY <3>3
    <3>5. WaitsFor(q, i)' /\ Asked(q, i)' = Asked(q, i)
      BY <3>2, <3>3 DEF WaitsFor, Asked
    <3>6. QED  BY <3>2, <3>4, <3>5
  <2>6. CASE x \notin {p, r} /\ q \notin {p, r}
    <3>1. procs'[q] = procs[q] /\ procs'[procs'[q].kids[i].pid] = procs[x]
      BY <2>1, <2>2, <2>6 DEF BothAt
    <3>2. (WaitsFor(q, i)' <=> WaitsFor(q, i)) /\ Asked(q, i)' = Asked(q, i)
      BY <3>1 DEF WaitsFor, Asked
    <3>3. QED  BY <2>3, <3>1, <3>2
  <2>7. CASE x \notin {p, r} /\ q = p
    <3>1. i # k /\ procs'[procs'[q].kids[i].pid] = procs[x]
      BY <2>1, <2>2, <2>7 DEF BothAt, x
    <3>2. ~WaitsFor(q, i) /\ ~WaitsFor(q, i)'
      BY <2>7, <3>1 DEF WaitsFor, BothAt
    <3>3. QED  BY <2>3, <3>1, <3>2
  <2>8. CASE x \notin {p, r} /\ q = r
    <3>1. procs'[procs'[q].kids[i].pid] = procs[x]
      BY <2>1, <2>2, <2>8 DEF BothAt
    <3>2. ~WaitsFor(q, i) /\ ~WaitsFor(q, i)'
      BY <2>8 DEF WaitsFor, BothAt
    <3>3. QED  BY <2>3, <3>1, <3>2
  <2>9. QED  BY <2>4, <2>5, <2>6, <2>7, <2>8
<1>6. RootInv'
  <2>1. CASE p = Root
    <3>1. main.at # "idle"
      BY <2>1 DEF Core, RootInv
    <3>2. QED  BY <2>1, <3>1 DEF RootInv, BothAt
  <2>2. CASE p # Root
    BY <1>1, <2>2 DEF Core, RootInv, BothAt
  <2>3. QED  BY <2>1, <2>2
<1>7. OneActive'
  <2>1. \A q \in DOMAIN procs : q \notin {p, r} => ~Active(procs[q])
    BY <1>1 DEF Core, OneActive
  <2>2. QED  BY <1>1, <2>1 DEF OneActive, BothAt
<1>8. CmdInv'
  <2>1. \A m : Allowed(m)' <=> Allowed(m)
    BY DEF Allowed
  <2>2. QED  BY <2>1 DEF Core, CmdInv, BothAt
<1>9. QED  BY <1>2, <1>3, <1>4, <1>5, <1>6, <1>7, <1>8 DEF Core

(* The loop of Not_Tako goes on; everybody else is free.                   *)
LEMMA RootStep ==
    ASSUME Shape, Core, Root \in DOMAIN procs, NEW s, OnlyAt(Root, s),
           Shaped(s), s.name = procs[Root].name, s.kids = procs[Root].kids, s.alive,
           procs[Root].job.at # "wait", s.job.at # "wait",
           main'.at = "idle" => Free(s),
           main'.at # "idle" => RootServes(s),
           Busy(s) => Allowed(Task(s))'
    PROVE  Shape' /\ SameTree /\ Core' /\ \A p \in DOMAIN procs \ {Root} : Free(procs'[p])
<1>1. SameTree
  BY DEF SameTree, OnlyAt
<1>2. Shape'
  BY DEF Shape, OnlyAt
<1>3. TreeInv'
  <2>1. \A q \in DOMAIN procs : ~procs'[q].alive => procs'[q].kids = <<>>
    BY DEF OnlyAt, Core, TreeInv, DeadInv
  <2>2. QED  BY <1>1, <2>1, TreeStays DEF Core
<1>4. \A p \in DOMAIN procs \ {Root} : Free(procs[p]) /\ procs'[p] = procs[p]
  BY AllFree DEF Core, OnlyAt
<1>5. ServedInv'
  <2> SUFFICES ASSUME NEW q \in DOMAIN procs, NEW i \in DOMAIN procs[q].kids
               PROVE  ~WaitsFor(q, i)' /\ Free(procs'[procs'[q].kids[i].pid])
    BY <1>1 DEF ServedInv, SameTree
  <2>1. procs'[q].kids[i].pid = procs[q].kids[i].pid
    BY <1>1 DEF SameTree
  <2>2. Free(procs'[procs'[q].kids[i].pid])
    BY <1>4, <2>1, NotOwnKid DEF Core
  <2>3. ~WaitsFor(q, i)'
    BY <1>4, FreeFacts DEF WaitsFor, OnlyAt, Free
  <2>4. QED  BY <2>2, <2>3
<1>6. RootInv'
  BY DEF RootInv, OnlyAt
<1>7. OneActive'
  BY <1>1, <1>4, FreeFacts DEF OneActive, SameTree
<1>8. CmdInv'
  <2>1. \A p \in DOMAIN procs \ {Root} : ~Busy(procs'[p])
    BY <1>4, FreeFacts
  <2>2. QED  BY <1>1, <2>1 DEF CmdInv, OnlyAt, SameTree
<1>9. QED  BY <1>1, <1>2, <1>3, <1>4, <1>5, <1>6, <1>7, <1>8 DEF Core

-----------------------------------------------------------------------------
(* A child that has ended is dropped.                                      *)

(* Where the j-th child was before the k-th was dropped.                   *)
Moved(j, k) == IF j < k THEN j ELSE j + 1

(* A list without its k-th entry, and without its first.                   *)
LEMMA RemovedAt ==
    ASSUME NEW S, NEW f \in Seq(S), NEW k \in 1..Len(f)
    PROVE  /\ RemoveAt(f, k) \in Seq(S)
           /\ Len(RemoveAt(f, k)) = Len(f) - 1
           /\ \A j \in 1..(Len(f) - 1) : RemoveAt(f, k)[j] = f[Moved(j, k)]
<1> DEFINE a == SubSeq(f, 1, k - 1)
           b == SubSeq(f, k + 1, Len(f))
<1>1. k \in Nat /\ Len(f) \in Nat /\ k >= 1 /\ k <= Len(f)
  OBVIOUS
<1>2. a \in Seq(S) /\ Len(a) = k - 1 /\ \A j \in 1..(k - 1) : a[j] = f[j]
  BY <1>1
<1>3. b \in Seq(S) /\ Len(b) = Len(f) - k /\ \A j \in 1..(Len(f) - k) : b[j] = f[k + j]
  BY <1>1
<1>4. RemoveAt(f, k) = a \o b
  BY DEF RemoveAt
<1> HIDE DEF a, b
<1>5. a \o b \in Seq(S) /\ Len(a \o b) = Len(f) - 1
  BY <1>1, <1>2, <1>3
<1>6. ASSUME NEW j \in 1..(Len(f) - 1)
      PROVE  (a \o b)[j] = f[Moved(j, k)]
  <2>1. CASE j < k
    <3>1. j \in 1..Len(a)
      BY <1>1, <1>2, <2>1
    <3>2. (a \o b)[j] = a[j]
      BY <1>2, <1>3, <3>1
    <3>3. QED  BY <1>1, <1>2, <2>1, <3>1, <3>2 DEF Moved
  <2>2. CASE j >= k
    <3>1. j - (k - 1) \in 1..Len(b) /\ j - Len(a) \in 1..Len(b) /\ j \in (Len(a) + 1)..(Len(a) + Len(b))
      BY <1>1, <1>2, <1>3, <2>2
    <3>2. (a \o b)[j] = b[j - Len(a)]
      BY <1>2, <1>3, <3>1
    <3>3. b[j - (k - 1)] = f[k + (j - (k - 1))] /\ k + (j - (k - 1)) = j + 1
      BY <1>1, <1>3, <3>1
    <3>4. QED  BY <1>1, <1>2, <2>2, <3>2, <3>3 DEF Moved
  <2>3. j \in Int /\ k \in Int
    BY <1>1
  <2>4. j < k \/ j >= k
    BY <2>3
  <2>5. QED  BY <2>1, <2>2, <2>4
<1>7. QED  BY <1>4, <1>5, <1>6

LEMMA RemovedHead ==
    ASSUME NEW S, NEW f \in Seq(S), 1 <= Len(f)
    PROVE  /\ Tail(f) \in Seq(S)
           /\ Len(Tail(f)) = Len(f) - 1
           /\ \A j \in 1..(Len(f) - 1) : Tail(f)[j] = f[Moved(j, 1)]
<1>1. f # <<>> /\ Len(f) \in Nat
  OBVIOUS
<1>2. Tail(f) \in Seq(S) /\ Len(Tail(f)) = Len(f) - 1
  BY <1>1
<1>3. ASSUME NEW j \in 1..(Len(f) - 1)
      PROVE  Tail(f)[j] = f[Moved(j, 1)]
  BY <1>1, <1>3 DEF Moved
<1>4. QED  BY <1>2, <1>3

(* Without the k-th child of p.                                            *)
Dropped(p, s, k) ==
    /\ DOMAIN procs' = DOMAIN procs \ {procs[p].kids[k].pid}
    /\ procs'[p] = s
    /\ \A q \in DOMAIN procs' : q # p => procs'[q] = procs[q]
    /\ s.name = procs[p].name
    /\ Len(s.kids) = Len(procs[p].kids) - 1
    /\ \A j \in 1..(Len(procs[p].kids) - 1) : s.kids[j] = procs[p].kids[Moved(j, k)]

(* All other children stay, under the same parents.                        *)
LEMMA DropKids ==
    ASSUME Shape, Core, NEW p \in DOMAIN procs, NEW k \in DOMAIN procs[p].kids,
           NEW s, Dropped(p, s, k), Shaped(s)
    PROVE  /\ p \in DOMAIN procs'
           /\ \A q \in DOMAIN procs' : procs'[q].name = procs[q].name
           /\ \A q \in DOMAIN procs' : \A j \in DOMAIN procs'[q].kids :
                 \E i \in DOMAIN procs[q].kids :
                     /\ procs'[q].kids[j] = procs[q].kids[i]
                     /\ i = IF q = p THEN Moved(j, k) ELSE j
                     /\ q = p => i # k
           /\ \A q \in DOMAIN procs' : \A i \in DOMAIN procs[q].kids :
                 q # p \/ i # k =>
                     \E j \in DOMAIN procs'[q].kids : procs'[q].kids[j] = procs[q].kids[i]
<1> DEFINE n == Len(procs[p].kids)
<1>1. p # procs[p].kids[k].pid /\ p \in DOMAIN procs'
  BY NotOwnKid DEF Core, Dropped
<1>2. Shaped(procs[p]) /\ DOMAIN procs[p].kids = 1..n /\ n \in Nat /\ k \in 1..n
  BY KidDomain DEF Shape
<1>3. DOMAIN s.kids = 1..(n - 1) /\ procs'[p] = s
  BY KidDomain DEF Dropped
<1>4. \A q \in DOMAIN procs' : procs'[q].name = procs[q].name
  BY DEF Dropped
<1>5. ASSUME NEW q \in DOMAIN procs', NEW j \in DOMAIN procs'[q].kids
      PROVE  \E i \in DOMAIN procs[q].kids :
                 /\ procs'[q].kids[j] = procs[q].kids[i]
                 /\ i = IF q = p THEN Moved(j, k) ELSE j
                 /\ q = p => i # k
  <2>1. CASE q # p
    BY <2>1 DEF Dropped
  <2>2. CASE q = p
    <3>1. j \in 1..(n - 1)
      BY <1>3, <2>2
    <3>2. Moved(j, k) \in 1..n /\ Moved(j, k) # k
      BY <1>2, <3>1 DEF Moved
    <3>3. procs'[p].kids[j] = procs[p].kids[Moved(j, k)]
      BY <1>3, <3>1 DEF Dropped
    <3>4. QED  BY <1>2, <2>2, <3>2, <3>3
  <2>3. QED  BY <2>1, <2>2
<1>6. ASSUME NEW q \in DOMAIN procs', NEW i \in DOMAIN procs[q].kids, q # p \/ i # k
      PROVE  \E j \in DOMAIN procs'[q].kids : procs'[q].kids[j] = procs[q].kids[i]
  <2>1. CASE q # p
    BY <2>1 DEF Dropped
  <2>2. CASE q = p /\ i < k
    <3>1. i \in 1..(n - 1) /\ Moved(i, k) = i
      BY <1>2, <2>2 DEF Moved
    <3>2. procs'[p].kids[i] = procs[p].kids[Moved(i, k)]
      BY <1>3, <3>1 DEF Dropped
    <3>3. QED  BY <1>3, <2>2, <3>1, <3>2
  <2>3. CASE q = p /\ i > k
    <3>1. i - 1 \in 1..(n - 1) /\ Moved(i - 1, k) = i
      BY <1>2, <2>3 DEF Moved
    <3>2. procs'[p].kids[i - 1] = procs[p].kids[Moved(i - 1, k)]
      BY <1>3, <3>1 DEF Dropped
    <3>3. QED  BY <1>3, <2>3, <3>1, <3>2
  <2>4. QED  BY <1>2, <1>6, <2>1, <2>2, <2>3
<1>7. QED  BY <1>1, <1>4, <1>5, <1>6

(* The tree is one without the child.                                      *)
LEMMA DropTree ==
    ASSUME Shape, Core, Root \in DOMAIN procs,
           NEW p \in DOMAIN procs, NEW k \in DOMAIN procs[p].kids,
           NEW s, Dropped(p, s, k), Shaped(s), s.alive,
           procs[procs[p].kids[k].pid].kids = <<>>
    PROVE  TreeInv' /\ (\A q \in DOMAIN procs' : KidPids(procs', q) \subseteq KidPids(procs, q))
<1> DEFINE r == procs[p].kids[k].pid
<1>1. r \in DOMAIN procs /\ r # p /\ r # Root
  BY NotOwnKid DEF Core
<1>2. /\ p \in DOMAIN procs'
      /\ \A q \in DOMAIN procs' : procs'[q].name = procs[q].name
      /\ \A q \in DOMAIN procs' : \A j \in DOMAIN procs'[q].kids :
            \E i \in DOMAIN procs[q].kids :
                /\ procs'[q].kids[j] = procs[q].kids[i]
                /\ i = IF q = p THEN Moved(j, k) ELSE j
                /\ q = p => i # k
      /\ \A q \in DOMAIN procs' : \A i \in DOMAIN procs[q].kids :
            q # p \/ i # k =>
                \E j \in DOMAIN procs'[q].kids : procs'[q].kids[j] = procs[q].kids[i]
  BY DropKids
<1>3. DOMAIN procs' = DOMAIN procs \ {r} /\ DOMAIN procs' \subseteq DOMAIN procs
  BY DEF Dropped
<1>4. \A q \in DOMAIN procs' : KidPids(procs', q) \subseteq KidPids(procs, q)
  BY <1>2 DEF KidPids
<1> HIDE DEF r
<1>5. KidInv'
  <2> SUFFICES ASSUME NEW q \in DOMAIN procs', NEW j \in DOMAIN procs'[q].kids
               PROVE  /\ procs'[q].kids[j].pid \in DOMAIN procs' \ {Root}
                      /\ procs'[procs'[q].kids[j].pid].name = procs'[q].kids[j].name
    BY DEF KidInv
  <2>1. PICK i \in DOMAIN procs[q].kids :
            procs'[q].kids[j] = procs[q].kids[i] /\ (q = p => i # k)
    BY <1>2
  <2>2. q \in DOMAIN procs
    BY <1>3
  <2>3. /\ procs[q].kids[i].pid \in DOMAIN procs \ {Root}
        /\ procs[procs[q].kids[i].pid].name = procs[q].kids[i].name
    BY <2>2 DEF Core, TreeInv, KidInv
  <2>4. procs[q].kids[i].pid # r
    BY <2>1, <2>2 DEF Core, TreeInv, OneParent, r
  <2>5. QED  BY <1>2, <1>3, <2>1, <2>3, <2>4
<1>6. OneParent'
  <2> SUFFICES ASSUME NEW q \in DOMAIN procs', NEW x \in DOMAIN procs',
                      NEW i \in DOMAIN procs'[q].kids, NEW j \in DOMAIN procs'[x].kids,
                      procs'[q].kids[i].pid = procs'[x].kids[j].pid
               PROVE  q = x /\ i = j
    BY DEF OneParent
  <2>1. PICK i0 \in DOMAIN procs[q].kids :
            procs'[q].kids[i] = procs[q].kids[i0] /\ i0 = IF q = p THEN Moved(i, k) ELSE i
    BY <1>2
  <2>2. PICK j0 \in DOMAIN procs[x].kids :
            procs'[x].kids[j] = procs[x].kids[j0] /\ j0 = IF x = p THEN Moved(j, k) ELSE j
    BY <1>2
  <2>3. q \in DOMAIN procs /\ x \in DOMAIN procs
    BY <1>3
  <2>4. q = x /\ i0 = j0
    BY <2>1, <2>2, <2>3 DEF Core, TreeInv, OneParent
  <2>5. CASE q # p
    BY <2>1, <2>2, <2>4, <2>5
  <2>6. CASE q = p
    <3>1. i \in Nat /\ j \in Nat /\ k \in Nat
      BY <2>4, <2>6, KidDomain, <1>3 DEF Dropped, Shape
    <3>2. QED  BY <2>1, <2>2, <2>4, <2>6, <3>1 DEF Moved
  <2>7. QED  BY <2>5, <2>6
<1>7. ParentInv'
  <2> SUFFICES ASSUME NEW x \in DOMAIN procs' \ {Root}
               PROVE  \E q \in DOMAIN procs' : x \in KidPids(procs', q)
    BY DEF ParentInv
  <2>1. x \in DOMAIN procs /\ x # Root /\ x # r
    BY <1>3
  <2>2. PICK q \in DOMAIN procs : x \in KidPids(procs, q)
    BY <2>1 DEF Core, TreeInv, ParentInv
  <2>3. PICK i \in DOMAIN procs[q].kids : procs[q].kids[i].pid = x
    BY <2>2 DEF KidPids
  <2>4. q # r
    <3>1. DOMAIN procs[r].kids = {}
      BY DEF r
    <3>2. QED  BY <2>3, <3>1
  <2>5. q # p \/ i # k
    BY <2>1, <2>3 DEF r
  <2>6. PICK j \in DOMAIN procs'[q].kids : procs'[q].kids[j] = procs[q].kids[i]
    BY <1>2, <1>3, <2>4, <2>5
  <2>7. x \in KidPids(procs', q)
    BY <2>3, <2>6 DEF KidPids
  <2>8. QED  BY <1>3, <2>4, <2>7
<1>8. NameInv'
  BY <1>1, <1>2, <1>3 DEF Core, TreeInv, NameInv
<1>9. DeadInv'
  BY <1>3 DEF Core, TreeInv, DeadInv, Dropped
<1>10. Grounded'
  <2> SUFFICES ASSUME NEW S \in SUBSET (DOMAIN procs' \ {Root}), S # {}
               PROVE  \E x \in S : \A q \in DOMAIN procs' : x \in KidPids(procs', q) => q \notin S
    BY DEF Grounded
  <2>1. S \in SUBSET (DOMAIN procs \ {Root})
    BY <1>3
  <2>2. PICK x \in S : \A q \in DOMAIN procs : x \in KidPids(procs, q) => q \notin S
    BY <2>1 DEF Core, TreeInv, Grounded
  <2>3. QED  BY <1>3, <1>4, <2>2
<1>11. QED  BY <1>4, <1>5, <1>6, <1>7, <1>8, <1>9, <1>10 DEF TreeInv

(* The jobs are as before: the child had left, and its parent waited for   *)
(* it.                                                                     *)
LEMMA DropStep ==
    ASSUME Shape, Core, Root \in DOMAIN procs, UNCHANGED main,
           NEW p \in DOMAIN procs, NEW k \in DOMAIN procs[p].kids,
           NEW r, r = procs[p].kids[k].pid,
           NEW s, Dropped(p, s, k), Shaped(s), s.alive,
           Gone(procs[r]),
           p # Root => \A m : Serves(procs[p], m, main.at) => Serves(s, m, main.at),
           p = Root => RootServes(s),
           Busy(s) => Allowed(Task(s)),
           ~Free(procs[p]), WaitsFor(p, k), s.job.at # "wait"
    PROVE  Shape' /\ Core'
<1>1. r \in DOMAIN procs /\ r # p /\ r # Root
  BY NotOwnKid DEF Core
<1>2. TreeInv'
  BY DropTree DEF Gone
<1>3. DOMAIN procs' = DOMAIN procs \ {r} /\ p \in DOMAIN procs' /\ procs'[p] = s
      /\ \A q \in DOMAIN procs' : q # p => procs'[q] = procs[q]
  BY <1>1 DEF Dropped
<1>4. Shape'
  BY <1>3 DEF Shape
<1>5. ServedInv'
  <2> SUFFICES ASSUME NEW q \in DOMAIN procs', NEW j \in DOMAIN procs'[q].kids
               PROVE  LET kid == procs'[procs'[q].kids[j].pid]
                      IN  IF WaitsFor(q, j)' THEN Serves(kid, Asked(q, j)', main.at) ELSE Free(kid)
    BY DEF ServedInv
  <2>1. PICK i \in DOMAIN procs[q].kids :
            /\ procs'[q].kids[j] = procs[q].kids[i]
            /\ i = IF q = p THEN Moved(j, k) ELSE j
            /\ q = p => i # k
    BY DropKids
  <2> DEFINE x == procs[q].kids[i].pid
  <2>2. procs'[q].kids[j].pid = x /\ procs'[q].kids[j].name = procs[q].kids[i].name
    BY <2>1
  <2>3. q \in DOMAIN procs
    BY <1>3
  <2>4. IF WaitsFor(q, i) THEN Serves(procs[x], Asked(q, i), main.at) ELSE Free(procs[x])
    BY <2>3 DEF Core, ServedInv
  <2>5. x \in DOMAIN procs' /\ x # Root
    BY <1>2, <2>2 DEF TreeInv, KidInv
  <2> HIDE DEF x
  <2>6. CASE q = p
    <3>1. x # p
      BY <2>3, <2>6, NotOwnKid DEF Core, x
    <3>2. ~WaitsFor(q, i)
      BY <2>1, <2>6 DEF WaitsFor
    <3>3. Free(procs'[x]) /\ ~WaitsFor(q, j)'
      BY <1>3, <2>4, <2>5, <2>6, <3>1, <3>2 DEF WaitsFor
    <3>4. QED  BY <2>2, <3>3
  <2>7. CASE q # p /\ x = p
    <3>1. WaitsFor(q, i) /\ Serves(procs[p], Asked(q, i), main.at) /\ p # Root
      BY <2>4, <2>5, <2>7
    <3>2. Serves(s, Asked(q, i), main.at)
      BY <3>1
    <3>3. i = j /\ procs'[q] = procs[q]
      BY <1>3, <2>1, <2>7
    <3>4. WaitsFor(q, j)' /\ Asked(q, j)' = Asked(q, i)
      BY <3>1, <3>3 DEF WaitsFor, Asked
    <3>5. QED  BY <1>3, <2>2, <2>7, <3>2, <3>4
  <2>8. CASE q # p /\ x # p
    <3>1. i = j /\ procs'[q] = procs[q] /\ procs'[x] = procs[x]
      BY <1>3, <2>1, <2>5, <2>8
    <3>2. (WaitsFor(q, j)' <=> WaitsFor(q, i)) /\ Asked(q, j)' = Asked(q, i)
      BY <3>1 DEF WaitsFor, Asked
    <3>3. QED  BY <2>2, <2>4, <3>1, <3>2
  <2>9. QED  BY <2>6, <2>7, <2>8
<1>6. RootInv'
  <2>1. CASE p = Root
    <3>1. main.at # "idle"
      BY <2>1 DEF Core, RootInv
    <3>2. QED  BY <1>3, <2>1, <3>1 DEF RootInv
  <2>2. CASE p # Root
    <3>1. procs'[Root] = procs[Root]
      BY <1>1, <1>3, <2>2
    <3>2. QED  BY <3>1 DEF Core, RootInv
  <2>3. QED  BY <2>1, <2>2
<1>7. OneActive'
  <2>1. \A q \in DOMAIN procs : q # r => ~Active(procs[q])
    BY <1>1 DEF Core, OneActive, Active, Gone
  <2>2. \A q \in DOMAIN procs' : q # p => ~Active(procs'[q])
    BY <1>3, <2>1
  <2>3. QED  BY <2>2 DEF OneActive
<1>8. CmdInv'
  <2>1. \A m : Allowed(m)' <=> Allowed(m)
    BY DEF Allowed
  <2>2. QED  BY <1>3, <2>1 DEF Core, CmdInv
<1>9. QED  BY <1>2, <1>4, <1>5, <1>6, <1>7, <1>8 DEF Core

-----------------------------------------------------------------------------
(* A new friend.                                                           *)

(* The process p has a new child n.                                        *)
NewAt(p, s, n, t) ==
    /\ DOMAIN procs' = DOMAIN procs \cup {n}
    /\ procs'[p] = s
    /\ procs'[n] = t
    /\ \A q \in DOMAIN procs : q # p => procs'[q] = procs[q]

(* The tree is one with the new child, the last one of its parent.         *)
LEMMA MeetTree ==
    ASSUME Shape, TreeInv, Root \in DOMAIN procs,
           NEW p \in DOMAIN procs, NEW n \in Pids \ DOMAIN procs, NEW kid \in KidRecords,
           NEW s, NEW t, NewAt(p, s, n, t),
           Shaped(s), s.name = procs[p].name, s.alive,
           s.kids = Append(procs[p].kids, kid),
           Shaped(t), t.kids = <<>>, t.name = kid.name, kid.pid = n,
           Fresh(kid.name)
    PROVE  /\ Shape' /\ TreeInv'
           /\ \A q \in DOMAIN procs : \A i \in DOMAIN procs[q].kids :
                 i \in DOMAIN procs'[q].kids /\ procs'[q].kids[i] = procs[q].kids[i]
           /\ \A q \in DOMAIN procs' : \A i \in DOMAIN procs'[q].kids :
                 \/ /\ q \in DOMAIN procs /\ i \in DOMAIN procs[q].kids
                    /\ procs'[q].kids[i] = procs[q].kids[i]
                 \/ q = p /\ procs'[q].kids[i] = kid /\ i = Len(procs[p].kids) + 1
<1> DEFINE m == Len(procs[p].kids)
<1>1. n # p /\ n # Root /\ n \notin DOMAIN procs
  OBVIOUS
<1>2. Shaped(procs[p]) /\ DOMAIN procs[p].kids = 1..m /\ m \in Nat
      /\ procs[p].kids \in Seq(KidRecords)
  BY KidDomain DEF Shape, Shaped
<1>3. /\ DOMAIN s.kids = 1..(m + 1)
      /\ \A i \in 1..m : s.kids[i] = procs[p].kids[i]
      /\ s.kids[m + 1] = kid
  BY <1>2
<1>4. DOMAIN t.kids = {}
  OBVIOUS
<1>5. /\ DOMAIN procs' = DOMAIN procs \cup {n} /\ procs'[p] = s /\ procs'[n] = t
      /\ \A q \in DOMAIN procs : q # p => procs'[q] = procs[q]
  BY DEF NewAt
<1>6. Shape'
  BY <1>5 DEF Shape
<1>7. ASSUME NEW q \in DOMAIN procs, NEW i \in DOMAIN procs[q].kids
      PROVE  i \in DOMAIN procs'[q].kids /\ procs'[q].kids[i] = procs[q].kids[i]
  <2>1. CASE q # p
    BY <1>5, <2>1
  <2>2. CASE q = p
    BY <1>2, <1>3, <1>5, <2>2
  <2>3. QED  BY <2>1, <2>2
<1>8. ASSUME NEW q \in DOMAIN procs', NEW i \in DOMAIN procs'[q].kids
      PROVE  \/ /\ q \in DOMAIN procs /\ i \in DOMAIN procs[q].kids
                /\ procs'[q].kids[i] = procs[q].kids[i]
             \/ q = p /\ procs'[q].kids[i] = kid /\ i = m + 1
  <2>1. CASE q = n
    BY <1>4, <1>5, <2>1
  <2>2. CASE q \in DOMAIN procs /\ q # p
    BY <1>5, <2>2
  <2>3. CASE q = p
    <3>1. i \in 1..(m + 1)
      BY <1>3, <1>5, <2>3
    <3>2. CASE i \in 1..m
      BY <1>2, <1>3, <1>5, <2>3, <3>2
    <3>3. CASE i = m + 1
      BY <1>3, <1>5, <2>3, <3>3
    <3>4. QED  BY <1>2, <3>1, <3>2, <3>3
  <2>4. QED  BY <1>5, <2>1, <2>2, <2>3
<1> HIDE DEF m
<1>9. \A q \in DOMAIN procs : procs'[q].name = procs[q].name
  BY <1>5
<1>10. KidInv'
  <2> SUFFICES ASSUME NEW q \in DOMAIN procs', NEW i \in DOMAIN procs'[q].kids
               PROVE  /\ procs'[q].kids[i].pid \in DOMAIN procs' \ {Root}
                      /\ procs'[procs'[q].kids[i].pid].name = procs'[q].kids[i].name
    BY DEF KidInv
  <2>1. CASE q \in DOMAIN procs /\ i \in DOMAIN procs[q].kids
             /\ procs'[q].kids[i] = procs[q].kids[i]
    <3>1. /\ procs[q].kids[i].pid \in DOMAIN procs \ {Root}
          /\ procs[procs[q].kids[i].pid].name = procs[q].kids[i].name
      BY <2>1 DEF TreeInv, KidInv
    <3>2. QED  BY <1>5, <1>9, <2>1, <3>1
  <2>2. CASE q = p /\ procs'[q].kids[i] = kid
    BY <1>1, <1>5, <2>2
  <2>3. QED  BY <1>8, <2>1, <2>2
<1>11. OneParent'
  <2> SUFFICES ASSUME NEW q \in DOMAIN procs', NEW x \in DOMAIN procs',
                      NEW i \in DOMAIN procs'[q].kids, NEW j \in DOMAIN procs'[x].kids,
                      procs'[q].kids[i].pid = procs'[x].kids[j].pid
               PROVE  q = x /\ i = j
    BY DEF OneParent
  <2>1. \A y \in DOMAIN procs : \A l \in DOMAIN procs[y].kids : procs[y].kids[l].pid # n
    BY <1>1 DEF TreeInv, KidInv
  <2>2. CASE q \in DOMAIN procs /\ i \in DOMAIN procs[q].kids
             /\ procs'[q].kids[i] = procs[q].kids[i]
    <3>1. x \in DOMAIN procs /\ j \in DOMAIN procs[x].kids
          /\ procs'[x].kids[j] = procs[x].kids[j]
      BY <1>8, <2>1, <2>2
    <3>2. QED  BY <2>2, <3>1 DEF TreeInv, OneParent
  <2>3. CASE q = p /\ procs'[q].kids[i] = kid /\ i = m + 1
    <3>1. ~(x \in DOMAIN procs /\ j \in DOMAIN procs[x].kids
            /\ procs'[x].kids[j] = procs[x].kids[j])
      BY <2>1, <2>3
    <3>2. QED  BY <1>8, <2>3, <3>1
  <2>4. QED  BY <1>8, <2>2, <2>3
<1>12. ParentInv'
  <2> SUFFICES ASSUME NEW x \in DOMAIN procs' \ {Root}
               PROVE  \E q \in DOMAIN procs' : x \in KidPids(procs', q)
    BY DEF ParentInv
  <2>1. CASE x = n
    <3>1. m + 1 \in DOMAIN procs'[p].kids /\ procs'[p].kids[m + 1].pid = n
      BY <1>2, <1>3, <1>5
    <3>2. n \in KidPids(procs', p)
      BY <3>1 DEF KidPids
    <3>3. QED  BY <1>5, <2>1, <3>2
  <2>2. CASE x # n
    <3>1. PICK q \in DOMAIN procs : x \in KidPids(procs, q)
      BY <1>5, <2>2 DEF TreeInv, ParentInv
    <3>2. x \in KidPids(procs', q)
      BY <1>7, <3>1 DEF KidPids
    <3>3. QED  BY <1>5, <3>2
  <2>3. QED  BY <2>1, <2>2
<1>13. NameInv'
  BY <1>1, <1>5, <1>9 DEF TreeInv, NameInv, Fresh
<1>14. DeadInv'
  BY <1>5 DEF TreeInv, DeadInv
<1>15. Grounded'
  <2> SUFFICES ASSUME NEW S \in SUBSET (DOMAIN procs' \ {Root}), S # {}
               PROVE  \E x \in S : \A q \in DOMAIN procs' : x \in KidPids(procs', q) => q \notin S
    BY DEF Grounded
  <2>1. KidPids(procs', n) = {}
    BY <1>4, <1>5 DEF KidPids
  <2>2. \A q \in DOMAIN procs : q # p => KidPids(procs', q) = KidPids(procs, q)
    BY <1>5 DEF KidPids
  <2>3. KidPids(procs', p) \subseteq KidPids(procs, p) \cup {n}
    <3> SUFFICES ASSUME NEW y \in KidPids(procs', p) PROVE y \in KidPids(procs, p) \cup {n}
      OBVIOUS
    <3>1. PICK i \in DOMAIN procs'[p].kids : procs'[p].kids[i].pid = y
      BY DEF KidPids
    <3>2. \/ i \in DOMAIN procs[p].kids /\ procs'[p].kids[i] = procs[p].kids[i]
          \/ procs'[p].kids[i] = kid
      BY <1>5, <1>8
    <3>3. QED  BY <3>1, <3>2 DEF KidPids
  <2>4. n \notin KidPids(procs, p)
    BY <1>1 DEF TreeInv, KidInv, KidPids
  <2>5. CASE S = {n}
    <3>1. \A q \in DOMAIN procs' : n \in KidPids(procs', q) => q \notin S
      BY <2>1, <2>5
    <3>2. QED  BY <2>5, <3>1
  <2>6. CASE S # {n}
    <3>1. S \ {n} \in SUBSET (DOMAIN procs \ {Root}) /\ S \ {n} # {}
      BY <1>5, <2>6
    <3>2. PICK x \in S \ {n} : \A q \in DOMAIN procs : x \in KidPids(procs, q) => q \notin S \ {n}
      BY <3>1 DEF TreeInv, Grounded
    <3>3. ASSUME NEW q \in DOMAIN procs', x \in KidPids(procs', q)
          PROVE  q \notin S
      <4>1. q # n
        BY <2>1, <3>3
      <4>2. q \in DOMAIN procs
        BY <1>5, <4>1
      <4>3. x \in KidPids(procs, q)
        BY <2>2, <2>3, <3>2, <3>3, <4>2
      <4>4. QED  BY <3>2, <4>1, <4>2, <4>3
    <3>4. QED  BY <3>2, <3>3
  <2>7. QED  BY <2>5, <2>6
<1>16. QED  BY <1>6, <1>7, <1>8, <1>10, <1>11, <1>12, <1>13, <1>14, <1>15 DEF TreeInv, m

(* The jobs are as before, and the new friend is free.                     *)
LEMMA MeetStep ==
    ASSUME Shape, Core, Root \in DOMAIN procs, UNCHANGED main,
           NEW p \in DOMAIN procs, NEW n \in Pids \ DOMAIN procs, NEW kid \in KidRecords,
           NEW s, NEW t, NewAt(p, s, n, t),
           Shaped(s), s.name = procs[p].name, s.alive,
           s.kids = Append(procs[p].kids, kid),
           Shaped(t), Free(t), t.kids = <<>>, t.name = kid.name, kid.pid = n,
           Fresh(kid.name),
           Active(procs[p]), procs[p].job.at # "wait", s.job.at # "wait",
           p # Root => \A m : Serves(procs[p], m, main.at) => Serves(s, m, main.at),
           p = Root => RootServes(s),
           Busy(s) => Allowed(Task(s))
    PROVE  Shape' /\ Core'
<1>1. /\ Shape' /\ TreeInv'
      /\ \A q \in DOMAIN procs' : \A i \in DOMAIN procs'[q].kids :
            \/ /\ q \in DOMAIN procs /\ i \in DOMAIN procs[q].kids
               /\ procs'[q].kids[i] = procs[q].kids[i]
            \/ q = p /\ procs'[q].kids[i] = kid /\ i = Len(procs[p].kids) + 1
  BY MeetTree DEF Core
<1>2. /\ DOMAIN procs' = DOMAIN procs \cup {n} /\ procs'[p] = s /\ procs'[n] = t
      /\ \A q \in DOMAIN procs : q # p => procs'[q] = procs[q]
      /\ n # p /\ n # Root
  BY DEF NewAt
<1>3. ServedInv'
  <2> SUFFICES ASSUME NEW q \in DOMAIN procs', NEW i \in DOMAIN procs'[q].kids
               PROVE  LET kid2 == procs'[procs'[q].kids[i].pid]
                      IN  IF WaitsFor(q, i)' THEN Serves(kid2, Asked(q, i)', main.at) ELSE Free(kid2)
    BY DEF ServedInv
  <2>1. CASE q = p /\ procs'[q].kids[i] = kid
    <3>1. procs'[procs'[q].kids[i].pid] = t /\ ~WaitsFor(q, i)'
      BY <1>2, <2>1 DEF WaitsFor
    <3>2. QED  BY <3>1
  <2>2. CASE q \in DOMAIN procs /\ i \in DOMAIN procs[q].kids
             /\ procs'[q].kids[i] = procs[q].kids[i]
    <3> DEFINE x == procs[q].kids[i].pid
    <3>1. x # q /\ x \in DOMAIN procs /\ x # Root
      BY <2>2, NotOwnKid DEF Core
    <3>2. IF WaitsFor(q, i) THEN Serves(procs[x], Asked(q, i), main.at) ELSE Free(procs[x])
      BY <2>2 DEF Core, ServedInv
    <3>3. procs'[q].kids[i].pid = x /\ procs'[q].kids[i].name = procs[q].kids[i].name
      BY <2>2
    <3> HIDE DEF x
    <3>4. CASE q = p
      <4>1. ~WaitsFor(q, i) /\ ~WaitsFor(q, i)' /\ procs'[x] = procs[x]
        BY <1>2, <3>1, <3>4 DEF WaitsFor
      <4>2. QED  BY <3>2, <3>3, <4>1
    <3>5. CASE q # p /\ x = p
      <4>1. WaitsFor(q, i) /\ Serves(procs[p], Asked(q, i), main.at) /\ p # Root
        BY <3>1, <3>2, <3>5, FreeFacts
      <4>2. Serves(s, Asked(q, i), main.at)
        BY <4>1
      <4>3. procs'[q] = procs[q]
        BY <1>2, <2>2, <3>5
      <4>4. WaitsFor(q, i)' /\ Asked(q, i)' = Asked(q, i)
        BY <4>1, <4>3 DEF WaitsFor, Asked
      <4>5. QED  BY <1>2, <3>3, <3>5, <4>2, <4>4
    <3>6. CASE q # p /\ x # p
      <4>1. procs'[q] = procs[q] /\ procs'[x] = procs[x]
        BY <1>2, <2>2, <3>1, <3>6
      <4>2. (WaitsFor(q, i)' <=> WaitsFor(q, i)) /\ Asked(q, i)' = Asked(q, i)
        BY <4>1 DEF WaitsFor, Asked
      <4>3. QED  BY <3>2, <3>3, <4>1, <4>2
    <3>7. QED  BY <3>4, <3>5, <3>6
  <2>3. QED  BY <1>1, <2>1, <2>2
<1>4. RootInv'
  <2>1. CASE p = Root
    <3>1. main.at # "idle"
      BY <2>1, FreeFacts DEF Core, RootInv
    <3>2. QED  BY <1>2, <2>1, <3>1 DEF RootInv
  <2>2. CASE p # Root
    <3>1. procs'[Root] = procs[Root]
      BY <1>2, <2>2
    <3>2. QED  BY <3>1 DEF Core, RootInv
  <2>3. QED  BY <2>1, <2>2
<1>5. OneActive'
  <2>1. \A q \in DOMAIN procs : q # p => ~Active(procs[q])
    BY DEF Core, OneActive
  <2>2. \A q \in DOMAIN procs' : q # p => ~Active(procs'[q])
    BY <1>2, <2>1, FreeFacts
  <2>3. QED  BY <2>2 DEF OneActive
<1>6. CmdInv'
  <2>1. \A m : Allowed(m)' <=> Allowed(m)
    BY DEF Allowed
  <2>2. QED  BY <1>2, <2>1, FreeFacts DEF Core, CmdInv
<1>7. QED  BY <1>1, <1>3, <1>4, <1>5, <1>6 DEF Core

-----------------------------------------------------------------------------
(* What is known of the command that is about.                             *)

(* Who has nothing to do says nothing.                                     *)
LEMMA Inactive ==
    ASSUME Shape, LiveInv, NEW p \in DOMAIN procs, ~Active(procs[p])
    PROVE  /\ procs[p].up = <<>> /\ procs[p].down = <<>> /\ procs[p].alive
           /\ procs[p].job.say = <<>> /\ procs[p].job.at \in {"idle", "wait"}
<1>1. ByJob(procs[p])
  BY KnownByJob
<1>2. procs[p].alive \in BOOLEAN
  BY DEF Shape, Shaped
<1>3. QED  BY <1>1, <1>2, IdleFields DEF Active, ByJob, Working

(* Only one process can say that somebody has been met.                    *)
LEMMA NotMet ==
    ASSUME Shape, LiveInv, NEW p \in DOMAIN procs, Active(procs[p]),
           procs[p].up # Success, procs[p].job.say # <<Success>>
    PROVE  ~Met
<1>1. ASSUME NEW q \in DOMAIN procs, q # p
      PROVE  procs[q].up # Success /\ procs[q].job.say # <<Success>>
  <2>1. ~Active(procs[q])
    BY <1>1 DEF LiveInv, Core, OneActive
  <2>2. QED  BY <2>1, Inactive, Words
<1>2. QED  BY <1>1 DEF Met

(* Steps that leave the tree and the fifo as they are.                     *)
LEMMA PhaseStep ==
    ASSUME Shape, LiveInv, SameTree, UNCHANGED <<main, fifo>>, Root \in DOMAIN procs,
           NEW Q \in SUBSET DOMAIN procs,
           \A q \in DOMAIN procs \ Q : procs'[q] = procs[q],
           main.at \in {"meet", "rebuild"} =>
               \A q \in Q : Busy(procs'[q]) =>
                   \E x \in DOMAIN procs :
                       Busy(procs[x]) /\ Task(procs'[q])[3] = Task(procs[x])[3],
           main.at \in {"meet", "rebuild"} /\ Met => Met',
           main.at = "find" =>
               \A q \in Q : /\ procs'[q].value = procs[q].value
                            /\ Finds(q, procs'[q].up)
                            /\ procs'[q].job.say # <<>> => Finds(q, procs'[q].job.say[1]),
           main.at = "adopt" => \A q \in Q : BeAdopts(q, procs'[q]),
           Root \in Q /\ main.at = "adopt" => RootAdopts(procs'[Root]),
           Root \in Q /\ main.at = "free" => RootFrees(procs'[Root])
    PROVE  PhaseInv'
<1>1. /\ DOMAIN procs' = DOMAIN procs /\ main' = main /\ fifo' = fifo
      /\ \A q \in DOMAIN procs : procs'[q].name = procs[q].name
  BY DEF SameTree
<1>2. \A n : Fresh(n)' <=> Fresh(n)
  BY <1>1 DEF Fresh
<1>3. ASSUME main.at \in {"meet", "rebuild"}, NEW q \in DOMAIN procs, Busy(procs'[q])
      PROVE  \E x \in DOMAIN procs : Busy(procs[x]) /\ Task(procs'[q])[3] = Task(procs[x])[3]
  BY <1>3
<1>4. FreshInv'
  <2> SUFFICES ASSUME main.at \in {"meet", "rebuild"}, NEW q \in DOMAIN procs, Busy(procs'[q])
               PROVE  Met' \/ Fresh(Task(procs[q])[3])'
    BY <1>1 DEF FreshInv
  <2>1. PICK x \in DOMAIN procs : Busy(procs[x]) /\ Task(procs'[q])[3] = Task(procs[x])[3]
    BY <1>3
  <2>2. Met \/ Fresh(Task(procs[x])[3])
    BY <2>1 DEF LiveInv, PhaseInv, FreshInv
  <2>3. CASE Met
    BY <2>3
  <2>4. CASE Fresh(Task(procs[x])[3])
    <3>1. \A y \in DOMAIN procs : procs'[y].name # Task(procs'[q])[3]
      BY <1>1, <2>1, <2>4 DEF Fresh
    <3>2. QED  BY <1>1, <3>1 DEF Fresh
  <2>5. QED  BY <2>2, <2>3, <2>4
<1>5. TodoInv'
  <2> SUFFICES ASSUME main.at = "rebuild"
               PROVE  /\ main.todo \in Seq(Records)
                      /\ Different(main.todo)
                      /\ \A i \in DOMAIN main.todo :
                            /\ Fresh(main.todo[i][3])'
                            /\ \A q \in DOMAIN procs :
                                  Busy(procs'[q]) => Task(procs'[q])[3] # main.todo[i][3]
    BY <1>1 DEF TodoInv
  <2>1. /\ main.todo \in Seq(Records)
        /\ Different(main.todo)
        /\ \A i \in DOMAIN main.todo :
              /\ Fresh(main.todo[i][3])
              /\ \A q \in DOMAIN procs :
                    Busy(procs[q]) => Task(procs[q])[3] # main.todo[i][3]
    BY DEF LiveInv, PhaseInv, TodoInv
  <2>2. ASSUME NEW i \in DOMAIN main.todo, NEW q \in DOMAIN procs, Busy(procs'[q])
        PROVE  Task(procs'[q])[3] # main.todo[i][3]
    BY <1>3, <2>1, <2>2
  <2>3. \A i \in DOMAIN main.todo : Fresh(main.todo[i][3])'
    BY <1>1, <2>1 DEF Fresh
  <2>4. QED  BY <2>1, <2>2, <2>3
<1>6. FindInv'
  <2> SUFFICES ASSUME main.at = "find"
               PROVE  FindInv'
    BY <1>1 DEF FindInv
  <2>1. \A r, p, c : Leads(r, p, c)' <=> Leads(r, p, c)
    BY WayStays
  <2>2. \A q \in DOMAIN procs :
            /\ Finds(q, procs'[q].up)
            /\ procs'[q].job.say # <<>> => Finds(q, procs'[q].job.say[1])
    BY DEF LiveInv, PhaseInv, FindInv
  <2>3. \A q, reply : Finds(q, reply)' <=> Finds(q, reply)
    BY <1>1, <2>1 DEF Finds
  <2>4. \A q \in DOMAIN procs :
            /\ Finds(q, procs[q].up)'
            /\ procs'[q].job.say # <<>> => Finds(q, procs[q].job.say[1])'
    BY <1>1, <2>1, <2>2 DEF Finds
  <2>5. \A q \in DOMAIN procs : procs'[q].value = procs[q].value
    OBVIOUS
  <2>6. /\ DOMAIN procs'[Root].kids = DOMAIN procs[Root].kids
        /\ \A i \in DOMAIN procs[Root].kids : procs'[Root].kids[i].name = procs[Root].kids[i].name
    BY DEF SameTree
  <2>7. /\ main.cmd[2] # main.cmd[3]
        /\ fifo.records = <<>>
        /\ \A p \in DOMAIN procs : procs[p].name = main.cmd[2] => procs[p].value # 0
        /\ \/ \E i \in DOMAIN procs[Root].kids : procs[Root].kids[i].name = main.cmd[3]
           \/ ~Leads(Root, main.cmd[2], main.cmd[3])
    BY DEF LiveInv, PhaseInv, FindInv
  <2>8. \/ \E i \in DOMAIN procs'[Root].kids : procs'[Root].kids[i].name = main.cmd[3]
        \/ ~Leads(Root, main.cmd[2], main.cmd[3])'
    BY <1>1, <2>1, <2>6, <2>7
  <2>9. QED  BY <1>1, <2>4, <2>5, <2>7, <2>8 DEF FindInv
<1>7. RecordInv'
  <2>1. \A q \in DOMAIN procs : KidPids(procs', q) = KidPids(procs, q)
    BY SameKidPids
  <2>2. \A n : Recorded(n)' <=> Recorded(n)
    BY <1>1 DEF Recorded
  <2>3. QED  BY <1>1, <2>1, <2>2 DEF LiveInv, PhaseInv, RecordInv, SameTree, Recorded
<1>8. BeAdoptInv'
  <2> SUFFICES ASSUME main.at = "adopt", NEW q \in DOMAIN procs
               PROVE  BeAdopts(q, procs[q])'
    BY <1>1 DEF BeAdoptInv
  <2>1. BeAdopts(q, procs'[q])
    BY DEF LiveInv, PhaseInv, BeAdoptInv
  <2>2. \A i : Unrecorded(q, i)' <=> Unrecorded(q, i)
    BY <1>1 DEF Unrecorded, Recorded, SameTree
  <2>3. \A n : Recorded(n)' <=> Recorded(n)
    BY <1>1 DEF Recorded
  <2>4. Recorded(procs[q].name)' <=> Recorded(procs'[q].name)
    BY <1>1 DEF Recorded
  <2>5. QED  BY <1>1, <2>1, <2>2, <2>4 DEF BeAdopts
<1>9. RootAdoptInv'
  <2>1. main.at = "adopt" => RootAdopts(procs'[Root])
    BY DEF LiveInv, PhaseInv, RootAdoptInv
  <2>2. QED  BY <1>1, <2>1 DEF RootAdoptInv, RootAdopts, NotYetAsked
<1>10. FreeInv'
  <2>1. main.at = "free" => RootFrees(procs'[Root])
    BY DEF LiveInv, PhaseInv, FreeInv
  <2>2. QED  BY <1>1, <2>1 DEF FreeInv, RootFrees, Fresh
<1>11. QED  BY <1>4, <1>5, <1>6, <1>7, <1>8, <1>9, <1>10 DEF PhaseInv

-----------------------------------------------------------------------------
(* A process reads a command.                                              *)

(* A process that reads a command has nothing else to do.                  *)
LEMMA HearShape ==
    ASSUME Shape, LiveInv, NEW p \in DOMAIN procs, Hears(p)
    PROVE  /\ Hearing(procs[p]) /\ Busy(procs[p]) /\ Active(procs[p]) /\ ~Free(procs[p])
           /\ Heard(p) = Task(procs[p]) /\ Allowed(Heard(p))
           /\ procs[p].job.at = "idle" /\ procs[p].alive
           /\ procs[p].up = <<>> /\ procs[p].job.say = <<>>
           /\ ~Met
<1>1. procs[p].down # <<>> /\ procs[p].job.at = "idle"
  BY DEF Hears
<1>2. Hearing(procs[p])
  BY <1>1, KnownByJob DEF ByJob
<1>3. Busy(procs[p]) /\ Active(procs[p]) /\ ~Free(procs[p])
  BY <1>1 DEF Busy, Active, Free
<1>4. Heard(p) = Task(procs[p])
  <2>1. procs[p].down = <<procs[p].down[1]>>
    BY <1>2 DEF Hearing, OneMessage
  <2>2. Len(procs[p].down) = 1
    BY <2>1
  <2>3. FirstOf(procs[p].down) = procs[p].down[1]
    BY <2>2 DEF FirstOf
  <2>4. QED  BY <1>1, <2>3 DEF Heard, Task
<1>5. Allowed(Heard(p))
  BY <1>3, <1>4 DEF LiveInv, Core, CmdInv
<1>6. procs[p].up = <<>> /\ procs[p].job.say = <<>> /\ procs[p].alive
  BY <1>2, IdleFields DEF Hearing
<1>7. ~Met
  BY <1>3, <1>6, NotMet, Words
<1>8. QED  BY <1>1, <1>2, <1>3, <1>4, <1>5, <1>6, <1>7

(* The words of the commands in each phase.                                *)
LEMMA AllowedWords ==
    ASSUME NEW m, Allowed(m)
    PROVE  /\ m[1] \in {"Meet", "Check", "Collect", "checkForGraduate", "graduate",
                        "findValue", "Adopt", "beAdopt"}
           /\ m[1] = "Meet" <=> main.at \in {"meet", "rebuild"}
           /\ m[1] \in {"Check", "Collect"} <=> main.at = "check"
           /\ m[1] \in {"checkForGraduate", "graduate"} <=> main.at \in {"graduate", "free"}
           /\ m[1] = "findValue" <=> main.at = "find"
           /\ m[1] \in {"Adopt", "beAdopt"} <=> main.at = "adopt"
           /\ m[1] = "graduate" => m = <<"graduate">>
           /\ m[1] = "Collect" => m = <<"Collect">>
           /\ m[1] = "findValue" => m = <<"findValue", main.cmd[2], main.cmd[3]>>
           /\ m[1] = "checkForGraduate" /\ main.at = "free" =>
                  m = <<"checkForGraduate", main.cmd[3]>>
           /\ m[1] = "Adopt" => m = <<"Adopt", main.cmd[2], main.cmd[3], m[4]>> /\ m[4] \in Divisors
           /\ m[1] = "beAdopt" => m = <<"beAdopt", m[2]>> /\ m[2] \in Divisors
           /\ m[1] = "Meet" => m \in Records
           /\ main.at # "idle"
<1>1. \A r \in Records : r[1] = "Meet"
  BY DEF Records
<1>2. CASE main.at \in {"meet", "rebuild"} /\ m \in Records
  BY <1>1, <1>2
<1>3. CASE main.at = "check" /\ m = <<"Check", main.cmd[2]>>
  BY <1>3
<1>4. CASE main.at = "check" /\ m = <<"Collect">>
  BY <1>4
<1>5. CASE main.at = "graduate" /\ m = <<"checkForGraduate", main.cmd[2]>>
  BY <1>5
<1>6. CASE main.at \in {"graduate", "free"} /\ m = <<"graduate">>
  BY <1>6
<1>7. CASE main.at = "find" /\ m = <<"findValue", main.cmd[2], main.cmd[3]>>
  BY <1>7
<1>8. CASE main.at = "adopt" /\ m[1] = "Adopt" /\ m = <<"Adopt", main.cmd[2], main.cmd[3], m[4]>>
           /\ m[4] \in Divisors
  BY <1>8
<1>9. CASE main.at = "adopt" /\ m[1] = "beAdopt" /\ m = <<"beAdopt", m[2]>> /\ m[2] \in Divisors
  BY <1>9
<1>10. CASE main.at = "free" /\ m = <<"checkForGraduate", main.cmd[3]>>
  BY <1>10
<1>11. QED
  BY <1>2, <1>3, <1>4, <1>5, <1>6, <1>7, <1>8, <1>9, <1>10 DEF Allowed

(* The process begins to ask its children.                                 *)
LEMMA BeginStep ==
    ASSUME Shape, LiveInv, Root \in DOMAIN procs, UNCHANGED <<main, fifo>>,
           NEW p \in DOMAIN procs, Hears(p),
           NEW s, OnlyAt(p, s), Shaped(s), s.name = procs[p].name, s.kids = procs[p].kids,
           s.alive, s.down = <<>>, s.up = <<>>,
           s.job.cmd = Heard(p), s.job.at = "ask", s.job.k = 1, s.job.say = <<>>,
           s.job.success = TRUE,
           main.at = "find" => s.value = procs[p].value,
           main.at = "adopt" /\ Heard(p)[1] = "beAdopt" => s.job.fifo = fifo.id
    PROVE  Shape' /\ LiveInv'
<1>1. /\ Hearing(procs[p]) /\ Busy(procs[p]) /\ Active(procs[p]) /\ ~Free(procs[p])
      /\ Heard(p) = Task(procs[p]) /\ Allowed(Heard(p))
      /\ procs[p].job.at = "idle" /\ procs[p].alive /\ ~Met
  BY HearShape
<1>2. procs[p].down # <<>>
  BY DEF Hears
<1>3. Task(s) = Heard(p) /\ Busy(s)
  BY DEF Task, Busy
<1>4. Working(s)
  <2>1. Len(s.kids) \in Nat
    BY KidDomain
  <2>2. 1 \in 1..(Len(s.kids) + 1)
    BY <2>1
  <2>3. QED  BY <2>2 DEF Working
<1>5. \A m : Serves(procs[p], m, main.at) => Serves(s, m, main.at)
  BY <1>1, <1>2, <1>3, <1>4, IdleFields DEF Serves, Working, Saying, Leaving, Replied, Gone
<1>6. RootServes(s)
  BY <1>4 DEF RootServes
<1>7. Shape' /\ SameTree /\ Core'
  <2>1. Core /\ procs[p].job.at # "wait" /\ s.job.at # "wait"
    BY <1>1 DEF LiveInv
  <2>2. QED  BY <1>1, <1>3, <1>5, <1>6, <2>1, LocalStep
<1>8. PhaseInv'
  <2>1. main.at \in {"meet", "rebuild"} =>
            \A q \in {p} : Busy(procs'[q]) =>
                \E x \in DOMAIN procs :
                    Busy(procs[x]) /\ Task(procs'[q])[3] = Task(procs[x])[3]
    BY <1>1, <1>3 DEF OnlyAt
  <2>2. main.at \in {"meet", "rebuild"} /\ Met => Met'
    BY <1>1
  <2>3. main.at = "find" =>
            \A q \in {p} : /\ procs'[q].value = procs[q].value
                           /\ Finds(q, procs'[q].up)
                           /\ procs'[q].job.say # <<>> => Finds(q, procs'[q].job.say[1])
    BY DEF OnlyAt, Finds
  <2>4. main.at = "adopt" => \A q \in {p} : BeAdopts(q, procs'[q])
    <3>1. main.at = "adopt" => BeAdopts(p, procs[p])
      BY DEF LiveInv, PhaseInv, BeAdoptInv
    <3>2. QED  BY <1>1, <1>2, <1>3, <3>1 DEF BeAdopts, OnlyAt
  <2>5. Root \in {p} /\ main.at = "adopt" => RootAdopts(procs'[Root])
    <3>1. main.at = "adopt" => RootAdopts(procs[Root])
      BY DEF LiveInv, PhaseInv, RootAdoptInv
    <3>2. QED  BY <1>1, <1>2, <1>3, <3>1 DEF RootAdopts, NotYetAsked, OnlyAt
  <2>6. Root \in {p} /\ main.at = "free" => RootFrees(procs'[Root])
    <3>1. main.at = "free" => RootFrees(procs[Root])
      BY DEF LiveInv, PhaseInv, FreeInv
    <3>2. \A i \in DOMAIN s.kids : ~(i < 1)
      BY KidDomain
    <3>3. QED  BY <1>1, <1>3, <3>1, <3>2 DEF RootFrees, OnlyAt
  <2>7. {p} \in SUBSET DOMAIN procs /\ \A q \in DOMAIN procs \ {p} : procs'[q] = procs[q]
    BY DEF OnlyAt
  <2>8. QED  BY <1>7, <2>1, <2>2, <2>3, <2>4, <2>5, <2>6, <2>7, PhaseStep
<1>9. QED  BY <1>7, <1>8 DEF LiveInv

(* What Start makes of a process.                                          *)
JobShaped(job) ==
    /\ DOMAIN job = {"cmd", "at", "k", "success", "buf", "fifo", "say"}
    /\ job.at = "idle" => job = Idle

(* The process has read the command.                                       *)
LEMMA Started ==
    ASSUME Shape, NEW p \in DOMAIN procs, NEW job, JobShaped(job), NEW value \in Nat,
           \/ procs' = Start(p, job) /\ value = procs[p].value
           \/ procs' = [Start(p, job) EXCEPT ![p].value = value]
    PROVE  \E s : /\ OnlyAt(p, s) /\ Shaped(s) /\ s.name = procs[p].name
                  /\ s.kids = procs[p].kids /\ s.alive = procs[p].alive
                  /\ s.down = <<>> /\ s.up = procs[p].up /\ s.value = value
                  /\ s.job = job
<1>1. Shaped(procs[p])
  BY DEF Shape
<1>2. DOMAIN procs[p] = {"name", "value", "kids", "alive", "job", "down", "up"}
  BY <1>1 DEF Shaped
<1> DEFINE s == procs'[p]
<1>3. CASE procs' = Start(p, job) /\ value = procs[p].value
  <2>1. /\ DOMAIN s = DOMAIN procs[p] /\ s.name = procs[p].name /\ s.kids = procs[p].kids
        /\ s.alive = procs[p].alive /\ s.down = <<>> /\ s.up = procs[p].up /\ s.job = job
        /\ s.value = value
    BY <1>2, <1>3 DEF Start
  <2>2. OnlyAt(p, s)
    BY <1>3 DEF Start, OnlyAt
  <2> HIDE DEF s
  <2>3. Shaped(s)
    BY <1>1, <2>1 DEF Shaped, JobShaped
  <2>4. QED  BY <2>1, <2>2, <2>3
<1>4. CASE procs' = [Start(p, job) EXCEPT ![p].value = value]
  <2>1. /\ DOMAIN s = DOMAIN procs[p] /\ s.name = procs[p].name /\ s.kids = procs[p].kids
        /\ s.alive = procs[p].alive /\ s.down = <<>> /\ s.up = procs[p].up /\ s.job = job
        /\ s.value = value
    BY <1>2, <1>4 DEF Start
  <2>2. OnlyAt(p, s)
    BY <1>4 DEF Start, OnlyAt
  <2> HIDE DEF s
  <2>3. Shaped(s)
    BY <1>1, <2>1 DEF Shaped, JobShaped
  <2>4. QED  BY <2>1, <2>2, <2>3
<1>5. QED  BY <1>3, <1>4

(* Commands for somebody below; collect; graduate; be_adopted.             *)
LEMMA PassOnStep ==
    ASSUME Shape, LiveInv, Root \in DOMAIN procs, UNCHANGED <<main, fifo>>,
           NEW p \in DOMAIN procs, PassOn(p)
    PROVE  Shape' /\ LiveInv'
<1>1. Hears(p) /\ procs' = Start(p, Job(Heard(p))) /\ Heard(p)[1] # "beAdopt"
  BY DEF PassOn, Walks
<1>2. JobShaped(Job(Heard(p))) /\ procs[p].value \in Nat
  BY JobFields DEF JobShaped, Shape, Shaped
<1>3. PICK s : /\ OnlyAt(p, s) /\ Shaped(s) /\ s.name = procs[p].name
               /\ s.kids = procs[p].kids /\ s.alive = procs[p].alive
               /\ s.down = <<>> /\ s.up = procs[p].up /\ s.value = procs[p].value
               /\ s.job = Job(Heard(p))
  BY <1>1, <1>2, Started
<1>4. procs[p].alive /\ procs[p].up = <<>>
  BY <1>1, HearShape
<1>5. /\ s.job.cmd = Heard(p) /\ s.job.at = "ask" /\ s.job.k = 1 /\ s.job.say = <<>>
      /\ s.job.success = TRUE
  BY <1>3 DEF Job
<1>6. QED  BY <1>1, <1>3, <1>4, <1>5, BeginStep

LEMMA CollectStep ==
    ASSUME Shape, LiveInv, Root \in DOMAIN procs, UNCHANGED <<main, fifo>>,
           NEW p \in DOMAIN procs, Collect(p)
    PROVE  Shape' /\ LiveInv'
<1> DEFINE info == [name |-> procs[p].name, value |-> procs[p].value]
           job == [Job(<<"Collect">>) EXCEPT !.buf = << <<info>> >>]
<1>1. Hears(p) /\ procs' = Start(p, job) /\ Heard(p)[1] = "Collect"
  BY DEF Collect
<1>2. /\ DOMAIN job = {"cmd", "at", "k", "success", "buf", "fifo", "say"}
      /\ job.cmd = <<"Collect">> /\ job.at = "ask" /\ job.k = 1 /\ job.say = <<>>
      /\ job.success = TRUE
  BY DEF Job
<1> HIDE DEF job
<1>3. JobShaped(job) /\ procs[p].value \in Nat
  BY <1>2 DEF JobShaped, Shape, Shaped
<1>4. PICK s : /\ OnlyAt(p, s) /\ Shaped(s) /\ s.name = procs[p].name
               /\ s.kids = procs[p].kids /\ s.alive = procs[p].alive
               /\ s.down = <<>> /\ s.up = procs[p].up /\ s.value = procs[p].value
               /\ s.job = job
  BY <1>1, <1>3, Started
<1>5. procs[p].alive /\ procs[p].up = <<>> /\ Heard(p) = <<"Collect">>
  BY <1>1, HearShape, AllowedWords
<1>6. Heard(p)[1] # "beAdopt"
  BY <1>1
<1>7. QED  BY <1>1, <1>2, <1>4, <1>5, <1>6, BeginStep

LEMMA GraduateStep ==
    ASSUME Shape, LiveInv, Root \in DOMAIN procs, UNCHANGED <<main, fifo>>,
           NEW p \in DOMAIN procs, Graduate(p)
    PROVE  Shape' /\ LiveInv'
<1>1. Hears(p) /\ procs' = Start(p, Job(<<"graduate">>)) /\ Heard(p)[1] = "graduate"
  BY DEF Graduate
<1>2. JobShaped(Job(<<"graduate">>)) /\ procs[p].value \in Nat
  BY JobFields DEF JobShaped, Shape, Shaped
<1>3. PICK s : /\ OnlyAt(p, s) /\ Shaped(s) /\ s.name = procs[p].name
               /\ s.kids = procs[p].kids /\ s.alive = procs[p].alive
               /\ s.down = <<>> /\ s.up = procs[p].up /\ s.value = procs[p].value
               /\ s.job = Job(<<"graduate">>)
  BY <1>1, <1>2, Started
<1>4. procs[p].alive /\ procs[p].up = <<>> /\ Heard(p) = <<"graduate">>
  BY <1>1, HearShape, AllowedWords
<1>5. Heard(p)[1] # "beAdopt"
  BY <1>1
<1>6. /\ s.job.cmd = Heard(p) /\ s.job.at = "ask" /\ s.job.k = 1 /\ s.job.say = <<>>
      /\ s.job.success = TRUE
  BY <1>3, <1>4 DEF Job
<1>7. QED  BY <1>1, <1>3, <1>4, <1>5, <1>6, BeginStep

LEMMA BeAdoptedStep ==
    ASSUME Shape, MainInv, LiveInv, Root \in DOMAIN procs, UNCHANGED <<main, fifo>>,
           NEW p \in DOMAIN procs, BeAdopted(p)
    PROVE  Shape' /\ LiveInv'
<1> DEFINE id == IF fifo.there THEN fifo.id ELSE 0
           job == [Job(Heard(p)) EXCEPT !.fifo = id]
           value == procs[p].value % Heard(p)[2]
<1>1. Hears(p) /\ Heard(p)[1] = "beAdopt"
  BY DEF BeAdopted
<1>2. /\ DOMAIN job = {"cmd", "at", "k", "success", "buf", "fifo", "say"}
      /\ job.cmd = Heard(p) /\ job.at = "ask" /\ job.k = 1 /\ job.say = <<>>
      /\ job.success = TRUE /\ job.fifo = id
  BY DEF Job
<1>3. DOMAIN procs[p] = {"name", "value", "kids", "alive", "job", "down", "up"}
      /\ procs[p].value \in Nat
  BY DEF Shape, Shaped
<1>4. procs' = [Start(p, job) EXCEPT ![p].value = value]
  <2>1. Start(p, job)[p].value = procs[p].value
    BY <1>3 DEF Start
  <2>2. procs' = [Start(p, job) EXCEPT ![p].value = Start(p, job)[p].value % Heard(p)[2]]
    BY DEF BeAdopted
  <2>3. QED  BY <2>1, <2>2
<1>5. Heard(p)[2] \in Divisors /\ main.at = "adopt" /\ procs[p].alive /\ procs[p].up = <<>>
  BY <1>1, HearShape, AllowedWords
<1>6. value \in Nat
  BY <1>3, <1>5 DEF Divisors
<1>7. id = fifo.id
  BY <1>5 DEF MainInv
<1> HIDE DEF job, value, id
<1>8. JobShaped(job)
  BY <1>2 DEF JobShaped
<1>9. PICK s : /\ OnlyAt(p, s) /\ Shaped(s) /\ s.name = procs[p].name
               /\ s.kids = procs[p].kids /\ s.alive = procs[p].alive
               /\ s.down = <<>> /\ s.up = procs[p].up /\ s.value = value
               /\ s.job = job
  BY <1>4, <1>6, <1>8, Started
<1>10. QED  BY <1>1, <1>2, <1>5, <1>7, <1>9, BeginStep

-----------------------------------------------------------------------------
(* A process has an answer, and writes it.                                 *)

(* What a busy process is asked is its task.                               *)
LEMMA ServesTask ==
    ASSUME NEW s, NEW m, NEW at, Serves(s, m, at), Busy(s)
    PROVE  m = Task(s)
<1>1. QED
  BY IdleFields DEF Serves, Busy, Task, Hearing, Working, Saying, Leaving, Replied, Gone, OneMessage

(* A process goes on with what it is asked, without its children.          *)
LEMMA LocalLive ==
    ASSUME Shape, LiveInv, Root \in DOMAIN procs, UNCHANGED <<main, fifo>>,
           NEW p \in DOMAIN procs, NEW s, OnlyAt(p, s),
           Shaped(s), s.name = procs[p].name, s.kids = procs[p].kids, ~s.alive => s.kids = <<>>,
           Active(procs[p]), procs[p].job.at # "wait", s.job.at # "wait",
           p # Root => \A m : Serves(procs[p], m, main.at) => Serves(s, m, main.at),
           p = Root => RootServes(s),
           Busy(s) => Busy(procs[p]) /\ Task(s) = Task(procs[p]),
           main.at \in {"meet", "rebuild"} /\ Met => Met',
           main.at = "find" => /\ s.value = procs[p].value
                               /\ Finds(p, s.up)
                               /\ s.job.say # <<>> => Finds(p, s.job.say[1]),
           main.at = "adopt" => BeAdopts(p, s),
           p = Root /\ main.at = "adopt" => RootAdopts(s),
           p = Root /\ main.at = "free" => RootFrees(s)
    PROVE  Shape' /\ LiveInv'
<1>1. Core
  BY DEF LiveInv
<1>2. Busy(s) => Allowed(Task(s))
  BY <1>1 DEF Core, CmdInv
<1>3. Shape' /\ SameTree /\ Core'
  BY <1>1, <1>2, LocalStep
<1>4. {p} \in SUBSET DOMAIN procs /\ procs'[p] = s /\ \A q \in DOMAIN procs \ {p} : procs'[q] = procs[q]
  BY DEF OnlyAt
<1>5. main.at \in {"meet", "rebuild"} =>
          \A q \in {p} : Busy(procs'[q]) =>
              \E x \in DOMAIN procs :
                  Busy(procs[x]) /\ Task(procs'[q])[3] = Task(procs[x])[3]
  BY <1>4
<1>6. main.at = "find" =>
          \A q \in {p} : /\ procs'[q].value = procs[q].value
                         /\ Finds(q, procs'[q].up)
                         /\ procs'[q].job.say # <<>> => Finds(q, procs'[q].job.say[1])
  BY <1>4
<1>7. main.at = "adopt" => \A q \in {p} : BeAdopts(q, procs'[q])
  BY <1>4
<1>8. /\ Root \in {p} /\ main.at = "adopt" => RootAdopts(procs'[Root])
      /\ Root \in {p} /\ main.at = "free" => RootFrees(procs'[Root])
  BY <1>4
<1>9. PhaseInv'
  BY <1>3, <1>4, <1>5, <1>6, <1>7, <1>8, PhaseStep
<1>10. QED  BY <1>3, <1>9 DEF LiveInv

(* From hearing or asking to an answer.                                    *)
LEMMA AnswerStep ==
    ASSUME Shape, LiveInv, Root \in DOMAIN procs, UNCHANGED <<main, fifo>>,
           NEW p \in DOMAIN procs, Hearing(procs[p]) \/ procs[p].job.at = "ask",
           NEW s, NEW x, OnlyAt(p, s), Shaped(s), s.name = procs[p].name, s.kids = procs[p].kids,
           s.alive, s.down = <<>>, s.up = <<>>, s.value = procs[p].value,
           s.job.at = "done", s.job.say = <<x>>, s.job.cmd = Task(procs[p]),
           Task(procs[p])[1] = "graduate" => s.kids = <<>> /\ p # Root,
           Task(procs[p])[1] = "beAdopt" => s.job.fifo = procs[p].job.fifo /\ procs[p].job.at = "ask",
           OneMessage(x),
           p # Root => IsReply(x, Task(procs[p]), main.at),
           main.at = "find" => Finds(p, x),
           p = Root /\ main.at = "free" => Fresh(main.cmd[3])
    PROVE  Shape' /\ LiveInv'
<1>1. ByJob(procs[p])
  BY KnownByJob
<1>2. Active(procs[p]) /\ Busy(procs[p]) /\ procs[p].job.at # "wait"
  BY <1>1, IdleFields DEF Active, Busy, Hearing, OneMessage
<1>3. procs[p].up = <<>> /\ procs[p].job.say = <<>>
  BY <1>1, IdleFields DEF ByJob, Hearing, Working
<1>4. ~Met
  BY <1>2, <1>3, NotMet, Words
<1>5. Task(s) = Task(procs[p]) /\ s.job.say[1] = x /\ s.job.say # <<>>
  BY DEF Task
<1>6. Saying(s)
  BY DEF Saying, OneMessage
<1>7. p # Root => \A m : Serves(procs[p], m, main.at) => Serves(s, m, main.at)
  BY <1>2, <1>5, <1>6, ServesTask DEF Serves
<1>8. p = Root => RootServes(s)
  BY <1>5, <1>6 DEF RootServes
<1>9. main.at = "find" => Finds(p, s.up)
  BY DEF Finds
<1>10. main.at = "adopt" => BeAdopts(p, s)
  <2>1. main.at = "adopt" => BeAdopts(p, procs[p])
    BY DEF LiveInv, PhaseInv, BeAdoptInv
  <2>2. QED  BY <1>2, <1>5, <2>1 DEF BeAdopts
<1>11. p = Root /\ main.at = "adopt" => RootAdopts(s)
  <2>1. main.at = "adopt" => RootAdopts(procs[Root])
    BY DEF LiveInv, PhaseInv, RootAdoptInv
  <2>2. QED  BY <1>2, <1>5, <2>1 DEF RootAdopts, NotYetAsked
<1>12. p = Root /\ main.at = "free" => RootFrees(s)
  <2>1. main.at = "free" => RootFrees(procs[Root])
    BY DEF LiveInv, PhaseInv, FreeInv
  <2>2. QED  BY <1>2, <1>5, <2>1 DEF RootFrees
<1>13. QED
  BY <1>2, <1>4, <1>5, <1>7, <1>8, <1>9, <1>10, <1>11, <1>12, LocalLive

(* find_parent_value at the parent: a way of one process.                  *)
LEMMA ValueHereStep ==
    ASSUME Shape, LiveInv, Root \in DOMAIN procs, UNCHANGED <<main, fifo>>,
           NEW p \in DOMAIN procs, ValueHere(p)
    PROVE  Shape' /\ LiveInv'
<1> DEFINE x == << <<"value", procs[p].value>> >>
           job == [Job(Heard(p)) EXCEPT !.at = "done", !.say = <<x>>]
<1>1. Hears(p) /\ procs' = Start(p, job) /\ Heard(p)[1] = "findValue"
      /\ Heard(p)[2] = procs[p].name
  BY DEF ValueHere
<1>2. /\ DOMAIN job = {"cmd", "at", "k", "success", "buf", "fifo", "say"}
      /\ job.cmd = Heard(p) /\ job.at = "done" /\ job.say = <<x>>
  BY DEF Job
<1> HIDE DEF job
<1>3. JobShaped(job) /\ procs[p].value \in Nat
  BY <1>2 DEF JobShaped, Shape, Shaped
<1>4. PICK s : /\ OnlyAt(p, s) /\ Shaped(s) /\ s.name = procs[p].name
               /\ s.kids = procs[p].kids /\ s.alive = procs[p].alive
               /\ s.down = <<>> /\ s.up = procs[p].up /\ s.value = procs[p].value
               /\ s.job = job
  BY <1>1, <1>3, Started
<1>5. /\ procs[p].alive /\ procs[p].up = <<>> /\ Heard(p) = Task(procs[p]) /\ Hearing(procs[p])
      /\ Heard(p) = <<"findValue", main.cmd[2], main.cmd[3]>> /\ main.at = "find"
  BY <1>1, HearShape, AllowedWords
<1>6. /\ procs[p].name = main.cmd[2] /\ main.cmd[2] # main.cmd[3]
      /\ \A q \in DOMAIN procs : procs[q].name = main.cmd[2] => procs[q].value # 0
  BY <1>1, <1>5 DEF LiveInv, PhaseInv, FindInv
<1>7. Leads(p, main.cmd[2], main.cmd[3])
  <2>1. Way({p}, p, main.cmd[2], main.cmd[3])
    BY <1>6 DEF Way
  <2>2. QED  BY <2>1 DEF Leads
<1>8. Finds(p, x)
  BY <1>3, <1>6, <1>7 DEF Finds, Divisors
<1>9. OneMessage(x) /\ IsReply(x, Task(procs[p]), main.at)
  BY <1>5 DEF OneMessage, IsReply
<1> HIDE DEF x
<1>10. Task(procs[p])[1] # "graduate" /\ Task(procs[p])[1] # "beAdopt" /\ main.at # "free"
  BY <1>1, <1>5
<1>11. QED  BY <1>2, <1>4, <1>5, <1>8, <1>9, <1>10, AnswerStep

(* The process p has another job, and "up" is what it has said.            *)
NewJob(p, job, up) ==
    /\ DOMAIN procs' = DOMAIN procs
    /\ \A q \in DOMAIN procs : q # p => procs'[q] = procs[q]
    /\ DOMAIN procs'[p] = DOMAIN procs[p]
    /\ procs'[p].name = procs[p].name /\ procs'[p].kids = procs[p].kids
    /\ procs'[p].alive = procs[p].alive /\ procs'[p].down = procs[p].down
    /\ procs'[p].value = procs[p].value
    /\ procs'[p].up = up /\ procs'[p].job = job

(* Its record is one of a process.                                         *)
LEMMA JobSet ==
    ASSUME Shape, NEW p \in DOMAIN procs, NEW job, JobShaped(job), NEW up, NewJob(p, job, up)
    PROVE  \E s : /\ OnlyAt(p, s) /\ Shaped(s) /\ s.name = procs[p].name
                  /\ s.kids = procs[p].kids /\ s.alive = procs[p].alive
                  /\ s.down = procs[p].down /\ s.up = up /\ s.value = procs[p].value
                  /\ s.job = job
<1>1. Shaped(procs[p])
  BY DEF Shape
<1> DEFINE s == procs'[p]
<1>2. /\ DOMAIN s = DOMAIN procs[p] /\ s.name = procs[p].name /\ s.kids = procs[p].kids
      /\ s.alive = procs[p].alive /\ s.down = procs[p].down /\ s.up = up /\ s.job = job
      /\ s.value = procs[p].value
  BY DEF NewJob
<1>3. OnlyAt(p, s)
  BY DEF OnlyAt, NewJob
<1> HIDE DEF s
<1>4. Shaped(s)
  BY <1>1, <1>2 DEF Shaped, JobShaped
<1>5. QED  BY <1>2, <1>3, <1>4

(* Only the job is assigned.                                               *)
LEMMA JobChanged ==
    ASSUME Shape, NEW p \in DOMAIN procs, NEW job,
           procs' = [procs EXCEPT ![p].job = job]
    PROVE  NewJob(p, job, procs[p].up)
<1>1. DOMAIN procs[p] = {"name", "value", "kids", "alive", "job", "down", "up"}
  BY DEF Shape, Shaped
<1>2. QED  BY <1>1 DEF NewJob

(* When the root has asked all its children, the child is gone.            *)
LEMMA AllAsked ==
    ASSUME Shape, LiveInv, Root \in DOMAIN procs, main.at = "free",
           procs[Root].job.at = "ask", procs[Root].down = <<>>,
           procs[Root].job.k > Len(procs[Root].kids)
    PROVE  Fresh(main.cmd[3])
<1> SUFFICES ASSUME NEW x \in DOMAIN procs, procs[x].name = main.cmd[3]
             PROVE  FALSE
  BY DEF Fresh
<1>1. PICK i \in DOMAIN procs[Root].kids : procs[Root].kids[i].pid = x
  BY DEF LiveInv, PhaseInv, RecordInv, KidPids
<1>2. procs[Root].kids[i].name = main.cmd[3]
  BY <1>1 DEF LiveInv, Core, TreeInv, KidInv
<1>3. Working(procs[Root])
  BY KnownByJob DEF ByJob
<1>4. procs[Root].job.k \in Int /\ i \in Int /\ Len(procs[Root].kids) \in Nat
      /\ i <= Len(procs[Root].kids)
  BY <1>3, KidDomain DEF Working, Shape
<1>5. i < procs[Root].job.k
  BY <1>4
<1>6. QED  BY <1>2, <1>5 DEF LiveInv, PhaseInv, FreeInv, RootFrees

(* When nobody has succeeded, the handler fails (or has listed, left,      *)
(* adopted).                                                               *)
LEMMA FinishStep ==
    ASSUME Shape, LiveInv, Root \in DOMAIN procs, UNCHANGED <<main, fifo>>,
           NEW p \in DOMAIN procs, Finish(p)
    PROVE  Shape' /\ LiveInv'
<1> DEFINE job == procs[p].job
           writes == CASE job.cmd[1] = "Collect" -> << << <<"listing", job.buf>> >> >>
                       [] job.cmd[1] = "graduate" -> IF p = Root THEN <<>> ELSE <<Exited>>
                       [] job.cmd[1] = "beAdopt" -> IF job.success THEN <<Success>> ELSE <<>>
                       [] OTHER -> <<Fail>>
           next == Done(p, writes)
<1>1. procs[p].alive /\ job.at = "ask" /\ job.say = <<>> /\ job.k > Len(procs[p].kids)
  BY DEF Finish, Asking, Alive
<1>2. procs' = [procs EXCEPT ![p].job = Settle(next)]
  BY DEF Finish
<1>3. Working(procs[p])
  BY <1>1, KnownByJob DEF ByJob
<1>4. DOMAIN job = {"cmd", "at", "k", "success", "buf", "fifo", "say"}
  BY DEF Shape, Shaped
<1>5. /\ DOMAIN next = {"cmd", "at", "k", "success", "buf", "fifo", "say"}
      /\ next.cmd = job.cmd /\ next.at = "done" /\ next.say = writes /\ next.fifo = job.fifo
  BY <1>4 DEF Done
<1>6. Busy(procs[p]) /\ Task(procs[p]) = job.cmd /\ Allowed(job.cmd)
  BY <1>1, <1>3 DEF Busy, Task, Working, LiveInv, Core, CmdInv
<1>7. procs[p].down = <<>> /\ procs[p].up = <<>>
  BY <1>3 DEF Working
<1>8. job.cmd[1] = "graduate" => procs[p].kids = <<>>
  <2>1. Len(procs[p].kids) \in Nat /\ procs[p].kids \in Seq(KidRecords)
    BY KidDomain DEF Shape, Shaped
  <2>2. job.cmd[1] = "graduate" => Len(procs[p].kids) = 0
    BY <1>1, <1>3, <2>1 DEF Working
  <2>3. QED  BY <2>1, <2>2
<1>9. p = Root /\ main.at = "free" => Fresh(main.cmd[3])
  BY <1>1, <1>7, AllAsked
<1>10. job.cmd[1] = "graduate" /\ p = Root => main.at = "graduate"
  BY <1>6, AllowedWords DEF LiveInv, PhaseInv, FreeInv, RootFrees
<1>11. job.success = TRUE
  BY <1>3 DEF Working
<1>12. CASE job.cmd[1] = "graduate" /\ p = Root
  <2>1. writes = <<>>
    BY <1>12
  <2> HIDE DEF next, writes
  <2>2. NewJob(p, next, procs[p].up) /\ JobShaped(next)
    <3>1. Settle(next) = next /\ JobShaped(next)
      BY <1>5, <1>12 DEF Settle, JobShaped
    <3>2. procs' = [procs EXCEPT ![p].job = next]
      BY <1>2, <3>1
    <3>3. QED  BY <3>1, <3>2, JobChanged
  <2>3. PICK s : /\ OnlyAt(p, s) /\ Shaped(s) /\ s.name = procs[p].name
                 /\ s.kids = procs[p].kids /\ s.alive = procs[p].alive
                 /\ s.down = procs[p].down /\ s.up = procs[p].up /\ s.value = procs[p].value
                 /\ s.job = next
    BY <2>2, JobSet
  <2> HIDE DEF job
  <2>4. Leaving(s) /\ s.up = <<>> /\ Task(s) = Task(procs[p])
    BY <1>1, <1>5, <1>6, <1>7, <1>8, <1>12, <2>1, <2>3 DEF Leaving, Task
  <2>5. RootServes(s)
    BY <2>4 DEF RootServes
  <2>6. Active(procs[p]) /\ procs[p].job.at # "wait"
    BY <1>1 DEF Active, job
  <2>7. ~Met
    BY <1>1, <1>7, <2>6, NotMet, Words DEF job
  <2>8. s.job.at # "wait" /\ s.alive
    BY <1>1, <1>5, <2>3
  <2>9. QED
    BY <1>6, <1>10, <1>12, <2>3, <2>4, <2>5, <2>6, <2>7, <2>8, LocalLive
<1>13. CASE ~(job.cmd[1] = "graduate" /\ p = Root)
  <2>1. \E x : /\ writes = <<x>> /\ OneMessage(x)
               /\ p # Root => IsReply(x, job.cmd, main.at)
               /\ main.at = "find" => x = Fail
    <3>1. CASE job.cmd[1] = "Collect"
      <4>1. writes = << << <<"listing", job.buf>> >> >>
        BY <3>1
      <4>2. main.at # "find"
        BY <1>6, <3>1, AllowedWords
      <4>3. QED  BY <3>1, <4>1, <4>2 DEF IsReply, OneMessage
    <3>2. CASE job.cmd[1] = "graduate"
      <4>1. writes = <<Exited>>
        BY <1>13, <3>2
      <4>2. main.at # "find"
        BY <1>6, <3>2, AllowedWords
      <4>3. QED  BY <3>2, <4>1, <4>2, Words DEF IsReply
    <3>3. CASE job.cmd[1] = "beAdopt"
      <4>1. writes = <<Success>>
        BY <1>11, <3>3
      <4>2. main.at # "find"
        BY <1>6, <3>3, AllowedWords
      <4>3. QED  BY <3>3, <4>1, <4>2, Words DEF IsReply
    <3>4. CASE job.cmd[1] \notin {"Collect", "graduate", "beAdopt"}
      <4>1. writes = <<Fail>>
        BY <3>4
      <4>2. QED  BY <3>4, <4>1, Words DEF IsReply
    <3>5. QED  BY <3>1, <3>2, <3>3, <3>4
  <2>2. PICK x : /\ writes = <<x>> /\ OneMessage(x)
                 /\ p # Root => IsReply(x, job.cmd, main.at)
                 /\ main.at = "find" => x = Fail
    BY <2>1
  <2> HIDE DEF next, writes
  <2>3. NewJob(p, next, procs[p].up) /\ JobShaped(next)
    <3>1. Settle(next) = next /\ JobShaped(next)
      BY <1>5, <2>2, Words DEF Settle, JobShaped
    <3>2. procs' = [procs EXCEPT ![p].job = next]
      BY <1>2, <3>1
    <3>3. QED  BY <3>1, <3>2, JobChanged
  <2>4. PICK s : /\ OnlyAt(p, s) /\ Shaped(s) /\ s.name = procs[p].name
                 /\ s.kids = procs[p].kids /\ s.alive = procs[p].alive
                 /\ s.down = procs[p].down /\ s.up = procs[p].up /\ s.value = procs[p].value
                 /\ s.job = next
    BY <2>3, JobSet
  <2>5. s.alive /\ s.down = <<>> /\ s.up = <<>>
    BY <1>1, <1>7, <2>4
  <2>6. s.job.at = "done" /\ s.job.say = <<x>> /\ s.job.cmd = Task(procs[p])
        /\ s.job.fifo = procs[p].job.fifo
    BY <1>5, <1>6, <2>2, <2>4
  <2>7. Task(procs[p])[1] = "graduate" => s.kids = <<>> /\ p # Root
    BY <1>6, <1>8, <1>13, <2>4
  <2>8. main.at = "find" => Finds(p, x)
    BY <2>2 DEF Finds
  <2>9. p # Root => IsReply(x, Task(procs[p]), main.at)
    BY <1>6, <2>2
  <2>10. QED
    BY <1>1, <1>9, <2>2, <2>4, <2>5, <2>6, <2>7, <2>8, <2>9, AnswerStep
<1>14. QED  BY <1>12, <1>13

(* A process that speaks has a parent that listens.                        *)
LEMMA Listener ==
    ASSUME Shape, TreeInv, NEW p \in DOMAIN procs, p # Root
    PROVE  HasParent(procs, p)
<1>1. PICK q \in DOMAIN procs : \E i \in DOMAIN procs[q].kids :
          procs[q].kids[i].pid = p /\ procs[q].alive /\ q # p
  BY Parented
<1>2. p \in KidPids(procs, q)
  BY <1>1 DEF KidPids
<1>3. QED  BY <1>1, <1>2 DEF HasParent, Alive

(* A write to the parent, or to the loop of Not_Tako.                      *)
LEMMA SayStep ==
    ASSUME Shape, LiveInv, Root \in DOMAIN procs, UNCHANGED <<main, fifo>>,
           NEW p \in DOMAIN procs, Say(p)
    PROVE  Shape' /\ LiveInv'
<1> DEFINE job == procs[p].job
           up == procs[p].up \o Head(job.say)
           said == [job EXCEPT !.say = Tail(@)]
           next == Said(job)
<1>1. procs[p].alive /\ job.say # <<>>
  BY DEF Say, Alive
<1>2. NewJob(p, next, up)
  <2>1. p = Root \/ HasParent(procs, p)
    BY Listener DEF LiveInv, Core
  <2>2. DOMAIN procs[p] = {"name", "value", "kids", "alive", "job", "down", "up"}
        /\ DOMAIN job = {"cmd", "at", "k", "success", "buf", "fifo", "say"}
    BY DEF Shape, Shaped
  <2>3. procs' = [procs EXCEPT ![p].up = @ \o Head(job.say), ![p].job = Said(@)]
    BY <2>1 DEF Say
  <2>4. procs'[p].job = Said(job)
    BY <2>2, <2>3
  <2>5. procs'[p].up = up
    BY <2>2, <2>3
  <2> HIDE DEF next, up
  <2>6. DOMAIN procs' = DOMAIN procs /\ \A q \in DOMAIN procs : q # p => procs'[q] = procs[q]
    BY <2>3
  <2>7. /\ DOMAIN procs'[p] = DOMAIN procs[p]
        /\ procs'[p].name = procs[p].name /\ procs'[p].kids = procs[p].kids
        /\ procs'[p].alive = procs[p].alive /\ procs'[p].down = procs[p].down
        /\ procs'[p].value = procs[p].value
    BY <2>2, <2>3
  <2>8. procs'[p].job = next
    BY <2>4 DEF next
  <2>9. QED  BY <2>5, <2>6, <2>7, <2>8 DEF NewJob
<1>3. DOMAIN job = {"cmd", "at", "k", "success", "buf", "fifo", "say"}
  BY DEF Shape, Shaped
<1>4. ByJob(procs[p])
  BY KnownByJob
<1>5. /\ DOMAIN said = {"cmd", "at", "k", "success", "buf", "fifo", "say"}
      /\ said.cmd = job.cmd /\ said.at = job.at /\ said.say = Tail(job.say)
      /\ next = Settle(said)
  BY <1>3 DEF Said
<1>6. job.at = "done" /\ procs[p].down = <<>>
  BY <1>1, <1>4, IdleFields DEF ByJob, Working
<1>7. Busy(procs[p]) /\ Active(procs[p]) /\ Task(procs[p]) = job.cmd /\ Allowed(job.cmd)
  BY <1>6 DEF Busy, Active, Task, LiveInv, Core, CmdInv
<1>8. \/ /\ Saying(procs[p])
         /\ p # Root => IsReply(job.say[1], job.cmd, main.at)
         /\ p = Root => job.cmd[1] # "graduate" /\ OneMessage(job.say[1])
      \/ /\ p = Root /\ job.cmd[1] = "Adopt"
         /\ \/ job.say = <<Success, Fail>> /\ procs[p].up = <<>>
            \/ job.say = <<Fail>> /\ procs[p].up = Success
  <2>1. CASE p = Root
    <3>1. main.at # "idle"
      BY <1>7, <2>1, FreeFacts DEF LiveInv, Core, RootInv
    <3>2. RootServes(procs[p])
      BY <2>1, <3>1 DEF LiveInv, Core, RootInv
    <3>3. QED
      BY <1>1, <1>6, <2>1, <3>2, IdleFields
         DEF RootServes, Hearing, Working, Leaving, Replied
  <2>2. CASE p # Root
    <3>1. ~Free(procs[p])
      BY <1>7, FreeFacts
    <3>2. PICK q \in DOMAIN procs : \E i \in DOMAIN procs[q].kids :
              Serves(procs[p], Asked(q, i), main.at)
      BY <2>2, <3>1, AskedByParent DEF LiveInv, Core
    <3>3. QED
      BY <1>1, <1>6, <2>2, <3>2, IdleFields
         DEF Serves, Hearing, Working, Leaving, Replied, Gone
  <2>3. QED  BY <2>1, <2>2
<1> HIDE DEF next, up, said
<1>9. ASSUME next = Idle, p = Root \/ (Saying(procs[p]) /\ job.cmd[1] # "graduate"),
             up # <<>>, p # Root => IsReply(up, job.cmd, main.at),
             main.at = "find" => Finds(p, up),
             main.at \in {"meet", "rebuild"} /\ Met => up = Success
      PROVE  Shape' /\ LiveInv'
  <2>1. JobShaped(next)
    BY <1>9, IdleFields DEF JobShaped
  <2>2. PICK s : /\ OnlyAt(p, s) /\ Shaped(s) /\ s.name = procs[p].name
                 /\ s.kids = procs[p].kids /\ s.alive = procs[p].alive
                 /\ s.down = procs[p].down /\ s.up = up /\ s.value = procs[p].value
                 /\ s.job = next
    BY <1>2, <2>1, JobSet
  <2>3. /\ s.job = Idle /\ s.job.at = "idle" /\ s.job.say = <<>>
        /\ s.alive /\ s.down = <<>> /\ ~Busy(s)
    BY <1>1, <1>6, <1>9, <2>2, IdleFields DEF Busy
  <2>4. Replied(s)
    BY <2>3 DEF Replied
  <2>5. p = Root => RootServes(s)
    BY <1>9, <2>2, <2>4 DEF RootServes
  <2>6. p # Root => \A m : Serves(procs[p], m, main.at) => Serves(s, m, main.at)
    <3>1. \A m : Serves(procs[p], m, main.at) => m = job.cmd
      BY <1>7, ServesTask
    <3>2. p # Root => Serves(s, job.cmd, main.at)
      BY <1>9, <2>2, <2>4 DEF Serves
    <3>3. QED  BY <3>1, <3>2
  <2>7. BeAdopts(p, s) /\ (main.at = "find" => Finds(p, s.up))
    BY <1>9, <2>2, <2>3 DEF BeAdopts
  <2>8. RootAdopts(s)
    BY <2>3 DEF RootAdopts, NotYetAsked
  <2>9. p = Root /\ main.at = "free" => RootFrees(s)
    <3>1. main.at = "free" => RootFrees(procs[Root])
      BY DEF LiveInv, PhaseInv, FreeInv
    <3>2. QED  BY <1>6, <2>3, <3>1 DEF RootFrees
  <2>10. main.at \in {"meet", "rebuild"} /\ Met => Met'
    BY <1>9, <2>2 DEF Met, OnlyAt
  <2>11. procs[p].job.at # "wait" /\ s.job.at # "wait"
    BY <1>6, <2>3
  <2>12. QED
    BY <1>7, <2>2, <2>3, <2>5, <2>6, <2>7, <2>8, <2>9, <2>10, <2>11, LocalLive
<1>10. CASE /\ Saying(procs[p]) /\ job.cmd[1] # "graduate"
            /\ p # Root => IsReply(job.say[1], job.cmd, main.at)
            /\ OneMessage(job.say[1])
  <2>1. job.say = <<job.say[1]>> /\ procs[p].up = <<>>
    BY <1>10 DEF Saying, OneMessage
  <2>2. Head(job.say) = job.say[1] /\ Tail(job.say) = <<>>
    BY <2>1, OneAppended
  <2>3. up = job.say[1] /\ up # <<>>
    BY <1>10, <2>1, <2>2, OneAppended DEF up, OneMessage
  <2>4. next = Idle
    <3>1. said.at = "done" /\ said.say = <<>> /\ said.cmd[1] # "graduate"
      BY <1>5, <1>6, <1>10, <2>2
    <3>2. QED  BY <1>5, <3>1 DEF Settle
  <2>5. main.at = "find" => Finds(p, up)
    BY <1>1, <2>3 DEF LiveInv, PhaseInv, FindInv
  <2>6. Met => up = Success
    <3>1. procs[p].up # Success
      BY <2>1, Words
    <3>2. Met => job.say = <<Success>>
      BY <1>7, <3>1, NotMet
    <3>3. QED  BY <2>3, <3>2, OneAppended
  <2>7. QED  BY <1>9, <1>10, <2>3, <2>4, <2>5, <2>6
<1>11. CASE /\ Saying(procs[p]) /\ job.cmd[1] = "graduate" /\ p # Root
            /\ IsReply(job.say[1], job.cmd, main.at)
  <2>1. job.say = <<Exited>> /\ procs[p].up = <<>> /\ procs[p].kids = <<>>
    BY <1>11 DEF Saying, OneMessage, IsReply
  <2>2. up = Exited /\ Tail(job.say) = <<>>
    BY <2>1, OneAppended DEF up, Exited
  <2>3. next = said
    BY <1>5, <1>11 DEF Settle
  <2>4. /\ DOMAIN next = {"cmd", "at", "k", "success", "buf", "fifo", "say"}
        /\ next.cmd = job.cmd /\ next.at = "done" /\ next.say = <<>>
    BY <1>5, <1>6, <2>2, <2>3
  <2>5. JobShaped(next)
    BY <2>4 DEF JobShaped
  <2>6. PICK s : /\ OnlyAt(p, s) /\ Shaped(s) /\ s.name = procs[p].name
                 /\ s.kids = procs[p].kids /\ s.alive = procs[p].alive
                 /\ s.down = procs[p].down /\ s.up = up /\ s.value = procs[p].value
                 /\ s.job = next
    BY <1>2, <2>5, JobSet
  <2>7. s.alive /\ s.job.at = "done" /\ s.job.say = <<>> /\ s.up = Exited /\ Task(s) = job.cmd
    BY <1>1, <1>6, <2>2, <2>4, <2>6 DEF Task
  <2>8. Leaving(s) /\ s.job.cmd = job.cmd
    BY <1>6, <1>11, <2>1, <2>4, <2>6, <2>7 DEF Leaving
  <2>9. \A m : Serves(procs[p], m, main.at) => Serves(s, m, main.at)
    <3>1. \A m : Serves(procs[p], m, main.at) => m = job.cmd
      BY <1>7, ServesTask
    <3>2. Serves(s, job.cmd, main.at)
      BY <2>7, <2>8 DEF Serves
    <3>3. QED  BY <3>1, <3>2
  <2>10. main.at \in {"graduate", "free"}
    BY <1>7, <1>11, AllowedWords
  <2>11. procs[p].job.at # "wait" /\ s.job.at # "wait"
    BY <1>6, <2>7
  <2>12. QED
    BY <1>7, <1>11, <2>6, <2>7, <2>9, <2>10, <2>11, LocalLive
<1>12. CASE p = Root /\ job.cmd[1] = "Adopt" /\ job.say = <<Success, Fail>> /\ procs[p].up = <<>>
  <2>1. up = Success /\ Tail(job.say) = <<Fail>>
    BY <1>12 DEF up, Success
  <2>2. said.say # <<>>
    BY <1>5, <2>1
  <2>3. next = said
    BY <1>5, <2>2 DEF Settle
  <2>4. /\ DOMAIN next = {"cmd", "at", "k", "success", "buf", "fifo", "say"}
        /\ next.cmd = job.cmd /\ next.at = "done" /\ next.say = <<Fail>>
    BY <1>5, <1>6, <2>1, <2>3
  <2>5. JobShaped(next)
    BY <2>4 DEF JobShaped
  <2>6. PICK s : /\ OnlyAt(p, s) /\ Shaped(s) /\ s.name = procs[p].name
                 /\ s.kids = procs[p].kids /\ s.alive = procs[p].alive
                 /\ s.down = procs[p].down /\ s.up = up /\ s.value = procs[p].value
                 /\ s.job = next
    BY <1>2, <2>5, JobSet
  <2>7. /\ s.alive /\ s.down = <<>> /\ s.job.at = "done" /\ s.job.say = <<Fail>>
        /\ s.up = Success /\ Task(s) = job.cmd
    BY <1>1, <1>6, <2>1, <2>4, <2>6 DEF Task
  <2>8. RootServes(s)
    BY <1>12, <2>4, <2>6, <2>7 DEF RootServes
  <2>9. main.at = "adopt"
    BY <1>7, <1>12, AllowedWords
  <2>10. BeAdopts(p, s)
    BY <1>12, <2>7 DEF BeAdopts
  <2>11. RootAdopts(s)
    BY <1>12, <2>7 DEF RootAdopts, NotYetAsked
  <2>12. procs[p].job.at # "wait" /\ s.job.at # "wait"
    BY <1>6, <2>7
  <2>13. QED
    BY <1>7, <1>12, <2>6, <2>7, <2>8, <2>9, <2>10, <2>11, <2>12, LocalLive
<1>13. CASE p = Root /\ job.cmd[1] = "Adopt" /\ job.say = <<Fail>> /\ procs[p].up = Success
  <2>1. up = Success \o Fail /\ up # <<>> /\ Tail(job.say) = <<>>
    BY <1>13 DEF up, Success, Fail
  <2>2. next = Idle
    <3>1. said.at = "done" /\ said.say = <<>> /\ said.cmd[1] # "graduate"
      BY <1>5, <1>6, <1>13, <2>1
    <3>2. QED  BY <1>5, <3>1 DEF Settle
  <2>3. main.at = "adopt"
    BY <1>7, <1>13, AllowedWords
  <2>4. QED  BY <1>9, <1>13, <2>1, <2>2, <2>3
<1>14. QED
  <2>1. p # Root /\ Saying(procs[p]) /\ IsReply(job.say[1], job.cmd, main.at) => OneMessage(job.say[1])
    BY DEF IsReply
  <2>2. QED  BY <1>8, <1>10, <1>11, <1>12, <1>13, <2>1

-----------------------------------------------------------------------------
(* A process ends.                                                         *)

(* What End leaves of the processes.                                       *)
LEMMA Ended ==
    ASSUME Shape, NEW p \in DOMAIN procs, procs' = End(procs, p)
    PROVE  /\ DOMAIN procs' \subseteq DOMAIN procs
           /\ \A q \in DOMAIN procs' : q # p => procs'[q] = procs[q]
           /\ \A q \in DOMAIN procs : q # p /\ procs[q].alive => q \in DOMAIN procs'
           /\ \A q \in DOMAIN procs : q # p /\ Alive(procs, q) /\ p \in KidPids(procs, q) =>
                  p \in DOMAIN procs'
           /\ (\A q \in DOMAIN procs : q # p => ~(Alive(procs, q) /\ p \in KidPids(procs, q))) =>
                  p \notin DOMAIN procs'
           /\ p \in DOMAIN procs' =>
                  /\ Shaped(procs'[p])
                  /\ procs'[p].name = procs[p].name /\ procs'[p].value = procs[p].value
                  /\ procs'[p].kids = <<>> /\ procs'[p].alive = FALSE
                  /\ procs'[p].job = Idle /\ procs'[p].down = <<>>
                  /\ procs'[p].up = procs[p].up
<1> DEFINE ps == [procs EXCEPT ![p].alive = FALSE, ![p].kids = <<>>,
                               ![p].job = Idle, ![p].down = <<>>]
<1>1. DOMAIN procs[p] = {"name", "value", "kids", "alive", "job", "down", "up"}
      /\ Shaped(procs[p])
  BY DEF Shape, Shaped
<1>2. procs' = Tidy(ps)
  BY DEF End
<1>3. DOMAIN ps = DOMAIN procs /\ \A q \in DOMAIN procs : q # p => ps[q] = procs[q]
  OBVIOUS
<1>4. /\ DOMAIN ps[p] = DOMAIN procs[p]
      /\ ps[p].name = procs[p].name /\ ps[p].value = procs[p].value
      /\ ps[p].kids = <<>> /\ ps[p].alive = FALSE
      /\ ps[p].job = Idle /\ ps[p].down = <<>> /\ ps[p].up = procs[p].up
  BY <1>1
<1> HIDE DEF ps
<1>5. Shaped(ps[p])
  <2>1. <<>> \in Seq(KidRecords)
    OBVIOUS
  <2>2. QED  BY <1>1, <1>4, <2>1, IdleFields DEF Shaped
<1>6. /\ DOMAIN procs' = {q \in DOMAIN ps : ps[q].alive \/ HasParent(ps, q)}
      /\ \A q \in DOMAIN procs' : procs'[q] = ps[q]
  BY <1>2 DEF Tidy
<1>7. KidPids(ps, p) = {} /\ \A q \in DOMAIN procs : q # p => KidPids(ps, q) = KidPids(procs, q)
  BY <1>3, <1>4 DEF KidPids
<1>8. \A q \in DOMAIN procs : Alive(ps, q) <=> q # p /\ Alive(procs, q)
  BY <1>3, <1>4 DEF Alive
<1>9. HasParent(ps, p) <=>
          \E q \in DOMAIN procs : q # p /\ Alive(procs, q) /\ p \in KidPids(procs, q)
  BY <1>3, <1>7, <1>8 DEF HasParent
<1>10. QED  BY <1>3, <1>4, <1>5, <1>6, <1>9

(* When Not_Tako has left: nobody but p has anything to do.                *)
LEMMA EndOver ==
    ASSUME Shape, NEW p \in DOMAIN procs, procs' = End(procs, p),
           \A q \in DOMAIN procs \ {p} : procs[q].job.at = "idle" /\ procs[q].down = <<>>,
           p = Root \/ ~Alive(procs, Root)
    PROVE  Shape' /\ OverInv' /\ ~Alive(procs', Root)
<1>1. /\ DOMAIN procs' \subseteq DOMAIN procs
      /\ \A q \in DOMAIN procs' : q # p => procs'[q] = procs[q]
      /\ p \in DOMAIN procs' => /\ Shaped(procs'[p]) /\ procs'[p].alive = FALSE
                                /\ procs'[p].job = Idle /\ procs'[p].down = <<>>
  BY Ended
<1>2. Shape'
  BY <1>1 DEF Shape
<1>3. OverInv'
  BY <1>1, IdleFields DEF OverInv
<1>4. ~Alive(procs', Root)
  BY <1>1 DEF Alive
<1>5. QED  BY <1>2, <1>3, <1>4

(* _exit: a child that has told its parent, or the root itself.            *)
LEMMA ExitStep ==
    ASSUME Shape, LiveInv, Root \in DOMAIN procs, UNCHANGED <<main, fifo>>,
           NEW p \in DOMAIN procs, Exit(p)
    PROVE  Shape' /\ IF p = Root THEN OverInv' /\ ~Alive(procs', Root) ELSE LiveInv'
<1> DEFINE job == procs[p].job
<1>1. procs[p].alive /\ job.at = "done" /\ job.say = <<>> /\ procs' = End(procs, p)
  BY DEF Exit, Alive
<1>2. Active(procs[p]) /\ Busy(procs[p])
  BY <1>1 DEF Active, Busy
<1>3. CASE p = Root
  <2>1. \A q \in DOMAIN procs \ {Root} : Free(procs[q])
    BY <1>1, <1>3, AllFree DEF LiveInv, Core
  <2>2. \A q \in DOMAIN procs \ {p} : procs[q].job.at = "idle" /\ procs[q].down = <<>>
    BY <1>3, <2>1, IdleFields DEF Free
  <2>3. QED  BY <1>1, <1>3, <2>2, EndOver
<1>4. CASE p # Root
  <2>1. PICK q \in DOMAIN procs : \E i \in DOMAIN procs[q].kids :
            /\ procs[q].kids[i].pid = p /\ q # p /\ procs[q].alive
            /\ Serves(procs[p], Asked(q, i), main.at)
    BY <1>2, <1>4, AskedByParent, FreeFacts DEF LiveInv, Core
  <2>2. PICK m : Serves(procs[p], m, main.at)
    BY <2>1
  <2>3. /\ Leaving(procs[p]) /\ procs[p].job.cmd = m /\ procs[p].up = Exited
        /\ m[1] = "graduate"
    BY <1>1, <2>2, IdleFields, Words
       DEF Serves, Hearing, Working, Saying, Leaving, Replied, Gone, OneMessage
  <2>4. p \in KidPids(procs, q) /\ Alive(procs, q) /\ q # p
    BY <2>1 DEF KidPids, Alive
  <2>5. \A x \in DOMAIN procs : x # p => ~Active(procs[x])
    BY <1>2 DEF LiveInv, Core, OneActive
  <2>6. \A x \in DOMAIN procs : x # p => procs[x].alive
    BY <2>5, Inactive
  <2>7. DOMAIN procs' = DOMAIN procs /\ \A x \in DOMAIN procs : x # p => procs'[x] = procs[x]
    <3>1. /\ DOMAIN procs' \subseteq DOMAIN procs
          /\ \A x \in DOMAIN procs' : x # p => procs'[x] = procs[x]
          /\ \A x \in DOMAIN procs : x # p /\ procs[x].alive => x \in DOMAIN procs'
          /\ \A x \in DOMAIN procs : x # p /\ Alive(procs, x) /\ p \in KidPids(procs, x) =>
                 p \in DOMAIN procs'
      BY <1>1, Ended
    <3>2. q \in DOMAIN procs /\ p \in DOMAIN procs'
      BY <2>4, <3>1
    <3>3. \A x \in DOMAIN procs : x \in DOMAIN procs'
      BY <2>6, <3>1, <3>2
    <3>4. QED  BY <3>1, <3>3
  <2>8. /\ Shaped(procs'[p])
        /\ procs'[p].name = procs[p].name /\ procs'[p].value = procs[p].value
        /\ procs'[p].kids = <<>> /\ procs'[p].alive = FALSE
        /\ procs'[p].job = Idle /\ procs'[p].down = <<>>
        /\ procs'[p].up = procs[p].up
    BY <1>1, <2>7, Ended
  <2>9. PICK s : /\ OnlyAt(p, s) /\ Shaped(s) /\ s.name = procs[p].name
                 /\ s.value = procs[p].value /\ s.kids = <<>> /\ s.alive = FALSE
                 /\ s.job = Idle /\ s.down = <<>> /\ s.up = procs[p].up
    BY <2>7, <2>8 DEF OnlyAt
  <2>10. s.job.at = "idle" /\ s.job.say = <<>> /\ ~Busy(s) /\ s.job.at # "wait"
         /\ procs[p].job.at # "wait"
    BY <1>1, <2>9, IdleFields DEF Busy
  <2>11. Gone(s)
    BY <2>9 DEF Gone
  <2>12. \A n : Serves(procs[p], n, main.at) => Serves(s, n, main.at)
    <3>1. \A n : Serves(procs[p], n, main.at) => n = Task(procs[p])
      BY <1>2, ServesTask
    <3>2. Task(procs[p]) = m
      BY <2>2, <3>1
    <3>3. Serves(s, m, main.at)
      BY <2>3, <2>9, <2>11 DEF Serves
    <3>4. QED  BY <3>1, <3>2, <3>3
  <2>13. ~Met
    BY <1>1, <1>2, <2>3, NotMet, Words
  <2>14. main.at = "find" => Finds(p, s.up)
    BY <2>9 DEF LiveInv, PhaseInv, FindInv
  <2>15. BeAdopts(p, s)
    BY <2>10 DEF BeAdopts
  <2>16. s.kids = procs[p].kids
    BY <2>3, <2>9 DEF Leaving
  <2>17. QED
    BY <1>2, <1>4, <2>9, <2>10, <2>12, <2>13, <2>14, <2>15, <2>16, LocalLive
<1>5. QED  BY <1>3, <1>4

-----------------------------------------------------------------------------
(* There is a process id for whoever has a name that nobody has.           *)
LEMMA NewPidIsNew ==
    ASSUME Shape, TreeInv, NEW n \in Names, Fresh(n)
    PROVE  NewPid \in Pids \ DOMAIN procs
<1> DEFINE D == DOMAIN procs
           T == Names \ {n}
           f == [p \in D |-> procs[p].name]
<1>1. IsFiniteSet(Friends) /\ Cardinality(Friends) <= MaxProcs /\ MaxProcs \in Nat
      /\ NotTako \notin Friends
  BY FriendAssumption
<1>2. IsFiniteSet(Names) /\ Cardinality(Names) = Cardinality(Friends) + 1
  BY <1>1, FS_AddElement DEF Names
<1>3. Cardinality(Friends) \in Nat
  BY <1>1, FS_CardinalityType
<1>4. IsFiniteSet(T) /\ Cardinality(T) = Cardinality(Friends)
  <2>1. /\ IsFiniteSet(Names \ {n})
        /\ Cardinality(Names \ {n}) = IF n \in Names THEN Cardinality(Names) - 1 ELSE Cardinality(Names)
    BY <1>2, FS_RemoveElement
  <2>2. QED  BY <1>2, <1>3, <2>1
<1>5. f \in Injection(D, T)
  <2>1. \A p \in D : procs[p].name \in T
    BY DEF Fresh, Shape, Shaped
  <2>2. \A p, q \in D : procs[p].name = procs[q].name => p = q
    BY DEF TreeInv, NameInv
  <2>3. QED  BY <2>1, <2>2 DEF Injection, IsInjective
<1> HIDE DEF f, D, T
<1>6. IsFiniteSet(D) /\ Cardinality(D) <= Cardinality(Friends)
  BY <1>4, <1>5, FS_Injection
<1>7. Cardinality(Pids) = MaxProcs + 1
  BY <1>1, FS_Interval DEF Pids
<1>8. Cardinality(D) \in Nat
  BY <1>6, FS_CardinalityType
<1>9. D # Pids
  BY <1>1, <1>3, <1>6, <1>7, <1>8
<1>10. D \subseteq Pids
  BY DEF D, Shape
<1>11. \E p \in Pids \ {Root} : p \notin D
  BY <1>9, <1>10 DEF D, TreeInv, NameInv
<1>12. QED  BY <1>11 DEF NewPid, D

(* meet at the parent.                                                     *)
LEMMA MeetHereStep ==
    ASSUME Shape, LiveInv, Root \in DOMAIN procs, UNCHANGED <<main, fifo>>,
           NEW p \in DOMAIN procs, MeetHere(p)
    PROVE  Shape' /\ LiveInv'
<1> DEFINE cmd == Heard(p)
           n == NewPid
           kid == [pid |-> NewPid, name |-> cmd[3], value |-> cmd[4]]
           job == [Job(cmd) EXCEPT !.at = "done", !.say = <<Success>>]
           met == Start(p, job)
           t == NewProc(kid.name, kid.value)
           s == [met[p] EXCEPT !.kids = Append(@, kid)]
<1>1. Hears(p) /\ cmd[1] = "Meet"
      /\ procs' = [q \in DOMAIN procs \cup {n} |->
                      CASE q = n -> t
                        [] q = p -> s
                        [] OTHER -> met[q]]
  BY DEF MeetHere
<1>2. /\ Hearing(procs[p]) /\ Busy(procs[p]) /\ Active(procs[p]) /\ ~Free(procs[p])
      /\ cmd = Task(procs[p]) /\ Allowed(cmd) /\ procs[p].job.at = "idle"
      /\ procs[p].alive /\ procs[p].up = <<>> /\ ~Met
  BY <1>1, HearShape
<1>3. cmd \in Records /\ main.at \in {"meet", "rebuild"}
  BY <1>1, <1>2, AllowedWords
<1>4. cmd[3] \in Friends /\ cmd[3] \in Names /\ cmd[4] \in Nat
  BY <1>3 DEF Records, Names
<1>5. Fresh(cmd[3])
  BY <1>2, <1>3 DEF LiveInv, PhaseInv, FreshInv
<1>6. n \in Pids \ DOMAIN procs
  BY <1>4, <1>5, NewPidIsNew DEF LiveInv, Core
<1>7. kid \in KidRecords /\ kid.pid = n /\ kid.name = cmd[3] /\ kid.value = cmd[4]
  BY <1>4, <1>6 DEF KidRecords
<1>8. /\ DOMAIN job = {"cmd", "at", "k", "success", "buf", "fifo", "say"}
      /\ job.cmd = cmd /\ job.at = "done" /\ job.say = <<Success>>
  BY DEF Job
<1>9. /\ DOMAIN t = {"name", "value", "kids", "alive", "job", "down", "up"}
      /\ t.name = cmd[3] /\ t.value = cmd[4] /\ t.kids = <<>> /\ t.alive = TRUE
      /\ t.job = Idle /\ t.down = <<>> /\ t.up = <<>>
  BY DEF NewProc
<1> HIDE DEF cmd, n, kid, job, t, s
<1>10. Shaped(t) /\ Free(t)
  <2>1. <<>> \in Seq(KidRecords)
    OBVIOUS
  <2>2. QED  BY <1>4, <1>9, <2>1, IdleFields DEF Shaped, Free
<1>11. /\ DOMAIN met[p] = {"name", "value", "kids", "alive", "job", "down", "up"}
       /\ met[p].name = procs[p].name /\ met[p].kids = procs[p].kids
       /\ met[p].alive = procs[p].alive /\ met[p].up = procs[p].up /\ met[p].down = <<>>
       /\ met[p].job = job /\ met[p].value = procs[p].value
       /\ \A q \in DOMAIN procs : q # p => met[q] = procs[q]
  <2>1. DOMAIN procs[p] = {"name", "value", "kids", "alive", "job", "down", "up"}
    BY DEF Shape, Shaped
  <2>2. QED  BY <2>1 DEF Start
<1> HIDE DEF met
<1>12. /\ DOMAIN s = {"name", "value", "kids", "alive", "job", "down", "up"}
       /\ s.name = procs[p].name /\ s.kids = Append(procs[p].kids, kid)
       /\ s.alive = TRUE /\ s.up = <<>> /\ s.down = <<>>
       /\ s.job = job /\ s.value = procs[p].value
  BY <1>2, <1>11 DEF s
<1>13. NewAt(p, s, n, t)
  <2>1. n # p /\ n \notin DOMAIN procs
    BY <1>6
  <2>2. procs'[p] = s
    <3>1. p \in DOMAIN procs \cup {n}
      OBVIOUS
    <3>2. procs'[p] = CASE p = n -> t [] p = p -> s [] OTHER -> met[p]
      BY <1>1, <3>1
    <3>3. QED  BY <2>1, <3>2
  <2>3. procs'[n] = t /\ DOMAIN procs' = DOMAIN procs \cup {n}
    <3>1. n \in DOMAIN procs \cup {n}
      OBVIOUS
    <3>2. procs'[n] = CASE n = n -> t [] n = p -> s [] OTHER -> met[n]
      BY <1>1, <3>1
    <3>3. DOMAIN procs' = DOMAIN procs \cup {n}
      BY <1>1
    <3>4. QED  BY <2>1, <3>2, <3>3
  <2>4. \A q \in DOMAIN procs : q # p => procs'[q] = procs[q]
    BY <1>1, <1>11, <2>1
  <2>5. QED  BY <2>2, <2>3, <2>4 DEF NewAt
<1>14. Shaped(s)
  <2>1. Shaped(procs[p]) /\ procs[p].kids \in Seq(KidRecords)
    BY DEF Shape, Shaped
  <2>2. Append(procs[p].kids, kid) \in Seq(KidRecords)
    BY <1>7, <2>1
  <2>3. QED  BY <1>8, <1>12, <2>1, <2>2 DEF Shaped
<1>15. s.job.at = "done" /\ s.job.say = <<Success>> /\ s.job.cmd = cmd /\ Task(s) = cmd /\ Busy(s)
  BY <1>8, <1>12 DEF Task, Busy
<1>16. Saying(s)
  BY <1>1, <1>12, <1>15, Words DEF Saying
<1>17. \A m : Serves(procs[p], m, main.at) => Serves(s, m, main.at)
  <2>1. \A m : Serves(procs[p], m, main.at) => m = cmd
    BY <1>2, ServesTask
  <2>2. IsReply(s.job.say[1], cmd, main.at)
    BY <1>1, <1>15, Words DEF IsReply
  <2>3. QED  BY <1>15, <1>16, <2>1, <2>2 DEF Serves
<1>18. RootServes(s)
  BY <1>1, <1>15, <1>16, Words DEF RootServes
<1>19. Shape' /\ Core'
  <2>1. Core /\ procs[p].job.at # "wait" /\ s.job.at # "wait" /\ s.alive
    BY <1>2, <1>12, <1>15 DEF LiveInv
  <2>2. Fresh(kid.name) /\ t.name = kid.name /\ t.kids = <<>> /\ kid.pid = n
    BY <1>5, <1>7, <1>9
  <2>3. s.name = procs[p].name /\ s.kids = Append(procs[p].kids, kid)
    BY <1>12
  <2>4. Busy(s) => Allowed(Task(s))
    BY <1>2, <1>15
  <2>5. QED
    BY <1>2, <1>6, <1>7, <1>10, <1>13, <1>14, <1>17, <1>18, <2>1, <2>2, <2>3, <2>4, MeetStep
<1>20. PhaseInv'
  <2>1. main' = main /\ fifo' = fifo /\ main.at \notin {"find", "adopt", "free"}
    BY <1>3
  <2>2. Met'
    BY <1>13, <1>15 DEF Met, NewAt
  <2>3. FreshInv'
    BY <2>2 DEF FreshInv
  <2>4. TodoInv'
    <3> SUFFICES ASSUME main.at = "rebuild", NEW i \in DOMAIN main.todo
                 PROVE  /\ \A q \in DOMAIN procs' : procs'[q].name # main.todo[i][3]
                        /\ \A q \in DOMAIN procs' :
                              Busy(procs'[q]) => Task(procs'[q])[3] # main.todo[i][3]
      BY <2>1 DEF TodoInv, Fresh, LiveInv, PhaseInv
    <3>1. /\ Fresh(main.todo[i][3])
          /\ \A q \in DOMAIN procs : Busy(procs[q]) => Task(procs[q])[3] # main.todo[i][3]
      BY DEF TodoInv, LiveInv, PhaseInv
    <3>2. cmd[3] # main.todo[i][3]
      BY <1>2, <3>1
    <3>3. \A q \in DOMAIN procs' : q = n \/ q = p \/ (q \in DOMAIN procs /\ procs'[q] = procs[q])
      <4>1. DOMAIN procs' = DOMAIN procs \cup {n}
            /\ \A q \in DOMAIN procs : q # p => procs'[q] = procs[q]
        BY <1>13 DEF NewAt
      <4>2. QED  BY <4>1
    <3>4. procs'[p] = s /\ procs'[n] = t
      BY <1>13 DEF NewAt
    <3>5. ~Busy(t)
      BY <1>10, FreeFacts
    <3>6. QED  BY <1>9, <1>12, <1>15, <3>1, <3>2, <3>3, <3>4, <3>5 DEF Fresh
  <2>5. QED
    BY <2>1, <2>3, <2>4
       DEF PhaseInv, FindInv, RecordInv, BeAdoptInv, RootAdoptInv, FreeInv
<1>21. QED  BY <1>19, <1>20 DEF LiveInv

-----------------------------------------------------------------------------
(* A process asks a child.                                                 *)

(* What may be asked of a process may be passed on to its children.        *)
LEMMA AllowedBelow ==
    ASSUME NEW m, Allowed(m), NEW name
    PROVE  Allowed(ForKid(m, name))
<1>1. CASE m[1] = "Adopt" /\ m[3] = name
  <2>1. ForKid(m, name) = <<"beAdopt", m[4]>>
    BY <1>1 DEF ForKid
  <2>2. m[4] \in Divisors /\ main.at = "adopt"
    BY <1>1, AllowedWords
  <2>3. QED  BY <2>1, <2>2 DEF Allowed
<1>2. CASE ~(m[1] = "Adopt" /\ m[3] = name) /\ m[1] = "Check" /\ m[2] = name
  <2>1. ForKid(m, name) = <<"Collect">>
    BY <1>2 DEF ForKid, ForItself
  <2>2. main.at = "check"
    BY <1>2, AllowedWords
  <2>3. QED  BY <2>1, <2>2 DEF Allowed
<1>3. CASE ~(m[1] = "Adopt" /\ m[3] = name) /\ m[1] = "checkForGraduate" /\ m[2] = name
  <2>1. ForKid(m, name) = <<"graduate">>
    BY <1>3 DEF ForKid, ForItself
  <2>2. main.at \in {"graduate", "free"}
    BY <1>3, AllowedWords
  <2>3. QED  BY <2>1, <2>2 DEF Allowed
<1>4. CASE /\ ~(m[1] = "Adopt" /\ m[3] = name) /\ ~(m[1] = "Check" /\ m[2] = name)
           /\ ~(m[1] = "checkForGraduate" /\ m[2] = name)
  BY <1>4 DEF ForKid, ForItself
<1>5. QED  BY <1>1, <1>2, <1>3, <1>4

(* The process p, which asks its k-th child, and the child.                *)
LEMMA AskShape ==
    ASSUME Shape, LiveInv, NEW p \in DOMAIN procs, Asking(p),
           procs[p].job.k <= Len(procs[p].kids)
    PROVE  LET k == procs[p].job.k
               r == Kid(p).pid
           IN  /\ k \in DOMAIN procs[p].kids /\ k \in 1..Len(procs[p].kids)
               /\ Kid(p) = procs[p].kids[k]
               /\ r \in DOMAIN procs /\ r # p /\ r # Root
               /\ procs[r].name = Kid(p).name
               /\ Free(procs[r]) /\ procs[r].alive
               /\ Working(procs[p]) /\ procs[p].job.at = "ask" /\ Active(procs[p])
               /\ Busy(procs[p]) /\ Task(procs[p]) = procs[p].job.cmd
               /\ Allowed(procs[p].job.cmd) /\ ~Met
<1> DEFINE k == procs[p].job.k
           r == Kid(p).pid
<1>1. procs[p].alive /\ procs[p].job.at = "ask" /\ procs[p].job.say = <<>>
  BY DEF Asking, Alive
<1>2. Working(procs[p])
  BY <1>1, KnownByJob DEF ByJob
<1>3. Busy(procs[p]) /\ Task(procs[p]) = procs[p].job.cmd /\ Active(procs[p])
  BY <1>1, <1>2 DEF Busy, Task, Working, Active
<1>4. Allowed(procs[p].job.cmd)
  BY <1>3 DEF LiveInv, Core, CmdInv
<1>5. k \in 1..Len(procs[p].kids) /\ k \in DOMAIN procs[p].kids
  <2>1. Len(procs[p].kids) \in Nat /\ DOMAIN procs[p].kids = 1..Len(procs[p].kids)
    BY KidDomain DEF Shape
  <2>2. QED  BY <1>2, <2>1 DEF Working
<1>6. r = procs[p].kids[k].pid /\ Kid(p) = procs[p].kids[k]
  BY DEF Kid
<1>7. r \in DOMAIN procs /\ r # p /\ r # Root
  BY <1>5, <1>6, NotOwnKid DEF LiveInv, Core
<1>8. procs[r].name = Kid(p).name
  BY <1>5, <1>6 DEF LiveInv, Core, TreeInv, KidInv
<1>9. Free(procs[r])
  BY <1>1, <1>5, <1>6 DEF LiveInv, Core, ServedInv, WaitsFor
<1>10. procs[r].alive
  BY <1>9 DEF Free
<1>11. ~Met
  BY <1>1, <1>2, <1>3, NotMet, Words DEF Working
<1>12. QED
  BY <1>1, <1>2, <1>3, <1>4, <1>5, <1>6, <1>7, <1>8, <1>9, <1>10, <1>11

(* What Send makes of the two: "ps" may have other children in p.          *)
ButForKids(ps, p) ==
    /\ DOMAIN ps = DOMAIN procs
    /\ \A q \in DOMAIN procs : q # p => ps[q] = procs[q]
    /\ DOMAIN ps[p] = DOMAIN procs[p]
    /\ ps[p].name = procs[p].name /\ ps[p].value = procs[p].value
    /\ ps[p].kids \in Seq(KidRecords)
    /\ ps[p].alive = procs[p].alive /\ ps[p].job = procs[p].job
    /\ ps[p].down = procs[p].down /\ ps[p].up = procs[p].up

(* The process p waits for the child r, which has a command.               *)
Asks(p, s, r, t, kids, msg) ==
    /\ BothAt(p, s, r, t) /\ Shaped(s) /\ Shaped(t)
    /\ s.name = procs[p].name /\ s.value = procs[p].value /\ s.kids = kids
    /\ s.alive = procs[p].alive /\ s.down = procs[p].down /\ s.up = procs[p].up
    /\ s.job.at = "wait" /\ s.job.cmd = procs[p].job.cmd
    /\ s.job.k = procs[p].job.k /\ s.job.say = procs[p].job.say
    /\ s.job.success = procs[p].job.success /\ s.job.fifo = procs[p].job.fifo
    /\ t.name = procs[r].name /\ t.value = procs[r].value
    /\ t.kids = procs[r].kids /\ t.alive /\ t.down = <<msg>>
    /\ t.up = procs[r].up /\ t.job = procs[r].job

(* The write of send_command_to_child reaches the child.                   *)
LEMMA Sent ==
    ASSUME Shape, NEW p \in DOMAIN procs, NEW r \in DOMAIN procs, r # p,
           procs[r].alive, procs[r].down = <<>>,
           NEW msg, NEW ps, ButForKids(ps, p),
           procs' = Send(ps, p, r, msg)
    PROVE  \E s, t : Asks(p, s, r, t, ps[p].kids, msg)
<1> DEFINE s == procs'[p]
           t == procs'[r]
<1>1. /\ DOMAIN ps = DOMAIN procs
      /\ \A q \in DOMAIN procs : q # p => ps[q] = procs[q]
      /\ DOMAIN ps[p] = DOMAIN procs[p]
      /\ ps[p].name = procs[p].name /\ ps[p].value = procs[p].value
      /\ ps[p].kids \in Seq(KidRecords)
      /\ ps[p].alive = procs[p].alive /\ ps[p].job = procs[p].job
      /\ ps[p].down = procs[p].down /\ ps[p].up = procs[p].up
  BY DEF ButForKids
<1>2. /\ DOMAIN procs[p] = {"name", "value", "kids", "alive", "job", "down", "up"}
      /\ DOMAIN procs[r] = {"name", "value", "kids", "alive", "job", "down", "up"}
      /\ DOMAIN procs[p].job = {"cmd", "at", "k", "success", "buf", "fifo", "say"}
      /\ Shaped(procs[p]) /\ Shaped(procs[r])
  BY DEF Shape, Shaped
<1>3. Alive(ps, r) /\ ps[r] = procs[r]
  BY <1>1 DEF Alive
<1>4. procs' = [ps EXCEPT ![r].down = Append(@, msg), ![p].job.at = "wait"]
  BY <1>3 DEF Send
<1>5. DOMAIN procs' = DOMAIN procs /\ \A q \in DOMAIN procs : q \notin {p, r} => procs'[q] = procs[q]
  BY <1>1, <1>4
<1>6. /\ DOMAIN t = DOMAIN procs[r]
      /\ t.name = procs[r].name /\ t.value = procs[r].value
      /\ t.kids = procs[r].kids /\ t.alive = procs[r].alive /\ t.down = <<msg>>
      /\ t.up = procs[r].up /\ t.job = procs[r].job
  <2>1. t = [procs[r] EXCEPT !.down = Append(@, msg)]
    BY <1>1, <1>3, <1>4
  <2>2. Append(procs[r].down, msg) = <<msg>>
    BY OneAppended
  <2> HIDE DEF t
  <2>3. QED  BY <1>2, <2>1, <2>2
<1>7. s = [ps[p] EXCEPT !.job = [procs[p].job EXCEPT !.at = "wait"]]
  BY <1>1, <1>4
<1> DEFINE job == [procs[p].job EXCEPT !.at = "wait"]
<1>8. /\ DOMAIN job = DOMAIN procs[p].job /\ job.at = "wait"
      /\ job.cmd = procs[p].job.cmd /\ job.k = procs[p].job.k /\ job.say = procs[p].job.say
      /\ job.success = procs[p].job.success /\ job.fifo = procs[p].job.fifo
  BY <1>2
<1> HIDE DEF job
<1>9. s = [ps[p] EXCEPT !.job = job]
  BY <1>7 DEF job
<1> HIDE DEF s
<1>10. /\ DOMAIN s = DOMAIN procs[p]
       /\ s.name = procs[p].name /\ s.value = procs[p].value /\ s.kids = ps[p].kids
       /\ s.alive = procs[p].alive /\ s.down = procs[p].down /\ s.up = procs[p].up
       /\ s.job = job
  BY <1>1, <1>2, <1>9
<1> HIDE DEF t
<1>11. BothAt(p, s, r, t)
  BY <1>5 DEF BothAt, s, t
<1>12. Shaped(s)
  BY <1>1, <1>2, <1>8, <1>10 DEF Shaped
<1>13. Shaped(t)
  BY <1>2, <1>6 DEF Shaped
<1>14. QED  BY <1>6, <1>8, <1>10, <1>11, <1>12, <1>13 DEF Asks

(* The part of the invariant that does not depend on the command.          *)
LEMMA AskCore ==
    ASSUME Shape, LiveInv, Root \in DOMAIN procs, UNCHANGED main,
           NEW p \in DOMAIN procs, Asking(p), procs[p].job.k <= Len(procs[p].kids),
           NEW s, NEW t, BothAt(p, s, Kid(p).pid, t), Shaped(s), Shaped(t),
           KeepsKids(s, procs[p]), KeepsKids(t, procs[Kid(p).pid]), Len(s.kids) = Len(procs[p].kids),
           s.alive, s.down = <<>>, s.up = <<>>, s.job.at = "wait",
           s.job.cmd = procs[p].job.cmd, s.job.k = procs[p].job.k, s.job.say = <<>>,
           s.job.success = TRUE,
           t.alive, t.down = <<ForKid(procs[p].job.cmd, Kid(p).name)>>, t.up = <<>>, t.job = Idle
    PROVE  Shape' /\ SameTree /\ Core'
<1> DEFINE k == procs[p].job.k
           r == Kid(p).pid
           m == ForKid(procs[p].job.cmd, Kid(p).name)
<1>1. /\ k \in DOMAIN procs[p].kids /\ k \in 1..Len(procs[p].kids)
      /\ Kid(p) = procs[p].kids[k]
      /\ r \in DOMAIN procs /\ r # p /\ r # Root
      /\ procs[r].name = Kid(p).name
      /\ Free(procs[r]) /\ procs[r].alive
      /\ Working(procs[p]) /\ procs[p].job.at = "ask" /\ Active(procs[p])
      /\ Busy(procs[p]) /\ Task(procs[p]) = procs[p].job.cmd
      /\ Allowed(procs[p].job.cmd) /\ ~Met
  BY AskShape
<1>2. Working(s)
  BY <1>1 DEF Working
<1>3. Task(s) = procs[p].job.cmd
  BY DEF Task
<1>4. \A n : Serves(procs[p], n, main.at) => Serves(s, n, main.at)
  <2>1. \A n : Serves(procs[p], n, main.at) => n = procs[p].job.cmd
    BY <1>1, ServesTask
  <2>2. Serves(s, procs[p].job.cmd, main.at)
    BY <1>2 DEF Serves
  <2>3. QED  BY <2>1, <2>2
<1>5. RootServes(s)
  BY <1>2 DEF RootServes
<1>6. t.down[1] = m /\ OneMessage(t.down) /\ t.down # <<>>
  BY Words
<1>7. Task(t) = m
  <2>1. t.name = Kid(p).name
    BY <1>1 DEF KeepsKids
  <2>2. QED  BY <1>6, <2>1, ItselfIdempotent DEF Task
<1>8. Allowed(m)
  BY <1>1, AllowedBelow
<1>9. Hearing(t)
  BY <1>6 DEF Hearing
<1>10. Serves(t, m, main.at)
  BY <1>7, <1>9 DEF Serves
<1>11. ~Active(s)
  BY DEF Active
<1>12. t.job.at # "wait" /\ procs[r].job.at # "wait" /\ ~Free(procs[p]) /\ procs[p].job.at # "wait"
  BY <1>1, FreeFacts, IdleFields DEF Free
<1>13. Core
  BY DEF LiveInv
<1>14. Busy(s) => Allowed(Task(s))
  BY <1>1, <1>3
<1>15. Busy(t) => Allowed(Task(t))
  BY <1>7, <1>8
<1>16. r = procs[p].kids[k].pid /\ m = ForKid(s.job.cmd, procs[p].kids[k].name)
  BY <1>1
<1>17. IF s.job.at = "wait"
       THEN s.job.k = k /\ Serves(t, ForKid(s.job.cmd, procs[p].kids[k].name), main.at)
       ELSE Free(t)
  BY <1>10, <1>16
<1> HIDE DEF r, m, k
<1>18. BothAt(p, s, r, t) /\ KeepsKids(t, procs[r])
  BY DEF r
<1>19. QED
  BY <1>1, <1>4, <1>5, <1>11, <1>12, <1>13, <1>14, <1>15, <1>16, <1>17, <1>18, LinkStep

(* A child is asked.                                                       *)
LEMMA AskStep ==
    ASSUME Shape, LiveInv, Root \in DOMAIN procs, UNCHANGED <<main, fifo>>,
           NEW p \in DOMAIN procs, Ask(p)
    PROVE  Shape' /\ LiveInv'
<1> DEFINE k == procs[p].job.k
           r == Kid(p).pid
           cmd == procs[p].job.cmd
           m == ForKid(cmd, Kid(p).name)
<1>1. /\ Asking(p) /\ k <= Len(procs[p].kids) /\ cmd[1] # "beAdopt"
      /\ ~(cmd[1] = "Adopt" /\ Kid(p).name = cmd[3])
      /\ procs' = Send(procs, p, r, m)
  BY DEF Ask
<1>2. /\ k \in DOMAIN procs[p].kids /\ k \in 1..Len(procs[p].kids)
      /\ Kid(p) = procs[p].kids[k]
      /\ r \in DOMAIN procs /\ r # p /\ r # Root
      /\ procs[r].name = Kid(p).name
      /\ Free(procs[r]) /\ procs[r].alive
      /\ Working(procs[p]) /\ procs[p].job.at = "ask" /\ Active(procs[p])
      /\ Busy(procs[p]) /\ Task(procs[p]) = procs[p].job.cmd
      /\ Allowed(procs[p].job.cmd) /\ ~Met
  BY <1>1, AskShape
<1>3. procs[p].kids \in Seq(KidRecords) /\ procs[r].down = <<>> /\ procs[r].up = <<>>
      /\ procs[r].job = Idle
  BY <1>2 DEF Shape, Shaped, Free
<1> HIDE DEF r, m, cmd
<1>4. PICK s, t : Asks(p, s, r, t, procs[p].kids, m)
  <2>1. procs' = Send(procs, p, r, m)
    BY <1>1
  <2>2. r \in DOMAIN procs /\ r # p /\ procs[r].alive /\ procs[r].down = <<>>
    BY <1>2, <1>3
  <2>3. ButForKids(procs, p)
    BY <1>3 DEF ButForKids
  <2>4. QED  BY <2>1, <2>2, <2>3, Sent
<1>5. /\ BothAt(p, s, r, t) /\ Shaped(s) /\ Shaped(t)
      /\ s.name = procs[p].name /\ s.value = procs[p].value /\ s.kids = procs[p].kids
      /\ s.alive = procs[p].alive /\ s.down = procs[p].down /\ s.up = procs[p].up
      /\ s.job.at = "wait" /\ s.job.cmd = procs[p].job.cmd
      /\ s.job.k = procs[p].job.k /\ s.job.say = procs[p].job.say
      /\ s.job.success = procs[p].job.success /\ s.job.fifo = procs[p].job.fifo
      /\ t.name = procs[r].name /\ t.value = procs[r].value
      /\ t.kids = procs[r].kids /\ t.alive /\ t.down = <<m>>
      /\ t.up = procs[r].up /\ t.job = procs[r].job
  BY <1>4 DEF Asks
<1>6. s.alive /\ s.down = <<>> /\ s.up = <<>> /\ s.job.say = <<>> /\ s.job.success = TRUE
      /\ Len(s.kids) = Len(procs[p].kids) /\ t.up = <<>> /\ t.job = Idle
  BY <1>2, <1>3, <1>5 DEF Working
<1>7. KeepsKids(s, procs[p]) /\ KeepsKids(t, procs[r])
  BY <1>5 DEF KeepsKids
<1>8. Shape' /\ SameTree /\ Core'
  BY <1>1, <1>5, <1>6, <1>7, AskCore DEF r, m, cmd
<1>9. Task(s) = cmd /\ Task(t) = m /\ procs'[p] = s /\ procs'[r] = t
  <2>1. Task(s) = cmd
    BY <1>5, <1>6 DEF Task, cmd
  <2>2. t.down[1] = m /\ t.down # <<>> /\ t.name = Kid(p).name
    BY <1>2, <1>5, Words DEF r
  <2>3. Task(t) = m
    BY <2>2, ItselfIdempotent DEF Task, m
  <2>4. QED  BY <1>5, <2>1, <2>3 DEF BothAt
<1>10. m[1] = "Meet" <=> cmd[1] = "Meet"
  BY <1>2, AllowedWords, AllowedBelow DEF m, cmd
<1>11. cmd[1] = "Meet" \/ cmd[1] = "Adopt" => m = cmd
  BY <1>1 DEF m, ForKid, ForItself
<1>12. main.at \in {"meet", "rebuild"} =>
           \A q \in {p, r} : Busy(procs'[q]) =>
               \E x \in DOMAIN procs :
                   Busy(procs[x]) /\ Task(procs'[q])[3] = Task(procs[x])[3]
  <2>1. main.at \in {"meet", "rebuild"} => cmd[1] = "Meet"
    BY <1>2, AllowedWords DEF cmd
  <2>2. QED  BY <1>2, <1>9, <1>11, <2>1 DEF cmd
<1>13. main.at = "find" =>
           \A q \in {p, r} :
               /\ procs'[q].value = procs[q].value
               /\ Finds(q, procs'[q].up)
               /\ procs'[q].job.say # <<>> => Finds(q, procs'[q].job.say[1])
  BY <1>5, <1>6, <1>9, IdleFields DEF Finds
<1>14. main.at = "adopt" => \A q \in {p, r} : BeAdopts(q, procs'[q])
  <2>1. main.at = "adopt" => cmd[1] = "Adopt"
    BY <1>1, <1>2, AllowedWords DEF cmd
  <2>2. QED  BY <1>9, <1>11, <2>1 DEF BeAdopts
<1>15. Root \in {p, r} /\ main.at = "adopt" => RootAdopts(procs'[Root])
  <2>1. main.at = "adopt" => RootAdopts(procs[Root])
    BY DEF LiveInv, PhaseInv, RootAdoptInv
  <2>2. QED  BY <1>2, <1>9, <2>1 DEF RootAdopts, NotYetAsked, cmd
<1>16. Root \in {p, r} /\ main.at = "free" => RootFrees(procs'[Root])
  <2>1. main.at = "free" => RootFrees(procs[Root])
    BY DEF LiveInv, PhaseInv, FreeInv
  <2>2. QED  BY <1>2, <1>5, <1>9, <2>1 DEF RootFrees, cmd
<1>17. {p, r} \in SUBSET DOMAIN procs
       /\ \A q \in DOMAIN procs \ {p, r} : procs'[q] = procs[q]
  BY <1>2, <1>5 DEF BothAt
<1>18. PhaseInv'
  BY <1>2, <1>8, <1>12, <1>13, <1>14, <1>15, <1>16, <1>17, PhaseStep
<1>19. QED  BY <1>8, <1>18 DEF LiveInv

-----------------------------------------------------------------------------
(* A child is adopted.                                                     *)

(* Children of two processes with the same name are the same child.        *)
LEMMA KidNames ==
    ASSUME TreeInv, NEW q \in DOMAIN procs, NEW x \in DOMAIN procs,
           NEW i \in DOMAIN procs[q].kids, NEW j \in DOMAIN procs[x].kids,
           procs[q].kids[i].name = procs[x].kids[j].name
    PROVE  q = x /\ i = j
<1>1. /\ procs[q].kids[i].pid \in DOMAIN procs /\ procs[x].kids[j].pid \in DOMAIN procs
      /\ procs[procs[q].kids[i].pid].name = procs[q].kids[i].name
      /\ procs[procs[x].kids[j].pid].name = procs[x].kids[j].name
  BY DEF TreeInv, KidInv
<1>2. procs[q].kids[i].pid = procs[x].kids[j].pid
  BY <1>1 DEF TreeInv, NameInv
<1>3. QED  BY <1>2 DEF TreeInv, OneParent

(* The child that is adopted is one of the root.                           *)
LEMMA AdoptedAtRoot ==
    ASSUME Shape, LiveInv, Root \in DOMAIN procs, main.at \in {"adopt", "free"}, NEW q \in DOMAIN procs,
           NEW i \in DOMAIN procs[q].kids, procs[q].kids[i].name = main.cmd[3]
    PROVE  q = Root
<1> DEFINE x == procs[q].kids[i].pid
<1>1. x \in DOMAIN procs /\ procs[x].name = main.cmd[3]
  BY DEF LiveInv, Core, TreeInv, KidInv
<1>2. x \in KidPids(procs, Root)
  BY <1>1 DEF LiveInv, PhaseInv, RecordInv
<1>3. PICK j \in DOMAIN procs[Root].kids : procs[Root].kids[j].pid = x
  BY <1>2 DEF KidPids
<1>4. QED  BY <1>3 DEF LiveInv, Core, TreeInv, OneParent

(* What is recorded after one more record.                                 *)
LEMMA OneMore ==
    ASSUME NEW recs \in Seq(Records), NEW rec \in Records, Different(recs),
           \A i \in DOMAIN recs : recs[i][3] # rec[3]
    PROVE  /\ Append(recs, rec) \in Seq(Records)
           /\ Different(Append(recs, rec))
           /\ NamesIn(Append(recs, rec)) = NamesIn(recs) \cup {rec[3]}
<1> DEFINE n == Len(recs)
           more == Append(recs, rec)
<1>1. /\ n \in Nat /\ DOMAIN recs = 1..n /\ DOMAIN more = 1..(n + 1)
      /\ \A i \in 1..n : more[i] = recs[i]
      /\ more[n + 1] = rec /\ more \in Seq(Records)
  OBVIOUS
<1> HIDE DEF more, n
<1>2. \A i \in 1..(n + 1) : i \in 1..n \/ i = n + 1
  BY <1>1
<1>3. Different(more)
  <2> SUFFICES ASSUME NEW i \in 1..(n + 1), NEW j \in 1..(n + 1), more[i][3] = more[j][3]
               PROVE  i = j
    BY <1>1 DEF Different
  <2>1. CASE i \in 1..n /\ j \in 1..n
    BY <1>1, <2>1 DEF Different
  <2>2. CASE i \in 1..n /\ j = n + 1
    BY <1>1, <2>2
  <2>3. CASE i = n + 1 /\ j \in 1..n
    BY <1>1, <2>3
  <2>4. QED  BY <1>2, <2>1, <2>2, <2>3
<1>4. NamesIn(more) = NamesIn(recs) \cup {rec[3]}
  <2>1. ASSUME NEW x \in NamesIn(more)
        PROVE  x \in NamesIn(recs) \cup {rec[3]}
    <3>1. PICK i \in 1..(n + 1) : x = more[i][3]
      BY <1>1 DEF NamesIn
    <3>2. QED  BY <1>1, <1>2, <3>1 DEF NamesIn
  <2>2. ASSUME NEW x \in NamesIn(recs)
        PROVE  x \in NamesIn(more)
    <3>1. PICK i \in 1..n : x = recs[i][3]
      BY <1>1 DEF NamesIn
    <3>2. i \in 1..(n + 1) /\ x = more[i][3]
      BY <1>1, <3>1
    <3>3. QED  BY <1>1, <3>2 DEF NamesIn
  <2>3. rec[3] \in NamesIn(more)
    <3>1. n + 1 \in 1..(n + 1)
      BY <1>1
    <3>2. QED  BY <1>1, <3>1 DEF NamesIn
  <2>4. QED  BY <2>1, <2>2, <2>3
<1>5. QED  BY <1>1, <1>3, <1>4 DEF more

(* Before a child is asked, neither it nor what is below it is recorded.   *)
LEMMA NotRecordedYet ==
    ASSUME Shape, LiveInv, Root \in DOMAIN procs, main.at = "adopt",
           NEW p \in DOMAIN procs, Asking(p), procs[p].job.k <= Len(procs[p].kids),
           \/ procs[p].job.cmd[1] = "Adopt" /\ Kid(p).name = procs[p].job.cmd[3]
           \/ procs[p].job.cmd[1] = "beAdopt"
    PROVE  /\ ~Recorded(Kid(p).name)
           /\ \A j \in DOMAIN procs[Kid(p).pid].kids : ~Recorded(procs[Kid(p).pid].kids[j].name)
           /\ p = Root <=> procs[p].job.cmd[1] = "Adopt"
           /\ p = Root => Kid(p).name = main.cmd[3]
           /\ p # Root => Recorded(procs[p].name) /\ procs[p].job.fifo = fifo.id
           /\ p # Root => \A j \in DOMAIN procs[p].kids :
                             j >= procs[p].job.k => ~Recorded(procs[p].kids[j].name)
<1> DEFINE k == procs[p].job.k
           r == Kid(p).pid
           cmd == procs[p].job.cmd
<1>1. /\ k \in DOMAIN procs[p].kids /\ k \in 1..Len(procs[p].kids)
      /\ Kid(p) = procs[p].kids[k]
      /\ r \in DOMAIN procs /\ r # p /\ r # Root
      /\ procs[r].name = Kid(p).name
      /\ Working(procs[p]) /\ procs[p].job.at = "ask"
      /\ Busy(procs[p]) /\ Task(procs[p]) = cmd /\ Allowed(cmd)
  BY AskShape
<1>2. ASSUME NEW j \in DOMAIN procs[r].kids, Recorded(procs[r].kids[j].name)
      PROVE  Recorded(Kid(p).name)
  <2>1. procs[r].kids[j].name # main.cmd[3]
    BY <1>1, AdoptedAtRoot
  <2>2. QED  BY <1>1, <1>2, <2>1 DEF LiveInv, PhaseInv, RecordInv
<1>3. CASE cmd[1] = "Adopt" /\ Kid(p).name = cmd[3]
  <2>1. Kid(p).name = main.cmd[3]
    BY <1>1, <1>3, AllowedWords
  <2>2. p = Root
    BY <1>1, <2>1, AdoptedAtRoot
  <2>3. fifo.records = <<>>
    BY <1>1, <2>2 DEF LiveInv, PhaseInv, RootAdoptInv, RootAdopts, NotYetAsked
  <2>4. ~Recorded(Kid(p).name)
    BY <2>3 DEF Recorded, NamesIn
  <2>5. QED  BY <1>2, <1>3, <2>1, <2>2, <2>4
<1>4. CASE cmd[1] = "beAdopt"
  <2>1. p # Root
    BY <1>1, <1>4 DEF LiveInv, PhaseInv, RootAdoptInv, RootAdopts
  <2>2. BeAdopts(p, procs[p])
    BY DEF LiveInv, PhaseInv, BeAdoptInv
  <2>3. Recorded(procs[p].name) /\ Unrecorded(p, k) /\ procs[p].job.fifo = fifo.id
    BY <1>1, <1>4, <2>2 DEF BeAdopts
  <2>4. \A j \in DOMAIN procs[p].kids : j >= k => ~Recorded(procs[p].kids[j].name)
    BY <2>3 DEF Unrecorded
  <2>5. ~Recorded(Kid(p).name)
    <3>1. k >= k
      BY <1>1
    <3>2. QED  BY <1>1, <2>4, <3>1
  <2>6. QED  BY <1>2, <1>4, <2>1, <2>3, <2>4, <2>5
<1>5. QED  BY <1>3, <1>4

(* The child is recorded, and then asked to be adopted: it was not         *)
(* recorded before, and nobody below it is.                                *)
LEMMA AskAdoptedPhase ==
    ASSUME Shape, MainInv, LiveInv, Root \in DOMAIN procs, UNCHANGED main, main.at = "adopt",
           NEW p \in DOMAIN procs, Asking(p), procs[p].job.k <= Len(procs[p].kids),
           \/ procs[p].job.cmd[1] = "Adopt" /\ Kid(p).name = procs[p].job.cmd[3]
           \/ procs[p].job.cmd[1] = "beAdopt",
           SameTree, NEW s, NEW t, BothAt(p, s, Kid(p).pid, t),
           s.name = procs[p].name, s.down = <<>>, s.job.at = "wait",
           s.job.cmd = procs[p].job.cmd, s.job.k = procs[p].job.k, s.job.fifo = procs[p].job.fifo,
           KeepsKids(s, procs[p]),
           t.name = procs[Kid(p).pid].name, t.job = Idle, t.down # <<>>,
           NEW rec \in Records, rec[3] = Kid(p).name,
           fifo'.records = Append(fifo.records, rec), fifo'.id = fifo.id
    PROVE  PhaseInv'
<1> DEFINE k == procs[p].job.k
           r == Kid(p).pid
           cmd == procs[p].job.cmd
           name == Kid(p).name
<1>1. /\ k \in DOMAIN procs[p].kids /\ k \in 1..Len(procs[p].kids)
      /\ Kid(p) = procs[p].kids[k]
      /\ r \in DOMAIN procs /\ r # p /\ r # Root
      /\ procs[r].name = name
      /\ procs[p].job.at = "ask" /\ Active(procs[p])
      /\ Busy(procs[p]) /\ Task(procs[p]) = cmd
  BY AskShape
<1>2. /\ ~Recorded(name)
      /\ \A j \in DOMAIN procs[r].kids : ~Recorded(procs[r].kids[j].name)
      /\ p = Root <=> cmd[1] = "Adopt"
      /\ p = Root => name = main.cmd[3]
      /\ p # Root => Recorded(procs[p].name) /\ procs[p].job.fifo = fifo.id
      /\ p # Root => \A j \in DOMAIN procs[p].kids : j >= k => ~Recorded(procs[p].kids[j].name)
  BY NotRecordedYet
<1>3. /\ fifo.records \in Seq(Records) /\ Different(fifo.records)
      /\ \A q \in DOMAIN procs : procs[q].name = main.cmd[3] => q \in KidPids(procs, Root)
      /\ \A q \in DOMAIN procs : \A i \in DOMAIN procs[q].kids :
            Recorded(procs[q].kids[i].name) =>
                procs[q].kids[i].name = main.cmd[3] \/ Recorded(procs[q].name)
  BY DEF LiveInv, PhaseInv, RecordInv
<1>4. /\ fifo'.records \in Seq(Records) /\ Different(fifo'.records)
      /\ NamesIn(fifo'.records) = NamesIn(fifo.records) \cup {name}
  <2>1. \A i \in DOMAIN fifo.records : fifo.records[i][3] # rec[3]
    BY <1>2 DEF Recorded, NamesIn
  <2>2. QED  BY <1>3, <2>1, OneMore
<1>5. \A n : Recorded(n)' <=> Recorded(n) \/ n = name
  BY <1>4 DEF Recorded
<1>6. /\ DOMAIN procs' = DOMAIN procs /\ main' = main
      /\ \A q \in DOMAIN procs : procs'[q].name = procs[q].name
      /\ \A q \in DOMAIN procs : DOMAIN procs'[q].kids = DOMAIN procs[q].kids
      /\ \A q \in DOMAIN procs : \A i \in DOMAIN procs[q].kids :
             procs'[q].kids[i].name = procs[q].kids[i].name
  BY DEF SameTree
<1>7. \A q \in DOMAIN procs : KidPids(procs', q) = KidPids(procs, q)
  BY SameKidPids
<1>8. ASSUME NEW q \in DOMAIN procs, NEW i \in DOMAIN procs[q].kids, procs[q].kids[i].name = name
      PROVE  q = p /\ i = k
  BY <1>1, <1>8, KidNames DEF LiveInv, Core
<1>9. /\ procs'[p] = s /\ procs'[r] = t
      /\ \A q \in DOMAIN procs : q \notin {p, r} => procs'[q] = procs[q]
  BY DEF BothAt
<1> HIDE DEF k, r, cmd, name
<1>10. RecordInv'
  <2>1. ASSUME NEW q \in DOMAIN procs, NEW i \in DOMAIN procs[q].kids,
               Recorded(procs[q].kids[i].name) \/ procs[q].kids[i].name = name
        PROVE  procs[q].kids[i].name = main.cmd[3] \/ Recorded(procs[q].name)
    <3>1. CASE Recorded(procs[q].kids[i].name)
      BY <1>3, <3>1
    <3>2. CASE procs[q].kids[i].name = name
      <4>1. q = p
        BY <1>8, <3>2
      <4>2. QED  BY <1>2, <3>2, <4>1
    <3>3. QED  BY <2>1, <3>1, <3>2
  <2>2. \A q \in DOMAIN procs' : \A i \in DOMAIN procs'[q].kids :
            Recorded(procs[q].kids[i].name)' =>
                procs'[q].kids[i].name = main.cmd[3] \/ Recorded(procs[q].name)'
    <3> SUFFICES ASSUME NEW q \in DOMAIN procs, NEW i \in DOMAIN procs[q].kids,
                        Recorded(procs[q].kids[i].name)'
                 PROVE  procs'[q].kids[i].name = main.cmd[3] \/ Recorded(procs[q].name)'
      BY <1>6
    <3>1. Recorded(procs[q].kids[i].name) \/ procs[q].kids[i].name = name
      BY <1>4, <1>6 DEF Recorded
    <3>2. Recorded(procs[q].name) => Recorded(procs[q].name)'
      BY <1>4, <1>6 DEF Recorded
    <3>3. QED  BY <1>6, <2>1, <3>1, <3>2
  <2>3. QED  BY <1>3, <1>4, <1>6, <1>7, <2>2 DEF RecordInv
<1>11. BeAdoptInv'
  <2> SUFFICES ASSUME NEW q \in DOMAIN procs
               PROVE  BeAdopts(q, procs[q])'
    BY <1>6 DEF BeAdoptInv
  <2>1. \A i : Unrecorded(q, i)' <=>
            \A j \in DOMAIN procs[q].kids :
                j >= i => ~Recorded(procs[q].kids[j].name) /\ procs[q].kids[j].name # name
    BY <1>4, <1>6 DEF Unrecorded, Recorded
  <2>2. Recorded(procs[q].name)' <=> Recorded(procs[q].name) \/ procs[q].name = name
    BY <1>4, <1>6 DEF Recorded
  <2>3. CASE q = r
    <3>1. \A j \in DOMAIN procs[r].kids : procs[r].kids[j].name # name
      BY <1>1, <1>8
    <3>2. Unrecorded(q, 1)'
      BY <1>2, <2>1, <2>3, <3>1
    <3>3. Recorded(procs[q].name)'
      BY <1>1, <2>2, <2>3
    <3>4. t.job.at = "idle"
      BY IdleFields
    <3>5. QED  BY <1>9, <2>3, <3>2, <3>3, <3>4 DEF BeAdopts
  <2>4. CASE q = p /\ p = Root
    <3>1. Task(s)[1] = "Adopt"
      BY <1>2, <2>4 DEF Task, cmd
    <3>2. QED  BY <1>9, <2>4, <3>1 DEF BeAdopts
  <2>5. CASE q = p /\ p # Root
    <3>1. \A j \in DOMAIN procs[p].kids :
              j >= k + 1 => ~Recorded(procs[p].kids[j].name) /\ procs[p].kids[j].name # name
      <4> SUFFICES ASSUME NEW j \in DOMAIN procs[p].kids, j >= k + 1
                   PROVE  ~Recorded(procs[p].kids[j].name) /\ procs[p].kids[j].name # name
        OBVIOUS
      <4>1. j \in Int /\ k \in Int
        BY <1>1, KidDomain DEF Shape
      <4>2. j >= k /\ j # k
        BY <4>1
      <4>3. QED  BY <1>2, <1>8, <2>5, <4>2
    <3>2. PICK l : l = s.job.k
      OBVIOUS
    <3>3. Unrecorded(q, l + 1)'
      <4>1. l = k
        BY <3>2 DEF k
      <4>2. Unrecorded(q, l + 1)' <=>
                \A j \in DOMAIN procs[q].kids :
                    j >= l + 1 => ~Recorded(procs[q].kids[j].name) /\ procs[q].kids[j].name # name
        BY <2>1
      <4>3. QED  BY <2>5, <3>1, <4>1, <4>2
    <3>4. Recorded(procs[q].name)'
      BY <1>2, <2>2, <2>5
    <3>5. s.job.fifo = fifo'.id
      BY <1>2, <2>5
    <3>6. QED  BY <1>9, <2>5, <3>2, <3>3, <3>4, <3>5 DEF BeAdopts
  <2>6. CASE q \notin {p, r}
    <3>1. BeAdopts(q, procs[q])
      BY DEF LiveInv, PhaseInv, BeAdoptInv
    <3>2. ~Active(procs[q])
      BY <1>1, <2>6 DEF LiveInv, Core, OneActive
    <3>3. procs[q].down = <<>> /\ procs[q].job.at \in {"idle", "wait"}
      BY <3>2, Inactive
    <3>4. \A j \in DOMAIN procs[q].kids : procs[q].kids[j].name # name
      BY <1>8, <2>6
    <3>5. \A i : Unrecorded(q, i) => Unrecorded(q, i)'
      BY <2>1, <3>4 DEF Unrecorded
    <3>6. procs'[q] = procs[q]
      BY <1>9, <2>6
    <3>7. Recorded(procs[q].name) => Recorded(procs[q].name)'
      BY <2>2
    <3>8. QED  BY <3>1, <3>3, <3>5, <3>6, <3>7 DEF BeAdopts
  <2>7. QED  BY <2>3, <2>4, <2>5, <2>6
<1>12. RootAdoptInv'
  <2>1. RootAdopts(procs[Root])
    BY DEF LiveInv, PhaseInv, RootAdoptInv
  <2>2. CASE p = Root
    <3>1. Task(s)[1] = "Adopt"
      BY <1>2, <2>2 DEF Task, cmd
    <3>2. s.kids[s.job.k].name = main.cmd[3]
      BY <1>1, <1>2, <2>2 DEF KeepsKids, k, name
    <3>3. QED  BY <1>6, <1>9, <2>2, <3>1, <3>2 DEF RootAdoptInv, RootAdopts, NotYetAsked
  <2>3. CASE p # Root
    <3>1. procs'[Root] = procs[Root]
      BY <1>1, <1>9, <2>3
    <3>2. fifo.records # <<>>
      BY <1>2, <2>3 DEF Recorded, NamesIn
    <3>3. QED  BY <1>6, <2>1, <3>1, <3>2 DEF RootAdoptInv, RootAdopts, NotYetAsked
  <2>4. QED  BY <2>2, <2>3
<1>13. QED
  BY <1>6, <1>10, <1>11, <1>12 DEF PhaseInv, FreshInv, TodoInv, FindInv, FreeInv

(* adopt and be_adopted take the value of a child and ask it.              *)
LEMMA AskAdoptedStep ==
    ASSUME Shape, MainInv, LiveInv, Root \in DOMAIN procs, UNCHANGED main,
           NEW p \in DOMAIN procs, AskAdopted(p)
    PROVE  Shape' /\ MainInv' /\ LiveInv'
<1> DEFINE job == procs[p].job
           k == job.k
           r == Kid(p).pid
           cmd == job.cmd
           name == Kid(p).name
           adopt == cmd[1] = "Adopt"
           modulo == IF adopt THEN cmd[4] ELSE cmd[2]
           value == Kid(p).value % modulo
           parent == IF adopt THEN cmd[2] ELSE procs[p].name
           opened == IF adopt THEN fifo.there ELSE fifo.there /\ fifo.id = job.fifo
           ps == [procs EXCEPT ![p].kids[k].value = value]
           rec == <<"Meet", parent, name, value>>
<1>1. /\ Asking(p) /\ k <= Len(procs[p].kids)
      /\ (adopt /\ name = cmd[3]) \/ cmd[1] = "beAdopt"
      /\ modulo # 0 => /\ procs' = Send(ps, p, r, <<"beAdopt", modulo>>)
                       /\ fifo' = IF opened THEN [fifo EXCEPT !.records = Append(@, rec)] ELSE fifo
  BY DEF AskAdopted
<1>2. /\ k \in DOMAIN procs[p].kids /\ k \in 1..Len(procs[p].kids)
      /\ Kid(p) = procs[p].kids[k]
      /\ r \in DOMAIN procs /\ r # p /\ r # Root
      /\ procs[r].name = Kid(p).name
      /\ Free(procs[r]) /\ procs[r].alive
      /\ Working(procs[p]) /\ procs[p].job.at = "ask" /\ Active(procs[p])
      /\ Busy(procs[p]) /\ Task(procs[p]) = procs[p].job.cmd
      /\ Allowed(procs[p].job.cmd) /\ ~Met
  BY <1>1, AskShape
<1>3. main.at = "adopt"
  BY <1>1, <1>2, AllowedWords
<1>4. /\ p = Root <=> procs[p].job.cmd[1] = "Adopt"
      /\ p # Root => procs[p].job.fifo = fifo.id
  BY <1>1, <1>3, NotRecordedYet
<1>5. fifo.there /\ DOMAIN fifo = {"id", "there", "records"}
      /\ main.cmd \in {"Adopt"} \X Names \X Friends
  BY <1>3 DEF MainInv, Adoption
<1>6. opened
  BY <1>4, <1>5
<1>7. modulo \in Divisors
  BY <1>1, <1>2, AllowedWords
<1>8. ForKid(cmd, name) = <<"beAdopt", modulo>>
  <2>1. CASE adopt /\ name = cmd[3]
    BY <2>1 DEF ForKid
  <2>2. CASE cmd[1] = "beAdopt"
    <3>1. cmd = <<"beAdopt", cmd[2]>>
      BY <1>2, <2>2, AllowedWords
    <3>2. ForKid(cmd, name) = cmd
      BY <2>2 DEF ForKid, ForItself
    <3>3. QED  BY <2>2, <3>1, <3>2
  <2>3. QED  BY <1>1, <2>1, <2>2
<1>9. procs[p].kids \in Seq(KidRecords) /\ Kid(p) \in KidRecords
      /\ DOMAIN procs[p] = {"name", "value", "kids", "alive", "job", "down", "up"}
      /\ procs[p].name \in Names
  <2>1. Shaped(procs[p])
    BY DEF Shape
  <2>2. QED  BY <1>2, <2>1, KidDomain DEF Shaped
<1>10. value \in Nat
  BY <1>7, <1>9 DEF KidRecords, Divisors
<1>11. rec \in Records
  <2>1. parent \in Names
    BY <1>2, <1>5, <1>9, AllowedWords
  <2>2. name \in Friends
    <3>1. name \in Names
      BY <1>9 DEF KidRecords
    <3>2. name # NotTako
      BY <1>2 DEF LiveInv, Core, TreeInv, NameInv
    <3>3. QED  BY <3>1, <3>2 DEF Names
  <2> HIDE DEF parent, name, value
  <2>3. QED  BY <1>10, <2>1, <2>2 DEF Records
<1>12. /\ DOMAIN ps = DOMAIN procs
       /\ \A q \in DOMAIN procs : q # p => ps[q] = procs[q]
       /\ DOMAIN ps[p] = DOMAIN procs[p]
       /\ ps[p].name = procs[p].name /\ ps[p].value = procs[p].value
       /\ ps[p].alive = procs[p].alive /\ ps[p].job = procs[p].job
       /\ ps[p].down = procs[p].down /\ ps[p].up = procs[p].up
       /\ ps[p].kids = [procs[p].kids EXCEPT ![k].value = value]
  <2> HIDE DEF value, k
  <2>1. QED  BY <1>9
<1>13. /\ ps[p].kids \in Seq(KidRecords)
       /\ Len(ps[p].kids) = Len(procs[p].kids)
       /\ DOMAIN ps[p].kids = DOMAIN procs[p].kids
       /\ \A i \in DOMAIN procs[p].kids :
              /\ ps[p].kids[i].pid = procs[p].kids[i].pid
              /\ ps[p].kids[i].name = procs[p].kids[i].name
  <2> DEFINE old == procs[p].kids
             new == ps[p].kids
             n == Len(old)
  <2>1. n \in Nat /\ DOMAIN old = 1..n /\ \A i \in 1..n : old[i] \in KidRecords
    BY <1>9
  <2>2. new = [old EXCEPT ![k].value = value]
    BY <1>12
  <2> HIDE DEF old, new, n, value, k
  <2>3. DOMAIN new = 1..n /\ \A i \in 1..n : i # k => new[i] = old[i]
    BY <2>1, <2>2
  <2>4. k \in 1..n
    BY <1>2 DEF old, n, k
  <2>5. new[k] = [old[k] EXCEPT !.value = value]
    BY <2>1, <2>2, <2>4
  <2>6. new[k] \in KidRecords /\ new[k].pid = old[k].pid /\ new[k].name = old[k].name
    BY <1>10, <2>1, <2>4, <2>5 DEF KidRecords
  <2>7. \A i \in 1..n : /\ new[i] \in KidRecords
                        /\ new[i].pid = old[i].pid /\ new[i].name = old[i].name
    BY <2>1, <2>3, <2>6
  <2>8. new = [i \in 1..n |-> new[i]]
    BY <2>1, <2>2, <2>3
  <2>9. new \in Seq(KidRecords) /\ Len(new) = n
    <3>1. new \in [1..n -> KidRecords]
      BY <2>7, <2>8
    <3>2. QED  BY <2>1, <3>1
  <2>10. QED  BY <2>1, <2>3, <2>7, <2>9 DEF old, new, n
<1>14. procs[r].down = <<>> /\ procs[r].up = <<>> /\ procs[r].job = Idle
  BY <1>2 DEF Free
<1>15. procs' = Send(ps, p, r, <<"beAdopt", modulo>>) /\ modulo # 0
  BY <1>1, <1>7 DEF Divisors
<1>16. fifo' = [fifo EXCEPT !.records = Append(@, rec)]
  BY <1>1, <1>6, <1>15
<1> HIDE DEF ps, modulo, value, rec, r, k, name, cmd, parent
<1> DEFINE msg == <<"beAdopt", modulo>>
<1> HIDE DEF msg
<1>17. PICK s, t : Asks(p, s, r, t, ps[p].kids, msg)
  <2>1. procs' = Send(ps, p, r, msg)
    BY <1>15 DEF msg
  <2>2. r \in DOMAIN procs /\ r # p /\ procs[r].alive
    BY <1>2 DEF r
  <2>3. ps[p].kids \in Seq(KidRecords)
    BY <1>13
  <2>4. ButForKids(ps, p)
    BY <1>12, <2>3 DEF ButForKids
  <2>5. procs[r].down = <<>>
    BY <1>14
  <2>6. QED  BY <2>1, <2>2, <2>3, <2>4, <2>5, Sent
<1>18. /\ BothAt(p, s, r, t) /\ Shaped(s) /\ Shaped(t)
       /\ s.name = procs[p].name /\ s.value = procs[p].value /\ s.kids = ps[p].kids
       /\ s.alive = procs[p].alive /\ s.down = procs[p].down /\ s.up = procs[p].up
       /\ s.job.at = "wait" /\ s.job.cmd = procs[p].job.cmd
       /\ s.job.k = procs[p].job.k /\ s.job.say = procs[p].job.say
       /\ s.job.success = procs[p].job.success /\ s.job.fifo = procs[p].job.fifo
       /\ t.name = procs[r].name /\ t.value = procs[r].value
       /\ t.kids = procs[r].kids /\ t.alive /\ t.down = <<msg>>
       /\ t.up = procs[r].up /\ t.job = procs[r].job
  BY <1>17 DEF Asks
<1>19. s.alive /\ s.down = <<>> /\ s.up = <<>> /\ s.job.say = <<>> /\ s.job.success = TRUE
       /\ Len(s.kids) = Len(procs[p].kids) /\ t.up = <<>> /\ t.job = Idle /\ t.down # <<>>
  BY <1>2, <1>13, <1>14, <1>18 DEF Working
<1>20. KeepsKids(s, procs[p]) /\ KeepsKids(t, procs[r])
  BY <1>13, <1>18 DEF KeepsKids
<1>21. t.down = <<ForKid(procs[p].job.cmd, Kid(p).name)>>
  BY <1>8, <1>18 DEF msg, cmd, name
<1>22. Shape' /\ SameTree /\ Core'
  BY <1>1, <1>18, <1>19, <1>20, <1>21, AskCore DEF r, k
<1>23. fifo'.records = Append(fifo.records, rec) /\ fifo'.id = fifo.id /\ fifo'.there = fifo.there
       /\ DOMAIN fifo' = DOMAIN fifo
  BY <1>5, <1>16
<1>24. rec[3] = Kid(p).name
  BY DEF rec, name
<1>25. PhaseInv'
  <2>1. BothAt(p, s, Kid(p).pid, t) /\ t.name = procs[Kid(p).pid].name
    BY <1>18 DEF r
  <2>2. \/ procs[p].job.cmd[1] = "Adopt" /\ Kid(p).name = procs[p].job.cmd[3]
        \/ procs[p].job.cmd[1] = "beAdopt"
    BY <1>1 DEF cmd, name
  <2>3. Asking(p) /\ procs[p].job.k <= Len(procs[p].kids)
    BY <1>1 DEF k
  <2> HIDE DEF job
  <2>4. QED
    BY <1>3, <1>11, <1>18, <1>19, <1>20, <1>22, <1>23, <1>24, <2>1, <2>2, <2>3, AskAdoptedPhase
<1>26. MainInv'
  BY <1>23 DEF MainInv
<1>27. QED  BY <1>22, <1>25, <1>26 DEF LiveInv

-----------------------------------------------------------------------------
(* A process reads the answer of a child.                                  *)

(* The child has replied and waits, or it has left after graduate.         *)
LEMMA AnswerShape ==
    ASSUME Shape, LiveInv, NEW p \in DOMAIN procs, Answers(p)
    PROVE  LET k == procs[p].job.k
               r == Kid(p).pid
               m == ForKid(procs[p].job.cmd, Kid(p).name)
           IN  /\ k \in DOMAIN procs[p].kids /\ k \in 1..Len(procs[p].kids)
               /\ Kid(p) = procs[p].kids[k] /\ Reply(p) = procs[r].up
               /\ r \in DOMAIN procs /\ r # p /\ r # Root
               /\ procs[r].name = Kid(p).name
               /\ Working(procs[p]) /\ procs[p].job.at = "wait" /\ ~Free(procs[p])
               /\ Busy(procs[p]) /\ Task(procs[p]) = procs[p].job.cmd
               /\ Allowed(procs[p].job.cmd) /\ Allowed(m)
               /\ Serves(procs[r], m, main.at) /\ IsReply(Reply(p), m, main.at)
               /\ Reply(p) # <<>> /\ Active(procs[r]) /\ procs[r].job.at # "wait"
               /\ procs[r].job.say = <<>>
               /\ m[1] # "graduate" => Replied(procs[r])
               /\ m[1] = "graduate" => Leaving(procs[r]) \/ Gone(procs[r])
<1> DEFINE k == procs[p].job.k
           r == Kid(p).pid
           m == ForKid(procs[p].job.cmd, Kid(p).name)
<1>1. procs[p].alive /\ procs[p].job.at = "wait" /\ (Reply(p) # <<>> \/ ~procs[r].alive)
  BY DEF Answers, Alive, IsGone
<1>2. Working(procs[p])
  BY <1>1, KnownByJob DEF ByJob
<1>3. Busy(procs[p]) /\ Task(procs[p]) = procs[p].job.cmd /\ ~Free(procs[p])
  BY <1>1, <1>2, IdleFields DEF Busy, Task, Working, Free
<1>4. Allowed(procs[p].job.cmd) /\ Allowed(m)
  BY <1>3, AllowedBelow DEF LiveInv, Core, CmdInv
<1>5. k \in 1..Len(procs[p].kids) /\ k \in DOMAIN procs[p].kids
  <2>1. DOMAIN procs[p].kids = 1..Len(procs[p].kids)
    BY KidDomain DEF Shape
  <2>2. QED  BY <1>1, <1>2, <2>1 DEF Working
<1>6. r = procs[p].kids[k].pid /\ Kid(p) = procs[p].kids[k] /\ Reply(p) = procs[r].up
  BY DEF Kid, Reply
<1>7. r \in DOMAIN procs /\ r # p /\ r # Root
  BY <1>5, <1>6, NotOwnKid DEF LiveInv, Core
<1>8. procs[r].name = Kid(p).name
  BY <1>5, <1>6 DEF LiveInv, Core, TreeInv, KidInv
<1>9. Serves(procs[r], m, main.at)
  BY <1>1, <1>5, <1>6 DEF LiveInv, Core, ServedInv, WaitsFor, Asked
<1> HIDE DEF m, r, k
<1>10. procs[r].up # <<>>
  <2>1. CASE Reply(p) # <<>>
    BY <1>6, <2>1
  <2>2. CASE ~procs[r].alive
    BY <1>9, <2>2, Words DEF Serves, Hearing, Working, Saying, Leaving, Replied, Gone
  <2>3. QED  BY <1>1, <2>1, <2>2
<1>11. \/ Replied(procs[r]) /\ m[1] # "graduate" /\ IsReply(procs[r].up, m, main.at)
       \/ Leaving(procs[r]) /\ m[1] = "graduate" /\ procs[r].up = Exited
       \/ Gone(procs[r]) /\ m[1] = "graduate" /\ procs[r].up = Exited
  BY <1>9, <1>10 DEF Serves, Hearing, Working, Saying, Leaving
<1>12. IsReply(procs[r].up, m, main.at)
  BY <1>11, Words DEF IsReply
<1>13. Active(procs[r]) /\ procs[r].job.at # "wait" /\ procs[r].job.say = <<>>
  BY <1>10, <1>11, IdleFields DEF Active, Replied, Leaving, Gone
<1>14. QED
  BY <1>1, <1>2, <1>3, <1>4, <1>5, <1>6, <1>7, <1>8, <1>9, <1>10, <1>11, <1>12, <1>13
     DEF k, r, m

(* What ReadOf makes of the two.                                           *)
Reads(p, s, r, t, job) ==
    /\ BothAt(p, s, r, t) /\ Shaped(s) /\ Shaped(t)
    /\ s.name = procs[p].name /\ s.value = procs[p].value /\ s.kids = procs[p].kids
    /\ s.alive = procs[p].alive /\ s.down = procs[p].down /\ s.up = procs[p].up
    /\ s.job = job
    /\ t.name = procs[r].name /\ t.value = procs[r].value /\ t.kids = procs[r].kids
    /\ t.alive = procs[r].alive /\ t.down = procs[r].down /\ t.up = <<>>
    /\ t.job = procs[r].job

(* The pipe of the child is empty then.                                    *)
LEMMA Read ==
    ASSUME Shape, NEW p \in DOMAIN procs, Kid(p).pid \in DOMAIN procs, Kid(p).pid # p,
           NEW job, JobShaped(job), Settle(job) = job, procs' = ReadOf(p, job)
    PROVE  \E s, t : Reads(p, s, Kid(p).pid, t, job)
<1> DEFINE r == Kid(p).pid
           s == procs'[p]
           t == procs'[r]
<1>1. /\ DOMAIN procs[p] = {"name", "value", "kids", "alive", "job", "down", "up"}
      /\ DOMAIN procs[r] = {"name", "value", "kids", "alive", "job", "down", "up"}
      /\ Shaped(procs[p]) /\ Shaped(procs[r])
  BY DEF Shape, Shaped
<1>2. procs' = [procs EXCEPT ![r].up = <<>>, ![p].job = job]
  BY DEF ReadOf
<1> HIDE DEF r
<1>3. r \in DOMAIN procs /\ r # p
  BY DEF r
<1>4. DOMAIN procs' = DOMAIN procs /\ \A q \in DOMAIN procs : q \notin {p, r} => procs'[q] = procs[q]
  BY <1>2
<1>5. s = [procs[p] EXCEPT !.job = job] /\ t = [procs[r] EXCEPT !.up = <<>>]
  BY <1>2, <1>3
<1> HIDE DEF s, t
<1>6. /\ DOMAIN s = DOMAIN procs[p]
      /\ s.name = procs[p].name /\ s.value = procs[p].value /\ s.kids = procs[p].kids
      /\ s.alive = procs[p].alive /\ s.down = procs[p].down /\ s.up = procs[p].up
      /\ s.job = job
  BY <1>1, <1>5
<1>7. /\ DOMAIN t = DOMAIN procs[r]
      /\ t.name = procs[r].name /\ t.value = procs[r].value /\ t.kids = procs[r].kids
      /\ t.alive = procs[r].alive /\ t.down = procs[r].down /\ t.up = <<>>
      /\ t.job = procs[r].job
  BY <1>1, <1>5
<1>8. Shaped(s) /\ Shaped(t)
  BY <1>1, <1>6, <1>7 DEF Shaped, JobShaped
<1>9. BothAt(p, s, r, t)
  BY <1>4 DEF BothAt, s, t
<1>10. Reads(p, s, r, t, job)
  BY <1>6, <1>7, <1>8, <1>9 DEF Reads
<1>11. QED  BY <1>10 DEF r

(* The child is free again.                                                *)
LEMMA ReadLive ==
    ASSUME Shape, LiveInv, Root \in DOMAIN procs, UNCHANGED <<main, fifo>>,
           NEW p \in DOMAIN procs, Answers(p),
           ForKid(procs[p].job.cmd, Kid(p).name)[1] # "graduate",
           NEW s, NEW t, NEW job, Reads(p, s, Kid(p).pid, t, job),
           job.at \in {"ask", "done"}, job.cmd = procs[p].job.cmd,
           p # Root => Serves(s, procs[p].job.cmd, main.at),
           p = Root => RootServes(s),
           main.at \in {"meet", "rebuild"} /\ Met => Met',
           main.at = "find" /\ s.job.say # <<>> => Finds(p, s.job.say[1]),
           main.at = "adopt" => BeAdopts(p, s),
           p = Root /\ main.at = "adopt" => RootAdopts(s),
           p = Root /\ main.at = "free" => RootFrees(s)
    PROVE  Shape' /\ LiveInv'
<1> DEFINE k == procs[p].job.k
           r == Kid(p).pid
           m == ForKid(procs[p].job.cmd, Kid(p).name)
<1>1. /\ k \in DOMAIN procs[p].kids
      /\ Kid(p) = procs[p].kids[k]
      /\ r \in DOMAIN procs /\ r # p /\ r # Root
      /\ Working(procs[p]) /\ procs[p].job.at = "wait" /\ ~Free(procs[p])
      /\ Busy(procs[p]) /\ Task(procs[p]) = procs[p].job.cmd
      /\ Allowed(procs[p].job.cmd)
      /\ Active(procs[r]) /\ procs[r].job.at # "wait"
      /\ Replied(procs[r])
  BY AnswerShape
<1>2. /\ BothAt(p, s, r, t) /\ Shaped(s) /\ Shaped(t)
      /\ s.name = procs[p].name /\ s.value = procs[p].value /\ s.kids = procs[p].kids
      /\ s.alive = procs[p].alive /\ s.down = procs[p].down /\ s.up = procs[p].up
      /\ s.job = job
      /\ t.name = procs[r].name /\ t.value = procs[r].value /\ t.kids = procs[r].kids
      /\ t.alive = procs[r].alive /\ t.down = procs[r].down /\ t.up = <<>>
      /\ t.job = procs[r].job
  BY DEF Reads
<1>3. s.alive /\ s.down = <<>> /\ s.up = <<>> /\ s.job.at # "wait" /\ Busy(s)
      /\ Task(s) = procs[p].job.cmd
  BY <1>1, <1>2 DEF Working, Busy, Task
<1>4. Free(t) /\ t.alive /\ ~Busy(t) /\ ~Active(t) /\ t.job.at # "wait" /\ t.job.say = <<>>
  BY <1>1, <1>2, FreeFacts, IdleFields DEF Replied, Free
<1>5. KeepsKids(s, procs[p]) /\ KeepsKids(t, procs[r])
  BY <1>2 DEF KeepsKids
<1>6. p # Root => \A n : Serves(procs[p], n, main.at) => Serves(s, n, main.at)
  BY <1>1, ServesTask
<1>7. r = procs[p].kids[k].pid /\ Core
  BY <1>1 DEF LiveInv
<1> HIDE DEF k, r, m
<1>8. procs[p].job.at = "wait" => procs[p].job.k = k
  BY DEF k
<1>9. Busy(s) => Allowed(Task(s))
  BY <1>1, <1>3
<1>10. Shape' /\ SameTree /\ Core'
  BY <1>1, <1>2, <1>3, <1>4, <1>5, <1>6, <1>7, <1>8, <1>9, LinkStep
<1>11. procs'[p] = s /\ procs'[r] = t /\ {p, r} \in SUBSET DOMAIN procs
       /\ \A q \in DOMAIN procs \ {p, r} : procs'[q] = procs[q]
  BY <1>1, <1>2 DEF BothAt
<1>12. main.at \in {"meet", "rebuild"} =>
           \A q \in {p, r} : Busy(procs'[q]) =>
               \E x \in DOMAIN procs :
                   Busy(procs[x]) /\ Task(procs'[q])[3] = Task(procs[x])[3]
  BY <1>1, <1>3, <1>4, <1>11
<1>13. main.at = "find" =>
           \A q \in {p, r} :
               /\ procs'[q].value = procs[q].value
               /\ Finds(q, procs'[q].up)
               /\ procs'[q].job.say # <<>> => Finds(q, procs'[q].job.say[1])
  BY <1>2, <1>3, <1>4, <1>11 DEF Finds
<1>14. main.at = "adopt" => \A q \in {p, r} : BeAdopts(q, procs'[q])
  <2>1. BeAdopts(r, t)
    BY <1>4 DEF BeAdopts
  <2>2. QED  BY <1>11, <2>1
<1>15. /\ Root \in {p, r} /\ main.at = "adopt" => RootAdopts(procs'[Root])
       /\ Root \in {p, r} /\ main.at = "free" => RootFrees(procs'[Root])
  BY <1>1, <1>11
<1>16. PhaseInv'
  BY <1>10, <1>11, <1>12, <1>13, <1>14, <1>15, PhaseStep
<1>17. QED  BY <1>10, <1>16 DEF LiveInv

(* On to the next child.                                                   *)
LEMMA NextKidStep ==
    ASSUME Shape, LiveInv, Root \in DOMAIN procs, UNCHANGED <<main, fifo>>,
           NEW p \in DOMAIN procs, Answers(p),
           NEW job, JobShaped(job), procs' = ReadOf(p, job),
           job.at = "ask", job.k = procs[p].job.k + 1, job.cmd = procs[p].job.cmd,
           job.say = <<>>, job.success = TRUE, job.fifo = procs[p].job.fifo,
           procs[p].job.cmd[1] # "graduate",
           procs[p].job.cmd[1] = "Adopt" => Kid(p).name # procs[p].job.cmd[3],
           procs[p].job.cmd[1] = "checkForGraduate" => Kid(p).name # procs[p].job.cmd[2],
           Reply(p) # Success \/ main.at \notin {"meet", "rebuild"}
    PROVE  Shape' /\ LiveInv'
<1> DEFINE k == procs[p].job.k
           r == Kid(p).pid
           m == ForKid(procs[p].job.cmd, Kid(p).name)
<1>1. /\ k \in DOMAIN procs[p].kids /\ k \in 1..Len(procs[p].kids)
      /\ Kid(p) = procs[p].kids[k] /\ Reply(p) = procs[r].up
      /\ r \in DOMAIN procs /\ r # p /\ r # Root
      /\ Working(procs[p]) /\ procs[p].job.at = "wait"
      /\ Busy(procs[p]) /\ Task(procs[p]) = procs[p].job.cmd
      /\ Allowed(procs[p].job.cmd)
      /\ Active(procs[r]) /\ procs[r].job.say = <<>>
  BY AnswerShape
<1>2. Settle(job) = job
  BY DEF Settle
<1>3. PICK s, t : Reads(p, s, r, t, job)
  BY <1>1, <1>2, Read
<1>4. /\ s.kids = procs[p].kids /\ s.name = procs[p].name /\ s.job = job
      /\ s.alive /\ s.down = <<>> /\ s.up = <<>>
  BY <1>1, <1>3 DEF Reads, Working
<1>5. m[1] # "graduate"
  BY DEF ForKid, ForItself
<1>6. Working(s)
  <2>1. Len(procs[p].kids) \in Nat
    BY KidDomain DEF Shape
  <2>2. job.k \in 1..(Len(s.kids) + 1)
    BY <1>1, <1>4, <2>1
  <2>3. QED  BY <1>4, <2>2 DEF Working
<1>7. Serves(s, procs[p].job.cmd, main.at) /\ RootServes(s)
  BY <1>4, <1>6 DEF Serves, RootServes
<1>8. main.at \in {"meet", "rebuild"} => ~Met
  <2>1. SUFFICES ASSUME main.at \in {"meet", "rebuild"}  PROVE ~Met
    OBVIOUS
  <2>2. r \in DOMAIN procs /\ Active(procs[r]) /\ procs[r].up # Success
    BY <1>1, <2>1
  <2>3. procs[r].job.say # <<Success>>
    BY <1>1, Words
  <2> HIDE DEF r
  <2>4. QED  BY <2>2, <2>3, NotMet
<1>9. Task(s) = Task(procs[p])
  BY <1>1, <1>4 DEF Task
<1>10. main.at = "adopt" => BeAdopts(p, s)
  <2>1. main.at = "adopt" => BeAdopts(p, procs[p])
    BY DEF LiveInv, PhaseInv, BeAdoptInv
  <2>2. QED  BY <1>1, <1>4, <1>9, <2>1 DEF BeAdopts
<1>11. p = Root /\ main.at = "adopt" => RootAdopts(s)
  <2>1. main.at = "adopt" => RootAdopts(procs[Root])
    BY DEF LiveInv, PhaseInv, RootAdoptInv
  <2>2. ASSUME p = Root, main.at = "adopt"
        PROVE  NotYetAsked(procs[Root]) /\ Task(procs[Root])[1] = "Adopt"
    <3>1. Task(procs[Root])[1] = "Adopt"
      BY <1>1, <2>1, <2>2 DEF RootAdopts
    <3>2. procs[p].job.cmd[3] = main.cmd[3]
      BY <1>1, <2>2, <3>1, AllowedWords
    <3>3. Kid(p).name # main.cmd[3]
      BY <1>1, <2>2, <3>1, <3>2
    <3>4. QED  BY <1>1, <2>2, <3>1, <3>3 DEF NotYetAsked
  <2>3. QED  BY <1>9, <2>1, <2>2 DEF RootAdopts
<1>12. p = Root /\ main.at = "free" => RootFrees(s)
  <2>1. main.at = "free" => RootFrees(procs[Root])
    BY DEF LiveInv, PhaseInv, FreeInv
  <2>2. ASSUME p = Root, main.at = "free"
        PROVE  RootFrees(s)
    <3>1. Task(procs[Root]) = <<"checkForGraduate", main.cmd[3]>>
      BY <1>1, <2>1, <2>2 DEF RootFrees
    <3>2. Kid(p).name # main.cmd[3]
      BY <1>1, <2>2, <3>1
    <3>3. \A i \in DOMAIN procs[p].kids : i < k => procs[p].kids[i].name # main.cmd[3]
      BY <1>1, <2>1, <2>2 DEF RootFrees
    <3>4. \A i \in DOMAIN procs[p].kids : i < k + 1 => i < k \/ i = k
      BY <1>1, KidDomain DEF Shape
    <3>5. \A i \in DOMAIN s.kids : i < s.job.k => s.kids[i].name # main.cmd[3]
      BY <1>1, <1>4, <3>2, <3>3, <3>4
    <3>6. QED  BY <1>4, <1>9, <2>2, <3>1, <3>5 DEF RootFrees
  <2>3. QED  BY <2>2
<1>13. s.job.say = <<>>
  BY <1>4
<1> HIDE DEF m, k
<1>14. ForKid(procs[p].job.cmd, Kid(p).name)[1] # "graduate" /\ Reads(p, s, Kid(p).pid, t, job)
  BY <1>3, <1>5 DEF m
<1>15. QED
  BY <1>7, <1>8, <1>10, <1>11, <1>12, <1>13, <1>14, ReadLive

-----------------------------------------------------------------------------
(* The job goes on with the next child.                                    *)
LEMMA NextKidFields ==
    ASSUME Shape, LiveInv, NEW p \in DOMAIN procs, Answers(p), NEW job, job = NextKid(p)
    PROVE  /\ JobShaped(job) /\ job.at = "ask" /\ job.k = procs[p].job.k + 1
           /\ job.cmd = procs[p].job.cmd /\ job.say = <<>> /\ job.success = TRUE
           /\ job.fifo = procs[p].job.fifo
<1> DEFINE old == procs[p].job
<1>1. Working(procs[p])
  BY AnswerShape
<1>2. DOMAIN old = {"cmd", "at", "k", "success", "buf", "fifo", "say"}
  BY DEF Shape, Shaped
<1>3. old.say = <<>> /\ old.success = TRUE
  BY <1>1 DEF Working
<1>4. NextKid(p) = [old EXCEPT !.at = "ask", !.k = @ + 1]
  BY DEF NextKid
<1> HIDE DEF old
<1>5. /\ DOMAIN NextKid(p) = DOMAIN old
      /\ NextKid(p).at = "ask" /\ NextKid(p).k = old.k + 1 /\ NextKid(p).cmd = old.cmd
      /\ NextKid(p).say = <<>> /\ NextKid(p).success = TRUE /\ NextKid(p).fifo = old.fifo
  BY <1>2, <1>3, <1>4
<1>6. /\ DOMAIN job = DOMAIN old
      /\ job.at = "ask" /\ job.k = old.k + 1 /\ job.cmd = old.cmd
      /\ job.say = <<>> /\ job.success = TRUE /\ job.fifo = old.fifo
  BY <1>2, <1>5
<1>7. QED  BY <1>2, <1>6 DEF JobShaped, old

(* The child has failed.                                                   *)
LEMMA NotFoundStep ==
    ASSUME Shape, LiveInv, Root \in DOMAIN procs, UNCHANGED <<main, fifo>>,
           NEW p \in DOMAIN procs, NotFound(p)
    PROVE  Shape' /\ LiveInv'
<1> DEFINE job == NextKid(p)
           cmd == procs[p].job.cmd
           m == ForKid(cmd, Kid(p).name)
<1>1. Answers(p) /\ cmd[1] \in Walks /\ Failed(Reply(p)) /\ procs' = ReadOf(p, job)
  BY DEF NotFound
<1>2. /\ IsReply(Reply(p), m, main.at) /\ Reply(p) # <<>>
  BY <1>1, AnswerShape
<1>3. Reply(p) = Fail
  BY <1>1, <1>2 DEF Failed
<1>4. cmd[1] = "Adopt" => Kid(p).name # cmd[3]
  <2>1. cmd[1] = "Adopt" /\ Kid(p).name = cmd[3] => m = <<"beAdopt", cmd[4]>>
    BY DEF ForKid
  <2>2. m = <<"beAdopt", cmd[4]>> => m[1] = "beAdopt"
    OBVIOUS
  <2>3. QED  BY <1>2, <1>3, <2>1, <2>2, Words DEF IsReply
<1>5. cmd[1] = "checkForGraduate" => Kid(p).name # cmd[2]
  <2>1. cmd[1] = "checkForGraduate" /\ Kid(p).name = cmd[2] => m = <<"graduate">>
    BY DEF ForKid, ForItself
  <2>2. m = <<"graduate">> => m[1] = "graduate"
    OBVIOUS
  <2>3. QED  BY <1>2, <1>3, <2>1, <2>2, Words DEF IsReply
<1>6. cmd[1] # "graduate"
  BY <1>1 DEF Walks
<1>7. /\ JobShaped(job) /\ job.at = "ask" /\ job.k = procs[p].job.k + 1
      /\ job.cmd = procs[p].job.cmd /\ job.say = <<>> /\ job.success = TRUE
      /\ job.fifo = procs[p].job.fifo
  BY <1>1, NextKidFields
<1>8. Reply(p) # Success
  BY <1>3, Words
<1> HIDE DEF job
<1>9. QED
  BY <1>1, <1>4, <1>5, <1>6, <1>7, <1>8, NextKidStep

(* The child has listed its subtree.                                       *)
LEMMA CollectedStep ==
    ASSUME Shape, LiveInv, Root \in DOMAIN procs, UNCHANGED <<main, fifo>>,
           NEW p \in DOMAIN procs, Collected(p)
    PROVE  Shape' /\ LiveInv'
<1> DEFINE buf == Combine(NextKid(p).buf, Text(Reply(p)))
           cmd == procs[p].job.cmd
<1>1. Answers(p) /\ cmd[1] = "Collect"
      /\ procs' = ReadOf(p, [NextKid(p) EXCEPT !.buf = Combine(@, Text(Reply(p)))])
  BY DEF Collected
<1>2. PICK job : job = [NextKid(p) EXCEPT !.buf = buf] /\ procs' = ReadOf(p, job)
  <2>1. [NextKid(p) EXCEPT !.buf = Combine(@, Text(Reply(p)))] = [NextKid(p) EXCEPT !.buf = buf]
    OBVIOUS
  <2>2. QED  BY <1>1, <2>1
<1>3. Allowed(cmd)
  BY <1>1, AnswerShape
<1>4. main.at = "check"
  BY <1>1, <1>3, AllowedWords
<1> HIDE DEF buf, cmd
<1>5. /\ JobShaped(job) /\ job.at = "ask" /\ job.k = procs[p].job.k + 1
      /\ job.cmd = procs[p].job.cmd /\ job.say = <<>> /\ job.success = TRUE
      /\ job.fifo = procs[p].job.fifo
  <2>1. PICK next : next = NextKid(p)
    OBVIOUS
  <2>2. /\ JobShaped(next) /\ next.at = "ask" /\ next.k = procs[p].job.k + 1
        /\ next.cmd = procs[p].job.cmd /\ next.say = <<>> /\ next.success = TRUE
        /\ next.fifo = procs[p].job.fifo
    BY <1>1, <2>1, NextKidFields
  <2>3. job = [next EXCEPT !.buf = buf]
    BY <1>2, <2>1
  <2>4. QED  BY <2>2, <2>3 DEF JobShaped
<1>6. QED
  BY <1>1, <1>2, <1>4, <1>5, NextKidStep DEF cmd

(* Nobody refuses to be adopted.                                           *)
LEMMA WasAdoptedStep ==
    ASSUME Shape, LiveInv, Root \in DOMAIN procs, UNCHANGED <<main, fifo>>,
           NEW p \in DOMAIN procs, WasAdopted(p)
    PROVE  Shape' /\ LiveInv'
<1> DEFINE job == NextKid(p)
           cmd == procs[p].job.cmd
           m == ForKid(cmd, Kid(p).name)
<1>1. Answers(p) /\ cmd[1] = "beAdopt"
  BY DEF WasAdopted
<1>2. IsReply(Reply(p), m, main.at) /\ Allowed(cmd)
  BY <1>1, AnswerShape
<1>3. m[1] = "beAdopt"
  BY <1>1 DEF ForKid, ForItself
<1>4. ~Failed(Reply(p))
  BY <1>2, <1>3, Words DEF IsReply, Failed
<1>5. procs' = ReadOf(p, job)
  BY <1>4 DEF WasAdopted
<1>6. main.at = "adopt"
  BY <1>1, <1>2, AllowedWords
<1>7. /\ JobShaped(job) /\ job.at = "ask" /\ job.k = procs[p].job.k + 1
      /\ job.cmd = procs[p].job.cmd /\ job.say = <<>> /\ job.success = TRUE
      /\ job.fifo = procs[p].job.fifo
  BY <1>1, NextKidFields
<1> HIDE DEF job
<1>8. QED
  BY <1>1, <1>5, <1>6, <1>7, NextKidStep

-----------------------------------------------------------------------------
(* A way to a child is one to its parent.                                  *)
LEMMA WayUp ==
    ASSUME TreeInv, NEW q \in DOMAIN procs, NEW i \in DOMAIN procs[q].kids,
           NEW r, r = procs[q].kids[i].pid,
           NEW n, NEW c, Leads(r, n, c), procs[q].name # c
    PROVE  Leads(q, n, c)
<1>1. PICK W \in SUBSET DOMAIN procs : Way(W, r, n, c)
  BY DEF Leads
<1> DEFINE V == W \cup {q}
<1>2. V \in SUBSET DOMAIN procs /\ q \in V
  OBVIOUS
<1>3. (\E x \in V : procs[x].name = n) /\ \A x \in V : procs[x].name # c
  BY <1>1 DEF Way
<1>4. \A x \in V \ {q}, y \in DOMAIN procs : x \in KidPids(procs, y) => y \in V
  <2>1. SUFFICES ASSUME NEW x \in W, x # q, NEW y \in DOMAIN procs, x \in KidPids(procs, y)
                 PROVE  y \in V
    OBVIOUS
  <2>2. CASE x # r
    BY <1>1, <2>1, <2>2 DEF Way
  <2>3. CASE x = r
    <3>1. PICK j \in DOMAIN procs[y].kids : procs[y].kids[j].pid = r
      BY <2>1, <2>3 DEF KidPids
    <3>2. y = q
      BY <3>1 DEF TreeInv, OneParent
    <3>3. QED  BY <3>2
  <2>4. QED  BY <2>2, <2>3
<1> HIDE DEF V
<1>5. Way(V, q, n, c)
  BY <1>2, <1>3, <1>4 DEF Way
<1>6. QED  BY <1>2, <1>5 DEF Leads

(* The child has not failed: the handler has what it wants.                *)
LEMMA FoundStep ==
    ASSUME Shape, LiveInv, Root \in DOMAIN procs, UNCHANGED <<main, fifo>>,
           NEW p \in DOMAIN procs, Found(p)
    PROVE  Shape' /\ LiveInv'
<1> DEFINE job == Done(p, Writes(p))
           cmd == procs[p].job.cmd
           r == Kid(p).pid
           k == procs[p].job.k
           m == ForKid(cmd, Kid(p).name)
<1>1. /\ Answers(p) /\ cmd[1] \in Walks /\ ~Failed(Reply(p)) /\ ~HasGraduated(p)
      /\ procs' = ReadOf(p, job)
  BY DEF Found
<1>2. /\ k \in DOMAIN procs[p].kids /\ Kid(p) = procs[p].kids[k]
      /\ Reply(p) = procs[r].up /\ r \in DOMAIN procs /\ r # p /\ r # Root
      /\ Working(procs[p]) /\ Busy(procs[p]) /\ Task(procs[p]) = cmd /\ Allowed(cmd) /\ Allowed(m)
      /\ IsReply(Reply(p), m, main.at)
  BY <1>1, AnswerShape
<1>3. Reply(p) # Fail /\ OneMessage(Reply(p))
  BY <1>1, <1>2 DEF Failed, IsReply
<1>4. /\ job.at = "done" /\ job.say = Writes(p) /\ job.cmd = cmd
      /\ DOMAIN job = DOMAIN procs[p].job
  <2>1. DOMAIN procs[p].job = {"cmd", "at", "k", "success", "buf", "fifo", "say"}
    BY DEF Shape, Shaped
  <2> DEFINE old == procs[p].job
  <2>2. job = [old EXCEPT !.at = "done", !.say = Writes(p)]
    BY DEF Done
  <2> HIDE DEF job, old
  <2>3. QED  BY <2>1, <2>2 DEF old
<1>5. JobShaped(job)
  BY <1>4 DEF JobShaped, Shape, Shaped
<1>6. /\ cmd[1] = "Check" => Writes(p) = <<Reply(p)>>
      /\ cmd[1] = "findValue" =>
             Writes(p) = IF cmd[3] = procs[p].name THEN <<Fail>> ELSE <<Reply(p)>>
      /\ cmd[1] = "Adopt" => Writes(p) = <<Success, Fail>>
      /\ cmd[1] \in {"Meet", "checkForGraduate"} => Writes(p) = <<Success>>
      /\ cmd[1] \in {"Check", "findValue", "Adopt", "Meet", "checkForGraduate"}
  BY <1>1 DEF Writes, Walks
<1> HIDE DEF job, cmd, m, r, k
<1>7. Writes(p) # <<>>
  BY <1>6
<1>8. Settle(job) = job
  BY <1>4, <1>7 DEF Settle
<1>9. m[1] # "graduate"
  <2>1. SUFFICES ASSUME m[1] = "graduate"  PROVE FALSE
    OBVIOUS
  <2>2. cmd[1] = "checkForGraduate" /\ cmd[2] = Kid(p).name
    BY <1>6, <2>1 DEF m, ForKid, ForItself
  <2>3. Reply(p) = Exited
    BY <1>2, <2>1 DEF IsReply
  <2>4. QED  BY <1>1, <2>2, <2>3 DEF HasGraduated, cmd
<1>10. main.at # "free"
  <2>1. SUFFICES ASSUME main.at = "free"  PROVE FALSE
    OBVIOUS
  <2>2. m[1] = "checkForGraduate"
    BY <1>2, <1>9, <2>1, AllowedWords
  <2>3. QED  BY <1>2, <1>3, <2>1, <2>2 DEF IsReply
<1>11. cmd[1] = "Adopt" => p = Root
  <2>1. SUFFICES ASSUME cmd[1] = "Adopt", p # Root  PROVE FALSE
    OBVIOUS
  <2>2. main.at = "adopt" /\ cmd[3] = main.cmd[3]
    BY <1>2, <2>1, AllowedWords
  <2>3. Kid(p).name # cmd[3]
    BY <1>2, <2>1, <2>2, AdoptedAtRoot
  <2>4. m[1] = "Adopt"
    BY <2>1, <2>3 DEF m, ForKid, ForItself
  <2>5. QED  BY <1>2, <1>3, <2>4 DEF IsReply
<1>12. PICK s, t : Reads(p, s, r, t, job)
  BY <1>1, <1>2, <1>5, <1>8, Read DEF r
<1>13. /\ s.kids = procs[p].kids /\ s.name = procs[p].name /\ s.job = job
       /\ s.alive /\ s.down = <<>> /\ s.up = <<>>
       /\ p \in DOMAIN procs' /\ procs'[p] = s
  BY <1>2, <1>12 DEF Reads, Working, BothAt
<1>14. cmd[1] # "Adopt" => \E x : Writes(p) = <<x>> /\ OneMessage(x)
  BY <1>3, <1>6, Words
<1>15. cmd[1] # "Adopt" => Saying(s) /\ OneMessage(s.job.say[1])
  BY <1>4, <1>6, <1>13, <1>14, Words DEF Saying
<1>16. p # Root => Serves(s, cmd, main.at)
  <2>1. SUFFICES ASSUME p # Root  PROVE Serves(s, cmd, main.at)
    OBVIOUS
  <2>2. cmd[1] \in {"Check", "findValue", "Meet", "checkForGraduate"}
    BY <1>6, <1>11, <2>1
  <2>3. IsReply(s.job.say[1], cmd, main.at)
    BY <1>10, <1>15, <2>2 DEF IsReply
  <2>4. QED  BY <1>4, <1>13, <1>15, <2>2, <2>3 DEF Serves
<1>17. RootServes(s)
  <2>1. CASE cmd[1] = "Adopt"
    BY <1>4, <1>6, <1>13, <2>1 DEF RootServes
  <2>2. CASE cmd[1] # "Adopt"
    BY <1>4, <1>6, <1>13, <1>15, <2>2 DEF RootServes
  <2>3. QED  BY <2>1, <2>2
<1>18. main.at \in {"meet", "rebuild"} => Met'
  <2>1. SUFFICES ASSUME main.at \in {"meet", "rebuild"}  PROVE Met'
    OBVIOUS
  <2>2. cmd[1] = "Meet"
    BY <1>2, <2>1, AllowedWords
  <2>3. procs'[p].job.say = <<Success>>
    BY <1>4, <1>6, <1>13, <2>2
  <2>4. QED  BY <1>13, <2>3 DEF Met, Success
<1>19. main.at = "find" => Finds(p, s.job.say[1])
  <2>1. SUFFICES ASSUME main.at = "find"  PROVE Finds(p, s.job.say[1])
    OBVIOUS
  <2>2. cmd[1] = "findValue"
    BY <1>2, <1>6, <2>1, AllowedWords
  <2>3. cmd[3] = main.cmd[3]
    BY <1>2, <2>2, AllowedWords
  <2>4. CASE cmd[3] = procs[p].name
    <3>1. s.job.say[1] = Fail
      BY <1>4, <1>6, <1>13, <2>2, <2>4
    <3>2. QED  BY <3>1 DEF Finds
  <2>5. CASE cmd[3] # procs[p].name
    <3>1. s.job.say[1] = Reply(p)
      BY <1>4, <1>6, <1>13, <2>2, <2>5
    <3>2. Finds(r, Reply(p))
      BY <1>2, <2>1 DEF LiveInv, PhaseInv, FindInv
    <3>3. Reply(p) \notin {<<>>, Fail}
      BY <1>3 DEF OneMessage
    <3>4. Leads(r, main.cmd[2], main.cmd[3])
      BY <3>2, <3>3 DEF Finds
    <3>5. TreeInv /\ r = procs[p].kids[k].pid
      BY <1>2 DEF LiveInv, Core, r
    <3>6. Leads(p, main.cmd[2], main.cmd[3])
      BY <1>2, <2>3, <2>5, <3>4, <3>5, WayUp
    <3>7. QED  BY <3>1, <3>2, <3>3, <3>6 DEF Finds
  <2>6. QED  BY <2>4, <2>5
<1>20. Busy(s) /\ Task(s) = cmd /\ s.job.at = "done"
  BY <1>4, <1>13 DEF Busy, Task
<1>21. main.at = "adopt" => BeAdopts(p, s)
  BY <1>6, <1>20 DEF BeAdopts
<1>22. main.at = "adopt" => RootAdopts(s)
  <2>1. main.at = "adopt" => cmd[1] = "Adopt"
    BY <1>2, <1>6, AllowedWords
  <2>2. ~NotYetAsked(s)
    BY <1>13, <1>20 DEF NotYetAsked
  <2>3. QED  BY <1>20, <2>1, <2>2 DEF RootAdopts
<1>23. /\ Reads(p, s, Kid(p).pid, t, job) /\ ForKid(procs[p].job.cmd, Kid(p).name)[1] # "graduate"
       /\ job.at = "done" /\ job.cmd = procs[p].job.cmd
       /\ p # Root => Serves(s, procs[p].job.cmd, main.at)
  BY <1>4, <1>9, <1>12, <1>16 DEF r, m, cmd
<1>24. QED
  BY <1>1, <1>10, <1>17, <1>18, <1>19, <1>21, <1>22, <1>23, ReadLive

-----------------------------------------------------------------------------
(* A process reads that a child has left, and drops it.                    *)

(* The processes before they are tidied.                                   *)
Drops(ps, p, k, r, kids, job) ==
    /\ DOMAIN ps = DOMAIN procs
    /\ \A q \in DOMAIN procs : q \notin {p, r} => ps[q] = procs[q]
    /\ ps[r].alive = procs[r].alive /\ ps[r].kids = procs[r].kids
    /\ DOMAIN ps[p] = DOMAIN procs[p]
    /\ ps[p].name = procs[p].name /\ ps[p].value = procs[p].value
    /\ ps[p].kids = kids
    /\ ps[p].alive = procs[p].alive /\ ps[p].job = job
    /\ ps[p].down = procs[p].down /\ ps[p].up = procs[p].up

(* What checknode and graduate do before the child is forgotten.           *)
LEMMA DropRead ==
    ASSUME Shape, NEW p \in DOMAIN procs, Kid(p).pid \in DOMAIN procs, Kid(p).pid # p,
           NEW job, Settle(job) = job, NEW kids, NEW ps,
           \/ ps = [ReadOf(p, job) EXCEPT ![p].kids = RemoveAt(@, procs[p].job.k)]
              /\ kids = RemoveAt(procs[p].kids, procs[p].job.k)
           \/ ps = [ReadOf(p, job) EXCEPT ![p].kids = Tail(@)]
              /\ kids = Tail(procs[p].kids)
    PROVE  Drops(ps, p, procs[p].job.k, Kid(p).pid, kids, job)
<1> DEFINE r == Kid(p).pid
           n == procs[p].job.k
<1>1. PICK ro : ro = ReadOf(p, job)
  OBVIOUS
<1>2. ro = [procs EXCEPT ![r].up = <<>>, ![p].job = job]
  BY <1>1 DEF ReadOf
<1>3. /\ DOMAIN procs[p] = {"name", "value", "kids", "alive", "job", "down", "up"}
      /\ DOMAIN procs[r] = {"name", "value", "kids", "alive", "job", "down", "up"}
  BY DEF Shape, Shaped
<1> HIDE DEF r
<1>4. r \in DOMAIN procs /\ r # p
  BY DEF r
<1>5. /\ DOMAIN ro = DOMAIN procs
      /\ \A q \in DOMAIN procs : q \notin {p, r} => ro[q] = procs[q]
      /\ ro[p] = [procs[p] EXCEPT !.job = job] /\ ro[r] = [procs[r] EXCEPT !.up = <<>>]
  BY <1>2, <1>4
<1>6. /\ DOMAIN ro[p] = DOMAIN procs[p]
      /\ ro[p].name = procs[p].name /\ ro[p].value = procs[p].value /\ ro[p].kids = procs[p].kids
      /\ ro[p].alive = procs[p].alive /\ ro[p].down = procs[p].down /\ ro[p].up = procs[p].up
      /\ ro[p].job = job
      /\ ro[r].alive = procs[r].alive /\ ro[r].kids = procs[r].kids
  BY <1>3, <1>5
<1>7. ps = [ro EXCEPT ![p].kids = kids]
  <2>1. CASE ps = [ReadOf(p, job) EXCEPT ![p].kids = RemoveAt(@, procs[p].job.k)]
             /\ kids = RemoveAt(procs[p].kids, procs[p].job.k)
    <3>1. ps = [ro EXCEPT ![p].kids = RemoveAt(ro[p].kids, n)]
      BY <1>1, <2>1
    <3>2. RemoveAt(ro[p].kids, n) = kids
      BY <1>6, <2>1
    <3>3. QED  BY <3>1, <3>2
  <2>2. CASE ps = [ReadOf(p, job) EXCEPT ![p].kids = Tail(@)] /\ kids = Tail(procs[p].kids)
    <3>1. ps = [ro EXCEPT ![p].kids = Tail(ro[p].kids)]
      BY <1>1, <2>2
    <3>2. Tail(ro[p].kids) = kids
      BY <1>6, <2>2
    <3>3. QED  BY <3>1, <3>2
  <2>3. QED  BY <2>1, <2>2
<1>8. /\ DOMAIN ps = DOMAIN procs
      /\ \A q \in DOMAIN procs : q # p => ps[q] = ro[q]
      /\ ps[p] = [ro[p] EXCEPT !.kids = kids]
  BY <1>5, <1>7
<1>9. /\ DOMAIN ps[p] = DOMAIN procs[p]
      /\ ps[p].name = procs[p].name /\ ps[p].value = procs[p].value /\ ps[p].kids = kids
      /\ ps[p].alive = procs[p].alive /\ ps[p].down = procs[p].down /\ ps[p].up = procs[p].up
      /\ ps[p].job = job
  BY <1>3, <1>6, <1>8
<1>10. \A q \in DOMAIN procs : q \notin {p, r} => ps[q] = procs[q]
  BY <1>5, <1>8
<1>11. ps[r].alive = procs[r].alive /\ ps[r].kids = procs[r].kids
  BY <1>4, <1>6, <1>8
<1>12. QED
  BY <1>8, <1>9, <1>10, <1>11 DEF Drops, r

(* The process p is without its k-th child, and in the middle of job.      *)
Lost(p, s, k, job) ==
    /\ Dropped(p, s, k) /\ Shaped(s)
    /\ s.alive = procs[p].alive /\ s.down = procs[p].down /\ s.up = procs[p].up
    /\ s.job = job

(* The child is the only one that is forgotten.                            *)
LEMMA Tidied ==
    ASSUME Shape, LiveInv, NEW p \in DOMAIN procs, NEW k \in 1..Len(procs[p].kids),
           NEW r, r = procs[p].kids[k].pid, r \in DOMAIN procs, r # p, Gone(procs[r]),
           NEW kids, kids \in Seq(KidRecords), Len(kids) = Len(procs[p].kids) - 1,
           \A j \in 1..(Len(procs[p].kids) - 1) : kids[j] = procs[p].kids[Moved(j, k)],
           NEW job, JobShaped(job), NEW ps, Drops(ps, p, k, r, kids, job), procs' = Tidy(ps)
    PROVE  \E s : Lost(p, s, k, job)
<1>1. \A q \in DOMAIN procs \ {r} : procs[q].alive
  BY DEF LiveInv, Core, OneActive, Active, Gone
<1>2. DOMAIN ps = DOMAIN procs /\ \A q \in DOMAIN procs \ {r} : ps[q].alive
  BY <1>1 DEF Drops
<1>3. ~ps[r].alive
  BY DEF Drops, Gone
<1>4. DOMAIN procs[p].kids = 1..Len(procs[p].kids) /\ Len(procs[p].kids) \in Nat
      /\ DOMAIN kids = 1..Len(kids)
  BY KidDomain DEF Shape
<1>5. ~HasParent(ps, r)
  <2>1. SUFFICES ASSUME NEW q \in DOMAIN procs, ps[q].alive, NEW i \in DOMAIN ps[q].kids,
                        ps[q].kids[i].pid = r
                 PROVE  FALSE
    BY <1>2 DEF HasParent, Alive, KidPids
  <2>2. q # r
    BY <1>3, <2>1
  <2>3. CASE q = p
    <3>1. i \in 1..(Len(procs[p].kids) - 1) /\ ps[q].kids[i] = procs[p].kids[Moved(i, k)]
      BY <1>4, <2>1, <2>3 DEF Drops
    <3>2. Moved(i, k) \in 1..Len(procs[p].kids) /\ Moved(i, k) # k
      BY <1>4, <3>1 DEF Moved
    <3>3. QED
      BY <1>4, <2>1, <3>1, <3>2 DEF LiveInv, Core, TreeInv, OneParent
  <2>4. CASE q # p
    <3>1. ps[q] = procs[q]
      BY <2>2, <2>4 DEF Drops
    <3>2. QED
      BY <1>4, <2>1, <2>4, <3>1 DEF LiveInv, Core, TreeInv, OneParent
  <2>5. QED  BY <2>3, <2>4
<1>6. DOMAIN procs' = DOMAIN procs \ {r} /\ \A q \in DOMAIN procs' : procs'[q] = ps[q]
  BY <1>2, <1>3, <1>5 DEF Tidy
<1>7. PICK s : s = procs'[p]
  OBVIOUS
<1>8. s = ps[p]
  BY <1>6, <1>7
<1>9. Shaped(s)
  BY <1>8 DEF Drops, Shape, Shaped, JobShaped
<1>10. Dropped(p, s, k)
  <2>1. \A q \in DOMAIN procs' : q # p => procs'[q] = procs[q]
    BY <1>6 DEF Drops
  <2>2. /\ s.name = procs[p].name /\ Len(s.kids) = Len(procs[p].kids) - 1
        /\ \A j \in 1..(Len(procs[p].kids) - 1) : s.kids[j] = procs[p].kids[Moved(j, k)]
    BY <1>8 DEF Drops
  <2>3. QED  BY <1>6, <1>7, <2>1, <2>2 DEF Dropped
<1>11. Lost(p, s, k, job)
  BY <1>8, <1>9, <1>10 DEF Lost, Drops
<1>12. QED  BY <1>11

(* The invariant, when a child that has graduated is dropped.              *)
LEMMA DropLive ==
    ASSUME Shape, LiveInv, Root \in DOMAIN procs, UNCHANGED <<main, fifo>>,
           NEW p \in DOMAIN procs, Answers(p),
           ForKid(procs[p].job.cmd, Kid(p).name)[1] = "graduate",
           NEW s, NEW job, Lost(p, s, procs[p].job.k, job), Gone(procs[Kid(p).pid]),
           job.at \in {"ask", "done"}, job.cmd = procs[p].job.cmd,
           p # Root => Serves(s, procs[p].job.cmd, main.at),
           p = Root => RootServes(s),
           p = Root /\ main.at = "free" => /\ job.cmd = <<"checkForGraduate", main.cmd[3]>>
                                           /\ job.at = "done" /\ Kid(p).name = main.cmd[3]
    PROVE  Shape' /\ LiveInv'
<1> DEFINE k == procs[p].job.k
           r == Kid(p).pid
           cmd == procs[p].job.cmd
<1>1. /\ k \in DOMAIN procs[p].kids /\ Kid(p) = procs[p].kids[k]
      /\ r \in DOMAIN procs /\ r # p /\ r # Root
      /\ procs[r].name = Kid(p).name
      /\ Working(procs[p]) /\ procs[p].job.at = "wait" /\ ~Free(procs[p])
      /\ Busy(procs[p]) /\ Task(procs[p]) = cmd /\ Allowed(cmd)
      /\ Allowed(ForKid(cmd, Kid(p).name))
  BY AnswerShape
<1>2. /\ Dropped(p, s, k) /\ Shaped(s) /\ s.alive /\ s.down = <<>> /\ s.up = <<>> /\ s.job = job
  BY <1>1 DEF Lost, Working
<1>3. Busy(s) /\ Task(s) = cmd
  BY <1>2 DEF Busy, Task
<1>4. p # Root => \A n : Serves(procs[p], n, main.at) => Serves(s, n, main.at)
  BY <1>1, ServesTask
<1>5. WaitsFor(p, k) /\ s.job.at # "wait"
  BY <1>1, <1>2 DEF WaitsFor
<1>6. main.at \in {"graduate", "free"}
  BY <1>1, AllowedWords
<1> HIDE DEF k, r, cmd
<1>7. r = procs[p].kids[k].pid /\ Gone(procs[r]) /\ Core
  BY <1>1 DEF r, LiveInv
<1>8. Shape' /\ Core'
  BY <1>1, <1>2, <1>3, <1>4, <1>5, <1>7, DropStep
<1>9. /\ p \in DOMAIN procs'
      /\ DOMAIN procs' = DOMAIN procs \ {r}
      /\ \A q \in DOMAIN procs' : procs'[q].name = procs[q].name
      /\ \A q \in DOMAIN procs' : \A j \in DOMAIN procs'[q].kids :
            \E i \in DOMAIN procs[q].kids : procs'[q].kids[j] = procs[q].kids[i]
      /\ \A q \in DOMAIN procs' : \A i \in DOMAIN procs[q].kids :
            q # p \/ i # k =>
                \E j \in DOMAIN procs'[q].kids : procs'[q].kids[j] = procs[q].kids[i]
  BY <1>1, <1>2, <1>7, DropKids DEF Dropped
<1>10. RecordInv'
  <2>1. SUFFICES ASSUME main.at = "free"  PROVE RecordInv'
    BY <1>6 DEF RecordInv
  <2>2. /\ \A x \in DOMAIN procs : procs[x].name = main.cmd[3] => x \in KidPids(procs, Root)
        /\ fifo.records \in Seq(Records)
        /\ Different(fifo.records)
        /\ \A q \in DOMAIN procs : \A i \in DOMAIN procs[q].kids :
              Recorded(procs[q].kids[i].name) =>
                  procs[q].kids[i].name = main.cmd[3] \/ Recorded(procs[q].name)
    BY <2>1 DEF LiveInv, PhaseInv, RecordInv
  <2>3. ASSUME NEW x \in DOMAIN procs', procs'[x].name = main.cmd[3]
        PROVE  x \in KidPids(procs', Root)
    <3>1. x \in DOMAIN procs /\ x # r /\ x \in KidPids(procs, Root)
      BY <1>9, <2>2, <2>3
    <3>2. PICK i \in DOMAIN procs[Root].kids : procs[Root].kids[i].pid = x
      BY <3>1 DEF KidPids
    <3>3. Root # p \/ i # k
      BY <1>7, <3>1, <3>2
    <3>4. PICK j \in DOMAIN procs'[Root].kids : procs'[Root].kids[j] = procs[Root].kids[i]
      BY <1>1, <1>9, <3>3
    <3>5. QED  BY <3>2, <3>4 DEF KidPids
  <2>4. \A n : Recorded(n)' <=> Recorded(n)
    BY DEF Recorded
  <2>5. ASSUME NEW q \in DOMAIN procs', NEW j \in DOMAIN procs'[q].kids,
               Recorded(procs'[q].kids[j].name)
        PROVE  procs'[q].kids[j].name = main.cmd[3] \/ Recorded(procs'[q].name)
    BY <1>9, <2>2, <2>5
  <2>6. \A q \in DOMAIN procs' : \A i \in DOMAIN procs'[q].kids :
              Recorded(procs[q].kids[i].name)' =>
                  procs'[q].kids[i].name = main.cmd[3] \/ Recorded(procs[q].name)'
    BY <2>4, <2>5 DEF Recorded
  <2>7. QED  BY <2>2, <2>3, <2>6 DEF RecordInv
<1>11. FreeInv'
  <2>1. SUFFICES ASSUME main.at = "free"  PROVE RootFrees(procs[Root])'
    BY DEF FreeInv
  <2>2. CASE p = Root
    <3>1. procs'[Root] = s
      BY <1>2, <2>2 DEF Dropped
    <3>2. \A q \in DOMAIN procs' : procs'[q].name # main.cmd[3]
      <4>1. procs[r].name = main.cmd[3]
        BY <1>1, <2>1, <2>2
      <4>2. QED
        BY <1>1, <1>9, <4>1 DEF LiveInv, Core, TreeInv, NameInv
    <3>3. Task(s) = <<"checkForGraduate", main.cmd[3]>> /\ s.job.at = "done"
      BY <1>2, <1>3, <2>1, <2>2 DEF cmd
    <3>4. QED  BY <3>1, <3>2, <3>3 DEF RootFrees, Fresh, Task
  <2>3. CASE p # Root
    <3>1. procs'[Root] = procs[Root]
      BY <1>1, <1>2, <1>9, <2>3 DEF Dropped
    <3>2. RootFrees(procs[Root])
      BY <2>1 DEF LiveInv, PhaseInv, FreeInv
    <3>3. Fresh(main.cmd[3]) => Fresh(main.cmd[3])'
      BY <1>9 DEF Fresh
    <3>4. QED  BY <3>1, <3>2, <3>3 DEF RootFrees, Task
  <2>4. QED  BY <2>2, <2>3
<1>12. PhaseInv'
  BY <1>6, <1>10, <1>11
     DEF PhaseInv, FreshInv, TodoInv, FindInv, BeAdoptInv, RootAdoptInv
<1>13. QED  BY <1>8, <1>12 DEF LiveInv

-----------------------------------------------------------------------------
(* Only a child that was told to graduate can be gone.                     *)
LEMMA GoneKid ==
    ASSUME Shape, LiveInv, NEW p \in DOMAIN procs, Answers(p), IsGone(p)
    PROVE  /\ ForKid(procs[p].job.cmd, Kid(p).name)[1] = "graduate"
           /\ Gone(procs[Kid(p).pid]) /\ Reply(p) = Exited
<1> DEFINE r == Kid(p).pid
           m == ForKid(procs[p].job.cmd, Kid(p).name)
<1>1. /\ IsReply(Reply(p), m, main.at)
      /\ m[1] # "graduate" => Replied(procs[r])
      /\ m[1] = "graduate" => Leaving(procs[r]) \/ Gone(procs[r])
  BY AnswerShape
<1>2. ~procs[r].alive
  BY DEF IsGone
<1>3. m[1] = "graduate" /\ Gone(procs[r])
  BY <1>1, <1>2 DEF Replied, Leaving
<1>4. Reply(p) = Exited
  BY <1>1, <1>3 DEF IsReply
<1>5. QED  BY <1>3, <1>4

(* checknode waits for the child that was named.                           *)
LEMMA FoundGraduatedStep ==
    ASSUME Shape, LiveInv, Root \in DOMAIN procs, UNCHANGED <<main, fifo>>,
           NEW p \in DOMAIN procs, FoundGraduated(p)
    PROVE  Shape' /\ LiveInv'
<1> DEFINE job == Done(p, Writes(p))
           cmd == procs[p].job.cmd
           r == Kid(p).pid
           k == procs[p].job.k
           kids == RemoveAt(procs[p].kids, k)
<1>1. /\ Answers(p) /\ HasGraduated(p) /\ IsGone(p)
      /\ procs' = Tidy([ReadOf(p, job) EXCEPT ![p].kids = RemoveAt(@, procs[p].job.k)])
  BY DEF FoundGraduated
<1>2. /\ k \in 1..Len(procs[p].kids) /\ k \in DOMAIN procs[p].kids /\ Kid(p) = procs[p].kids[k]
      /\ r \in DOMAIN procs /\ r # p /\ Working(procs[p]) /\ Allowed(cmd)
  BY <1>1, AnswerShape
<1>3. cmd[1] = "checkForGraduate" /\ cmd[2] = Kid(p).name
  BY <1>1 DEF HasGraduated
<1>4. ForKid(cmd, Kid(p).name)[1] = "graduate" /\ Gone(procs[r])
  BY <1>1, GoneKid
<1>5. Writes(p) = <<Success>>
  BY <1>3 DEF Writes
<1>6. /\ job.at = "done" /\ job.say = <<Success>> /\ job.cmd = cmd
      /\ DOMAIN job = DOMAIN procs[p].job
  <2>1. DOMAIN procs[p].job = {"cmd", "at", "k", "success", "buf", "fifo", "say"}
    BY DEF Shape, Shaped
  <2> DEFINE old == procs[p].job
  <2>2. job = [old EXCEPT !.at = "done", !.say = Writes(p)]
    BY DEF Done
  <2> HIDE DEF job, old
  <2>3. QED  BY <1>5, <2>1, <2>2 DEF old
<1>7. JobShaped(job)
  BY <1>6 DEF JobShaped, Shape, Shaped
<1> HIDE DEF job
<1>8. Settle(job) = job
  BY <1>6, Words DEF Settle
<1>9. kids \in Seq(KidRecords) /\ Len(kids) = Len(procs[p].kids) - 1
      /\ \A j \in 1..(Len(procs[p].kids) - 1) : kids[j] = procs[p].kids[Moved(j, k)]
  <2>1. procs[p].kids \in Seq(KidRecords)
    BY DEF Shape, Shaped
  <2>2. QED  BY <1>2, <2>1, RemovedAt
<1>10. PICK ps : ps = [ReadOf(p, job) EXCEPT ![p].kids = RemoveAt(@, procs[p].job.k)]
                 /\ procs' = Tidy(ps)
  BY <1>1
<1>11. Drops(ps, p, k, r, kids, job)
  <2>1. PICK dropped : dropped = kids
    OBVIOUS
  <2>2. Drops(ps, p, procs[p].job.k, Kid(p).pid, dropped, job)
    BY <1>2, <1>8, <1>10, <2>1, DropRead
  <2>3. QED  BY <2>1, <2>2
<1> HIDE DEF kids, k, r
<1>12. PICK s : Lost(p, s, k, job)
  <2>1. r = procs[p].kids[k].pid
    BY <1>2 DEF r
  <2>2. Gone(procs[r])
    BY <1>4 DEF r
  <2>3. QED  BY <1>2, <1>7, <1>9, <1>10, <1>11, <2>1, <2>2, Tidied
<1>13. s.job = job /\ s.alive /\ s.down = <<>> /\ s.up = <<>>
  BY <1>2, <1>12 DEF Lost, Working
<1>14. Saying(s) /\ s.job.cmd[1] # "graduate" /\ OneMessage(s.job.say[1])
       /\ s.job.say[1] = Success
  BY <1>3, <1>6, <1>13, Words DEF Saying
<1>15. main.at \in {"graduate", "free"} /\
       (main.at = "free" => cmd = <<"checkForGraduate", main.cmd[3]>> /\ Kid(p).name = main.cmd[3])
  BY <1>2, <1>3, AllowedWords
<1>16. main.at = "free" => p = Root
  BY <1>2, <1>15, AdoptedAtRoot
<1>17. p # Root => Serves(s, cmd, main.at)
  <2>1. SUFFICES ASSUME p # Root  PROVE Serves(s, cmd, main.at)
    OBVIOUS
  <2>2. IsReply(Success, cmd, main.at)
    BY <1>3, <1>16, <2>1, Words DEF IsReply
  <2>3. QED  BY <1>6, <1>13, <1>14, <2>2 DEF Serves
<1>18. RootServes(s)
  BY <1>14 DEF RootServes
<1>19. Lost(p, s, procs[p].job.k, job) /\ Gone(procs[Kid(p).pid])
  BY <1>4, <1>12 DEF k, r
<1>20. QED
  BY <1>1, <1>4, <1>6, <1>15, <1>17, <1>18, <1>19, DropLive

(* graduate waits for its first child.                                     *)
LEMMA HasLeftStep ==
    ASSUME Shape, LiveInv, Root \in DOMAIN procs, UNCHANGED <<main, fifo>>,
           NEW p \in DOMAIN procs, HasLeft(p)
    PROVE  Shape' /\ LiveInv'
<1> DEFINE job == [procs[p].job EXCEPT !.at = "ask"]
           cmd == procs[p].job.cmd
           r == Kid(p).pid
           k == procs[p].job.k
           kids == Tail(procs[p].kids)
<1>1. /\ Answers(p) /\ cmd[1] = "graduate"
      /\ (Reply(p) # <<>> /\ Reply(p)[1] = Exited[1]) => IsGone(p)
      /\ procs' = Tidy([ReadOf(p, job) EXCEPT ![p].kids = Tail(@)])
  BY DEF HasLeft
<1>2. /\ k \in 1..Len(procs[p].kids) /\ k \in DOMAIN procs[p].kids /\ Kid(p) = procs[p].kids[k]
      /\ r \in DOMAIN procs /\ r # p /\ Working(procs[p]) /\ Allowed(cmd) /\ Task(procs[p]) = cmd
      /\ Busy(procs[p])
      /\ IsReply(Reply(p), ForKid(cmd, Kid(p).name), main.at)
  BY <1>1, AnswerShape
<1>3. ForKid(cmd, Kid(p).name)[1] = "graduate"
  BY <1>1 DEF ForKid, ForItself
<1>4. Gone(procs[r])
  <2>1. Reply(p) = Exited
    BY <1>2, <1>3 DEF IsReply
  <2>2. IsGone(p)
    BY <1>1, <2>1, Words
  <2>3. QED  BY <1>1, <2>2, GoneKid
<1>5. k = 1
  BY <1>1, <1>2 DEF Working
<1>6. /\ job.at = "ask" /\ job.say = <<>> /\ job.cmd = cmd /\ job.k = 1 /\ job.success = TRUE
      /\ DOMAIN job = DOMAIN procs[p].job
  <2>1. DOMAIN procs[p].job = {"cmd", "at", "k", "success", "buf", "fifo", "say"}
    BY DEF Shape, Shaped
  <2>2. procs[p].job.say = <<>> /\ procs[p].job.success = TRUE
    BY <1>2 DEF Working
  <2>3. QED  BY <1>5, <2>1, <2>2
<1>7. JobShaped(job)
  BY <1>6 DEF JobShaped, Shape, Shaped
<1> HIDE DEF job
<1>8. Settle(job) = job
  BY <1>6 DEF Settle
<1>9. kids \in Seq(KidRecords) /\ Len(kids) = Len(procs[p].kids) - 1
      /\ \A j \in 1..(Len(procs[p].kids) - 1) : kids[j] = procs[p].kids[Moved(j, k)]
  <2>1. procs[p].kids \in Seq(KidRecords) /\ Len(procs[p].kids) \in Nat
    BY KidDomain DEF Shape, Shaped
  <2>2. 1 <= Len(procs[p].kids)
    BY <1>2, <1>5, <2>1
  <2>3. QED  BY <1>5, <2>1, <2>2, RemovedHead
<1>10. PICK ps : ps = [ReadOf(p, job) EXCEPT ![p].kids = Tail(@)] /\ procs' = Tidy(ps)
  BY <1>1
<1>11. Drops(ps, p, k, r, kids, job)
  <2>1. PICK dropped : dropped = kids
    OBVIOUS
  <2>2. Drops(ps, p, procs[p].job.k, Kid(p).pid, dropped, job)
    BY <1>2, <1>8, <1>10, <2>1, DropRead
  <2>3. QED  BY <2>1, <2>2
<1>12. PICK s : Lost(p, s, k, job)
  <2>1. r = procs[p].kids[k].pid
    BY <1>2
  <2> HIDE DEF kids, k, r
  <2>2. QED  BY <1>2, <1>4, <1>7, <1>9, <1>10, <1>11, <2>1, Tidied
<1>13. s.job = job /\ s.alive /\ s.down = <<>> /\ s.up = <<>> /\ Shaped(s)
  BY <1>2, <1>12 DEF Lost, Working
<1>14. Working(s)
  <2>1. Len(s.kids) \in Nat
    BY <1>13, KidDomain
  <2>2. s.job.k \in 1..(Len(s.kids) + 1)
    BY <1>6, <1>13, <2>1
  <2>3. QED  BY <1>6, <1>13, <2>2 DEF Working
<1>15. Serves(s, cmd, main.at) /\ RootServes(s)
  BY <1>6, <1>13, <1>14 DEF Serves, RootServes
<1>16. p = Root => main.at # "free"
  <2>1. SUFFICES ASSUME p = Root, main.at = "free"  PROVE FALSE
    OBVIOUS
  <2>2. Task(procs[p]) = <<"checkForGraduate", main.cmd[3]>>
    BY <1>2, <2>1 DEF LiveInv, PhaseInv, FreeInv, RootFrees
  <2>3. QED  BY <1>1, <1>2, <2>2
<1>17. QED
  BY <1>1, <1>3, <1>4, <1>6, <1>12, <1>15, <1>16, DropLive

-----------------------------------------------------------------------------
(* A step of a friend.                                                     *)

(* The root is alive as long as the commands go on.                        *)
LEMMA LiveRoot ==
    ASSUME LiveInv'
    PROVE  Alive(procs', Root)
<1>1. Root \in DOMAIN procs'
  BY DEF LiveInv, Core, TreeInv, NameInv
<1>2. Free(procs'[Root]) \/ RootServes(procs'[Root])
  BY DEF LiveInv, Core, RootInv, Free, RootServes, Hearing, Working, Saying, Leaving, Replied
<1>3. procs'[Root].alive
  BY <1>2, RootByJob
<1>4. QED  BY <1>1, <1>3 DEF Alive

(* No step of a friend breaks the invariant.                               *)
LEMMA FriendStep ==
    ASSUME Shape, MainInv, LiveInv, Alive(procs, Root), UNCHANGED main,
           NEW p \in DOMAIN procs, Friend(p)
    PROVE  IInv'
<1>1. Root \in DOMAIN procs
  BY DEF Alive
<1>2. UNCHANGED fifo => MainInv'
  BY DEF MainInv
<1>3. Shape' /\ MainInv' /\ LiveInv' => IInv'
  BY LiveRoot DEF IInv
<1>4. CASE Exit(p) /\ UNCHANGED fifo
  <2>1. Shape' /\ IF p = Root THEN OverInv' /\ ~Alive(procs', Root) ELSE LiveInv'
    BY <1>1, <1>4, ExitStep
  <2>2. CASE p = Root
    BY <1>2, <1>4, <2>1, <2>2 DEF IInv, Alive
  <2>3. CASE p # Root
    BY <1>2, <1>3, <1>4, <2>1, <2>3
  <2>4. QED  BY <2>2, <2>3
<1>5. CASE AskAdopted(p)
  BY <1>1, <1>3, <1>5, AskAdoptedStep
<1>6. ~Eof(p)
  BY Listener DEF Eof, LiveInv, Core
<1>7. CASE /\ UNCHANGED fifo
           /\ \/ MeetHere(p) \/ ValueHere(p) \/ BeAdopted(p) \/ Collect(p) \/ PassOn(p)
              \/ Graduate(p)
  BY <1>1, <1>2, <1>3, <1>7, MeetHereStep, ValueHereStep, BeAdoptedStep, CollectStep, PassOnStep,
     GraduateStep
<1>8. CASE /\ UNCHANGED fifo
           /\ \/ Ask(p) \/ Found(p) \/ FoundGraduated(p) \/ NotFound(p) \/ Collected(p)
              \/ WasAdopted(p) \/ HasLeft(p) \/ Finish(p) \/ Say(p)
  BY <1>1, <1>2, <1>3, <1>8, AskStep, FoundStep, FoundGraduatedStep, NotFoundStep,
     CollectedStep, WasAdoptedStep, HasLeftStep, FinishStep, SayStep
<1>9. QED
  BY <1>4, <1>5, <1>6, <1>7, <1>8 DEF Friend

(* After Not_Tako has left, a friend can do nothing but leave.             *)
LEMMA FriendOverStep ==
    ASSUME Shape, MainInv, OverInv, ~Alive(procs, Root), UNCHANGED main,
           NEW p \in DOMAIN procs, Friend(p)
    PROVE  IInv'
<1>1. procs[p].job.at = "idle" /\ procs[p].down = <<>> /\ procs[p].job.say = <<>>
  BY IdleFields DEF OverInv, Shape, Shaped
<1>2. ~Hears(p) /\ ~Asking(p) /\ ~Answers(p) /\ ~Say(p) /\ ~Exit(p)
  BY <1>1 DEF Hears, Asking, Answers, Say, Exit
<1>3. Eof(p) /\ UNCHANGED fifo
  BY <1>2 DEF Friend, MeetHere, ValueHere, BeAdopted, Collect, PassOn, Ask, Found, FoundGraduated,
              NotFound, Collected, WasAdopted, HasLeft, Finish, Graduate, AskAdopted
<1>4. procs' = End(procs, p)
  BY <1>3 DEF Eof
<1>5. \A q \in DOMAIN procs \ {p} : procs[q].job.at = "idle" /\ procs[q].down = <<>>
  BY DEF OverInv
<1>6. Shape' /\ OverInv' /\ ~Alive(procs', Root)
  BY <1>4, <1>5, EndOver
<1>7. MainInv'
  BY <1>3 DEF MainInv
<1>8. QED  BY <1>6, <1>7 DEF IInv, Alive

-----------------------------------------------------------------------------
(* The loop of Not_Tako waits for the root only.                           *)

(* The root has nothing to do, and so has nobody.                          *)
Rests ==
    /\ Root \in DOMAIN procs /\ procs[Root].alive
    /\ procs[Root].job = Idle /\ procs[Root].down = <<>>
    /\ \A p \in DOMAIN procs \ {Root} : Free(procs[p])

(* It rests when its handler has come back, and between the commands.      *)
LEMMA Resting ==
    ASSUME Shape, LiveInv, Alive(procs, Root), procs[Root].job = Idle,
           procs[Root].up # <<>> \/ main.at = "idle"
    PROVE  Rests
<1>1. procs[Root].down = <<>>
  <2>1. CASE main.at = "idle"
    BY <2>1 DEF LiveInv, Core, RootInv, Free
  <2>2. CASE procs[Root].up # <<>>
    <3>1. ByJob(procs[Root])
      BY KnownByJob DEF Alive
    <3>2. QED  BY <2>2, <3>1 DEF ByJob, Hearing
  <2>3. QED  BY <2>1, <2>2
<1>2. procs[Root].job.at # "wait"
  BY IdleFields
<1>3. QED  BY <1>1, <1>2, AllFree DEF Rests, Alive, LiveInv, Core

(* A new command or reply in the pipes of the root.                         *)
Piped(s, down, up) ==
    /\ OnlyAt(Root, s) /\ Shaped(s) /\ s.name = NotTako
    /\ s.kids = procs[Root].kids /\ s.alive /\ s.down = down /\ s.up = up
    /\ s.value = procs[Root].value /\ s.job = Idle

(* Its record is one of a process.                                         *)
LEMMA RootChanged ==
    ASSUME Shape, LiveInv, Rests, NEW down, NEW up, NEW s,
           \/ s = [[procs[Root] EXCEPT !.down = down] EXCEPT !.up = up]
           \/ s = [procs[Root] EXCEPT !.up = up] /\ down = <<>>,
           procs' = [procs EXCEPT ![Root] = s]
    PROVE  Piped(s, down, up)
<1>1. Root \in DOMAIN procs /\ Shaped(procs[Root]) /\ procs[Root].name = NotTako
      /\ procs[Root].alive /\ procs[Root].job = Idle /\ procs[Root].down = <<>>
  BY DEF Rests, Shape, LiveInv, Core, TreeInv, NameInv
<1>2. DOMAIN procs[Root] = {"name", "value", "kids", "alive", "job", "down", "up"}
  BY <1>1 DEF Shaped
<1>3. /\ DOMAIN s = DOMAIN procs[Root] /\ s.name = NotTako
      /\ s.kids = procs[Root].kids /\ s.alive /\ s.down = down /\ s.up = up
      /\ s.value = procs[Root].value /\ s.job = Idle
      /\ s.alive = procs[Root].alive
  BY <1>1, <1>2
<1>4. Shaped(s)
  BY <1>1, <1>3 DEF Shaped
<1>5. OnlyAt(Root, s)
  BY <1>1 DEF OnlyAt
<1>6. QED  BY <1>3, <1>4, <1>5 DEF Piped

(* The reply is taken, and nothing is asked.                               *)
LEMMA QuietStep ==
    ASSUME Shape, LiveInv, Rests, procs' = Quiet, main'.at = "idle"
    PROVE  Shape' /\ LiveInv'
<1>1. PICK s : /\ OnlyAt(Root, s) /\ Shaped(s) /\ s.name = NotTako
               /\ s.kids = procs[Root].kids /\ s.alive /\ s.down = <<>> /\ s.up = <<>>
               /\ s.job = Idle
  <2>1. PICK s : s = [procs[Root] EXCEPT !.up = <<>>]
    OBVIOUS
  <2>2. procs' = [procs EXCEPT ![Root] = s]
    BY <2>1 DEF Quiet
  <2>3. Piped(s, <<>>, <<>>)
    BY <2>1, <2>2, RootChanged
  <2>4. QED  BY <2>3 DEF Piped
<1>2. Free(s) /\ ~Busy(s) /\ s.job.at # "wait"
  BY <1>1, IdleFields DEF Free, Busy
<1>3. Root \in DOMAIN procs /\ procs[Root].job.at # "wait" /\ procs[Root].name = NotTako
  BY IdleFields DEF Rests, LiveInv, Core, TreeInv, NameInv
<1>4. Shape' /\ Core'
  BY <1>1, <1>2, <1>3, RootStep DEF LiveInv
<1>5. PhaseInv'
  BY DEF PhaseInv, FreshInv, TodoInv, FindInv, RecordInv, BeAdoptInv, RootAdoptInv, FreeInv
<1>6. QED  BY <1>4, <1>5 DEF LiveInv

(* What holds when the root is called.                                     *)
Called(cmd) ==
    /\ Shape' /\ SameTree /\ Core'
    /\ Root \in DOMAIN procs' /\ DOMAIN procs' = DOMAIN procs
    /\ procs'[Root].down = <<cmd>> /\ procs'[Root].up = <<>>
    /\ procs'[Root].job = Idle /\ procs'[Root].value = procs[Root].value
    /\ procs'[Root].kids = procs[Root].kids
    /\ Task(procs'[Root]) = ForItself(cmd, NotTako)
    /\ \A p \in DOMAIN procs \ {Root} : procs'[p] = procs[p] /\ Free(procs[p])
    /\ \A p \in DOMAIN procs' : Busy(procs'[p]) => p = Root

(* A handler is called.                                                    *)
LEMMA CallStep ==
    ASSUME Shape, LiveInv, Rests, NEW cmd, procs' = Call(procs, cmd),
           main'.at # "idle", Allowed(ForItself(cmd, NotTako))'
    PROVE  Called(cmd)
<1>1. PICK s : /\ OnlyAt(Root, s) /\ Shaped(s) /\ s.name = NotTako
               /\ s.kids = procs[Root].kids /\ s.alive /\ s.down = <<cmd>> /\ s.up = <<>>
               /\ s.value = procs[Root].value /\ s.job = Idle
  <2>1. PICK s : s = [[procs[Root] EXCEPT !.down = <<cmd>>] EXCEPT !.up = <<>>]
    OBVIOUS
  <2>2. procs' = [procs EXCEPT ![Root] = s]
    BY <2>1 DEF Call
  <2>3. Piped(s, <<cmd>>, <<>>)
    BY <2>1, <2>2, RootChanged
  <2>4. QED  BY <2>3 DEF Piped
<1>2. Task(s) = ForItself(cmd, NotTako) /\ s.job.at # "wait"
  BY <1>1, IdleFields, Words DEF Task
<1>3. RootServes(s)
  <2>1. OneMessage(s.down)
    BY <1>1, Words
  <2>2. QED  BY <1>1, <2>1 DEF RootServes, Hearing
<1>4. Root \in DOMAIN procs /\ procs[Root].job.at # "wait" /\ procs[Root].name = NotTako
  BY IdleFields DEF Rests, LiveInv, Core, TreeInv, NameInv
<1>5. Allowed(Task(s))'
  BY <1>2 DEF Allowed, Task
<1>6. Shape' /\ SameTree /\ Core'
  BY <1>1, <1>2, <1>3, <1>4, <1>5, RootStep DEF LiveInv
<1>7. /\ procs'[Root] = s /\ DOMAIN procs' = DOMAIN procs
      /\ \A p \in DOMAIN procs \ {Root} : procs'[p] = procs[p] /\ Free(procs[p])
  BY <1>1 DEF OnlyAt, Rests
<1>8. \A p \in DOMAIN procs' : Busy(procs'[p]) => p = Root
  BY <1>7, FreeFacts
<1>9. QED  BY <1>1, <1>2, <1>4, <1>6, <1>7, <1>8 DEF Called

-----------------------------------------------------------------------------
(* The steps of the loop.                                                  *)

(* The handler that was called has come back.                              *)
LEMMA ReturnsRest ==
    ASSUME Shape, LiveInv, NEW at, Returns(at)
    PROVE  Rests /\ main.at = at /\ procs[Root].up # <<>>
BY Resting DEF Returns

(* Phases about which nothing more is said.                                *)
LEMMA PlainPhase ==
    ASSUME main'.at \in {"idle", "check", "graduate"}
    PROVE  PhaseInv'
BY DEF PhaseInv, FreshInv, TodoInv, FindInv, RecordInv, BeAdoptInv, RootAdoptInv, FreeInv

(* The two parts of the invariant.                                         *)
LEMMA CalledLive ==
    ASSUME NEW cmd, Called(cmd), PhaseInv'
    PROVE  Shape' /\ LiveInv'
BY DEF Called, LiveInv

(* The loop goes back to fgets.                                            *)
LEMMA BackToIdle ==
    ASSUME Shape, MainInv, LiveInv, Rests, procs' = Quiet, main' = [main EXCEPT !.at = "idle"],
           (fifo' = fifo /\ main.at \notin Adoption) \/ fifo' = Unlinked
    PROVE  Shape' /\ MainInv' /\ LiveInv'
<1>1. DOMAIN main' = {"at", "cmd", "todo"} /\ main'.at = "idle"
  BY DEF MainInv
<1>2. DOMAIN fifo' = {"id", "there", "records"} /\ ~fifo'.there
  <2>1. CASE fifo' = fifo /\ main.at \notin Adoption
    BY <2>1 DEF MainInv
  <2>2. CASE fifo' = Unlinked
    BY <2>2 DEF MainInv, Unlinked
  <2>3. QED  BY <2>1, <2>2
<1>3. MainInv'
  BY <1>1, <1>2 DEF MainInv, Phases, Adoption
<1>4. QED  BY <1>1, <1>3, QuietStep

(* Meet, a Check that fails and Graduate are over.                         *)
LEMMA AfterMeetStep ==
    ASSUME Shape, MainInv, LiveInv, AfterMeet
    PROVE  Shape' /\ MainInv' /\ LiveInv'
<1>1. Rests /\ main.at = "meet"
  BY ReturnsRest DEF AfterMeet
<1>2. QED  BY <1>1, BackToIdle DEF AfterMeet, Adoption

LEMMA CheckFailsStep ==
    ASSUME Shape, MainInv, LiveInv, CheckFails
    PROVE  Shape' /\ MainInv' /\ LiveInv'
<1>1. Rests /\ main.at = "check"
  BY ReturnsRest DEF CheckFails
<1>2. QED  BY <1>1, BackToIdle DEF CheckFails, Adoption

LEMMA AfterGraduateStep ==
    ASSUME Shape, MainInv, LiveInv, AfterGraduate
    PROVE  Shape' /\ MainInv' /\ LiveInv'
<1>1. Rests /\ main.at = "graduate"
  BY ReturnsRest DEF AfterGraduate
<1>2. QED  BY <1>1, BackToIdle DEF AfterGraduate, Adoption

(* Check is over; Graduate goes on.                                        *)
LEMMA CheckSucceedsStep ==
    ASSUME Shape, MainInv, LiveInv, CheckSucceeds
    PROVE  Shape' /\ MainInv' /\ LiveInv'
<1>1. Rests /\ main.at = "check"
  BY ReturnsRest DEF CheckSucceeds
<1>2. CASE main.cmd[1] = "Graduate"
  <2>1. /\ main' = [main EXCEPT !.at = "graduate"] /\ UNCHANGED fifo
        /\ procs' = Call(procs, <<"checkForGraduate", main.cmd[2]>>)
    BY <1>2 DEF CheckSucceeds
  <2>2. DOMAIN main' = {"at", "cmd", "todo"} /\ main'.at = "graduate" /\ main'.cmd = main.cmd
    BY <2>1 DEF MainInv
  <2>3. MainInv'
    BY <1>1, <2>1, <2>2 DEF MainInv, Phases, Adoption
  <2>4. PICK cmd : cmd = <<"checkForGraduate", main.cmd[2]>>
    OBVIOUS
  <2>5. ForItself(cmd, NotTako) \in {<<"checkForGraduate", main.cmd[2]>>, <<"graduate">>}
    BY <2>4 DEF ForItself
  <2>6. Allowed(ForItself(cmd, NotTako))'
    BY <2>2, <2>5 DEF Allowed
  <2>7. Called(cmd)
    BY <1>1, <2>1, <2>2, <2>4, <2>6, CallStep
  <2>8. QED  BY <2>2, <2>3, <2>7, PlainPhase, CalledLive
<1>3. CASE main.cmd[1] # "Graduate"
  BY <1>1, <1>3, BackToIdle DEF CheckSucceeds, Adoption
<1>4. QED  BY <1>2, <1>3

(* A command with one more word.                                           *)
LEMMA FourWords ==
    ASSUME NEW a, NEW b, NEW c, NEW d
    PROVE  <<a, b, c>> \o <<d>> = <<a, b, c, d>>
<1> DEFINE S == {a, b, c, d}
           all == <<a, b, c>> \o <<d>>
<1>1. <<a, b, c>> \in Seq(S) /\ <<d>> \in Seq(S) /\ <<a, b, c, d>> \in Seq(S)
  OBVIOUS
<1>2. all \in Seq(S) /\ Len(all) = 4
  BY <1>1
<1>3. all[1] = a /\ all[2] = b /\ all[3] = c /\ all[4] = d
  BY <1>1
<1>4. \A i \in 1..4 : i = 1 \/ i = 2 \/ i = 3 \/ i = 4
  OBVIOUS
<1> HIDE DEF all
<1>5. all = <<a, b, c, d>>
  BY <1>1, <1>2, <1>3, <1>4, SeqEqual
<1>6. QED  BY <1>5 DEF all

(* The parent was found: it is not below the child, which is then one of   *)
(* the root.                                                               *)
LEMMA AfterFindStep ==
    ASSUME Shape, MainInv, LiveInv, AfterFind
    PROVE  Shape' /\ MainInv' /\ LiveInv'
<1>1. Rests /\ main.at = "find" /\ procs[Root].up # <<>>
  BY ReturnsRest DEF AfterFind
<1>2. CASE Failed(Result)
  BY <1>1, <1>2, BackToIdle DEF AfterFind
<1>3. CASE ~Failed(Result)
  <2> DEFINE x == main.cmd[2]
             c == main.cmd[3]
  <2>1. /\ main' = [main EXCEPT !.at = "adopt"] /\ UNCHANGED fifo
        /\ procs' = Call(procs, main.cmd \o <<ValueOf(Result)>>)
    BY <1>3 DEF AfterFind
  <2>2. DOMAIN main' = {"at", "cmd", "todo"} /\ main'.at = "adopt" /\ main'.cmd = main.cmd
    BY <2>1 DEF MainInv
  <2>3. MainInv'
    BY <1>1, <2>1, <2>2 DEF MainInv, Phases, Adoption
  <2>4. Finds(Root, Result) /\ Result \notin {<<>>, Fail}
    BY <1>1, <1>3 DEF LiveInv, PhaseInv, FindInv, Result, Rests, Failed
  <2>5. /\ Result = << <<"value", Result[1][2]>> >> /\ Result[1][2] \in Divisors
        /\ Leads(Root, x, c)
    BY <2>4 DEF Finds
  <2>6. ValueOf(Result) \in Divisors
    BY <2>5 DEF ValueOf
  <2>7. PICK v : v = ValueOf(Result)
    OBVIOUS
  <2>8. PICK cmd : cmd = main.cmd \o <<v>>
    OBVIOUS
  <2>9. cmd = <<"Adopt", x, c, v>> /\ c \in Friends
    <3>1. main.cmd \in {"Adopt"} \X Names \X Friends
      BY <1>1 DEF MainInv, Adoption
    <3>2. main.cmd = <<"Adopt", x, c>> /\ c \in Friends
      BY <3>1
    <3>3. <<"Adopt", x, c>> \o <<v>> = <<"Adopt", x, c, v>>
      BY FourWords
    <3>4. QED  BY <2>8, <3>2, <3>3
  <2>10. ForItself(cmd, NotTako) = cmd
    BY <2>9 DEF ForItself
  <2>11. Allowed(ForItself(cmd, NotTako))'
    <3>1. cmd[1] = "Adopt" /\ cmd[4] = v
      BY <2>9
    <3>2. QED  BY <2>2, <2>6, <2>7, <2>9, <2>10, <3>1 DEF Allowed
  <2>12. Called(cmd)
    BY <1>1, <2>1, <2>2, <2>7, <2>8, <2>11, CallStep
  <2>13. PICK i \in DOMAIN procs[Root].kids : procs[Root].kids[i].name = c
    BY <1>1, <2>5 DEF LiveInv, PhaseInv, FindInv
  <2>14. fifo.records = <<>> /\ fifo' = fifo
    BY <1>1, <2>1 DEF LiveInv, PhaseInv, FindInv
  <2>15. <<>> \in Seq(Records) /\ Different(<<>>) /\ NamesIn(<<>>) = {}
    BY DEF Different, NamesIn
  <2>16. \A n : ~Recorded(n)'
    BY <2>14, <2>15 DEF Recorded
  <2>17. ASSUME NEW p \in DOMAIN procs', procs'[p].name = c
         PROVE  p \in KidPids(procs', Root)
    <3>1. p \in DOMAIN procs /\ procs[p].name = c
      BY <2>12, <2>17 DEF Called, SameTree
    <3>2. procs[Root].kids[i].pid = p
      BY <1>1, <2>13, <3>1 DEF LiveInv, Core, TreeInv, KidInv, NameInv, Rests
    <3>3. QED  BY <2>12, <3>2 DEF Called, KidPids
  <2>18. RecordInv'
    <3>1. fifo'.records \in Seq(Records) /\ Different(fifo'.records)
      BY <2>14, <2>15
    <3>2. \A q \in DOMAIN procs' : \A j \in DOMAIN procs'[q].kids :
              ~Recorded(procs[q].kids[j].name)'
      BY <2>16 DEF Recorded
    <3>3. QED  BY <2>2, <2>17, <3>1, <3>2 DEF RecordInv
  <2>19. Task(procs'[Root])[1] = "Adopt"
    BY <2>9, <2>10, <2>12 DEF Called
  <2>20. BeAdoptInv'
    <3>1. \A p \in DOMAIN procs' : Busy(procs'[p]) => Task(procs'[p])[1] # "beAdopt"
      BY <2>12, <2>19 DEF Called
    <3>2. QED  BY <3>1 DEF BeAdoptInv, BeAdopts, Busy, Task
  <2>21. RootAdoptInv'
    BY <2>14, <2>19 DEF RootAdoptInv, RootAdopts, Task
  <2>22. PhaseInv'
    BY <2>2, <2>18, <2>20, <2>21 DEF PhaseInv, FreshInv, TodoInv, FindInv, FreeInv
  <2>23. QED  BY <2>3, <2>12, <2>22, CalledLive
<1>4. QED  BY <1>2, <1>3

-----------------------------------------------------------------------------
(* The subtree of the child is told to leave.                              *)
LEMMA AfterAdoptStep ==
    ASSUME FriendAssumption, Shape, MainInv, LiveInv, AfterAdopt
    PROVE  Shape' /\ MainInv' /\ LiveInv'
<1>1. Rests /\ main.at = "adopt"
  BY ReturnsRest DEF AfterAdopt
<1>2. /\ main' = [main EXCEPT !.at = "free"] /\ UNCHANGED fifo
      /\ procs' = Call(procs, <<"checkForGraduate", main.cmd[3]>>)
  BY DEF AfterAdopt
<1>3. DOMAIN main' = {"at", "cmd", "todo"} /\ main'.at = "free" /\ main'.cmd = main.cmd
  BY <1>2 DEF MainInv
<1>4. MainInv'
  BY <1>1, <1>2, <1>3 DEF MainInv, Phases, Adoption
<1>5. PICK cmd : cmd = <<"checkForGraduate", main.cmd[3]>>
  OBVIOUS
<1>6. main.cmd[3] # NotTako
  BY <1>1 DEF MainInv, Adoption, FriendAssumption
<1>7. ForItself(cmd, NotTako) = cmd
  BY <1>5, <1>6 DEF ForItself
<1>8. Allowed(ForItself(cmd, NotTako))'
  BY <1>3, <1>5, <1>7 DEF Allowed
<1>9. Called(cmd)
  BY <1>1, <1>2, <1>3, <1>5, <1>8, CallStep
<1>10. RecordInv'
  <2>1. RecordInv /\ main.at = "adopt"
    BY <1>1 DEF LiveInv, PhaseInv
  <2>2. SameTree /\ \A n : Recorded(n)' <=> Recorded(n)
    BY <1>2, <1>9 DEF Called, Recorded
  <2>3. \A p \in DOMAIN procs' : procs'[p].name = main'.cmd[3] => p \in KidPids(procs', Root)
    <3>1. KidPids(procs', Root) = KidPids(procs, Root)
      BY <1>1, <2>2, SameKidPids DEF Rests
    <3>2. QED  BY <1>3, <2>1, <2>2, <3>1 DEF SameTree, RecordInv
  <2>4. \A q \in DOMAIN procs' : \A i \in DOMAIN procs'[q].kids :
              Recorded(procs[q].kids[i].name)' =>
                  procs'[q].kids[i].name = main'.cmd[3] \/ Recorded(procs[q].name)'
    BY <1>2, <1>3, <2>1, <2>2 DEF SameTree, RecordInv, Recorded
  <2>5. QED  BY <1>2, <2>1, <2>3, <2>4 DEF RecordInv
<1>11. FreeInv'
  <2>1. Task(procs'[Root]) = <<"checkForGraduate", main'.cmd[3]>>
    BY <1>3, <1>5, <1>7, <1>9 DEF Called
  <2>2. procs'[Root].job.at = "idle" /\ procs'[Root].down # <<>>
    BY <1>9, IdleFields DEF Called
  <2>3. QED  BY <2>1, <2>2 DEF FreeInv, RootFrees, Task
<1>12. PhaseInv'
  BY <1>3, <1>10, <1>11 DEF PhaseInv, FreshInv, TodoInv, FindInv, BeAdoptInv, RootAdoptInv
<1>13. QED  BY <1>4, <1>9, <1>12, CalledLive

(* Nobody who is recorded is there any more: without the child that was    *)
(* adopted, a parent of such a friend would be recorded as well.           *)
LEMMA RecordedGone ==
    ASSUME FriendAssumption, Shape, MainInv, LiveInv, Rests, main.at = "free",
           NEW n, Recorded(n)
    PROVE  Fresh(n)
<1>1. /\ fifo.records \in Seq(Records)
      /\ \A q \in DOMAIN procs : \A i \in DOMAIN procs[q].kids :
            Recorded(procs[q].kids[i].name) =>
                procs[q].kids[i].name = main.cmd[3] \/ Recorded(procs[q].name)
  BY DEF LiveInv, PhaseInv, RecordInv
<1>2. Fresh(main.cmd[3])
  BY IdleFields DEF LiveInv, PhaseInv, FreeInv, RootFrees, Rests
<1>3. \A m : Recorded(m) => m \in Friends
  <2>1. \A i \in DOMAIN fifo.records : fifo.records[i] \in Records
    BY <1>1
  <2>2. QED  BY <2>1 DEF Recorded, NamesIn, Records
<1> DEFINE S == {p \in DOMAIN procs \ {Root} : Recorded(procs[p].name)}
<1>4. S = {}
  <2>1. SUFFICES ASSUME S # {}  PROVE FALSE
    OBVIOUS
  <2>2. PICK p \in S : \A q \in DOMAIN procs : p \in KidPids(procs, q) => q \notin S
    <3>1. S \in SUBSET (DOMAIN procs \ {Root})
      OBVIOUS
    <3> HIDE DEF S
    <3>2. QED  BY <2>1, <3>1 DEF LiveInv, Core, TreeInv, Grounded
  <2>3. PICK q \in DOMAIN procs : p \in KidPids(procs, q)
    BY DEF LiveInv, Core, TreeInv, ParentInv
  <2>4. PICK i \in DOMAIN procs[q].kids : procs[q].kids[i].pid = p
    BY <2>3 DEF KidPids
  <2>5. procs[q].kids[i].name = procs[p].name
    BY <2>4 DEF LiveInv, Core, TreeInv, KidInv
  <2>6. Recorded(procs[q].kids[i].name) /\ procs[p].name # main.cmd[3]
    BY <1>2, <2>5 DEF Fresh
  <2>7. Recorded(procs[q].name)
    BY <1>1, <2>5, <2>6
  <2>8. q = Root
    BY <2>2, <2>3, <2>7
  <2>9. QED
    BY <1>3, <2>7, <2>8 DEF LiveInv, Core, TreeInv, NameInv, FriendAssumption
<1>5. \A p \in DOMAIN procs : procs[p].name # n
  BY <1>3, <1>4 DEF LiveInv, Core, TreeInv, NameInv, FriendAssumption
<1>6. QED  BY <1>5 DEF Fresh

(* Everybody whom the fifo names may be met again.                         *)
LEMMA ReadFifoStep ==
    ASSUME FriendAssumption, Shape, MainInv, LiveInv, ReadFifo
    PROVE  Shape' /\ MainInv' /\ LiveInv'
<1>1. Rests /\ main.at = "free"
  BY ReturnsRest DEF ReadFifo
<1>2. /\ main' = [main EXCEPT !.at = "rebuild", !.todo = fifo.records]
      /\ fifo' = [fifo EXCEPT !.records = <<>>]
      /\ procs' = [procs EXCEPT ![Root].up = Success]
  BY DEF ReadFifo
<1>3. /\ DOMAIN main' = {"at", "cmd", "todo"} /\ main'.at = "rebuild" /\ main'.cmd = main.cmd
      /\ main'.todo = fifo.records
      /\ DOMAIN fifo' = {"id", "there", "records"}
  BY <1>2 DEF MainInv
<1>4. MainInv'
  BY <1>1, <1>3 DEF MainInv, Phases, Adoption
<1>5. PICK s : Piped(s, <<>>, Success)
  <2>1. PICK s : s = [procs[Root] EXCEPT !.up = Success]
    OBVIOUS
  <2>2. procs' = [procs EXCEPT ![Root] = s]
    BY <1>2, <2>1
  <2>3. QED  BY <1>1, <2>1, <2>2, RootChanged
<1>6. /\ OnlyAt(Root, s) /\ Shaped(s) /\ s.name = NotTako
      /\ s.kids = procs[Root].kids /\ s.alive /\ s.down = <<>> /\ s.up = Success
      /\ s.job = Idle
  BY <1>5 DEF Piped
<1>7. ~Busy(s) /\ s.job.at # "wait"
  BY <1>6, IdleFields DEF Busy
<1>8. RootServes(s)
  BY <1>6, Words DEF RootServes, Replied
<1>9. Root \in DOMAIN procs /\ procs[Root].job.at # "wait" /\ procs[Root].name = NotTako
  BY <1>1, IdleFields DEF Rests, LiveInv, Core, TreeInv, NameInv
<1>10. Shape' /\ SameTree /\ Core'
  BY <1>3, <1>6, <1>7, <1>8, <1>9, RootStep DEF LiveInv
<1>11. \A p \in DOMAIN procs' : ~Busy(procs'[p])
  BY <1>1, <1>6, <1>7, FreeFacts DEF OnlyAt, Rests
<1>12. TodoInv'
  <2>1. fifo.records \in Seq(Records) /\ Different(fifo.records)
    BY <1>1 DEF LiveInv, PhaseInv, RecordInv
  <2>2. \A i \in DOMAIN fifo.records : Recorded(fifo.records[i][3])
    BY DEF Recorded, NamesIn
  <2>3. \A i \in DOMAIN fifo.records : Fresh(fifo.records[i][3])
    BY <1>1, <2>2, RecordedGone
  <2>4. \A i \in DOMAIN main'.todo : Fresh(main.todo[i][3])'
    BY <1>3, <1>10, <2>3 DEF Fresh, SameTree
  <2>5. QED  BY <1>3, <1>11, <2>1, <2>4 DEF TodoInv, Busy
<1>13. PhaseInv'
  BY <1>3, <1>11, <1>12
     DEF PhaseInv, FreshInv, FindInv, RecordInv, BeAdoptInv, RootAdoptInv, FreeInv, Busy
<1>14. QED  BY <1>4, <1>10, <1>13 DEF LiveInv

(* The next friend is met.                                                 *)
LEMMA RebuildStep ==
    ASSUME Shape, MainInv, LiveInv, Rebuild
    PROVE  Shape' /\ MainInv' /\ LiveInv'
<1>1. Rests /\ main.at = "rebuild"
  BY ReturnsRest DEF Rebuild
<1>2. CASE main.todo = <<>>
  BY <1>1, <1>2, BackToIdle DEF Rebuild
<1>3. CASE main.todo # <<>>
  <2>1. /\ main' = [main EXCEPT !.todo = Tail(@)] /\ UNCHANGED fifo
        /\ procs' = Call(procs, Head(main.todo))
    BY <1>3 DEF Rebuild
  <2>2. /\ DOMAIN main' = {"at", "cmd", "todo"} /\ main'.at = "rebuild" /\ main'.cmd = main.cmd
        /\ main'.todo = Tail(main.todo)
    BY <1>1, <2>1 DEF MainInv
  <2>3. MainInv'
    BY <1>1, <2>1, <2>2 DEF MainInv
  <2>4. /\ main.todo \in Seq(Records) /\ Different(main.todo)
        /\ \A i \in DOMAIN main.todo : Fresh(main.todo[i][3])
    BY <1>1 DEF LiveInv, PhaseInv, TodoInv
  <2>5. PICK cmd : cmd = Head(main.todo)
    OBVIOUS
  <2>6. /\ cmd = main.todo[1] /\ 1 \in DOMAIN main.todo /\ cmd \in Records
        /\ Tail(main.todo) \in Seq(Records)
        /\ \A i \in DOMAIN Tail(main.todo) :
              i + 1 \in DOMAIN main.todo /\ Tail(main.todo)[i] = main.todo[i + 1] /\ i + 1 # 1
    BY <1>3, <2>4, <2>5
  <2>7. ForItself(cmd, NotTako) = cmd
    <3>1. cmd[1] = "Meet"
      BY <2>6 DEF Records
    <3>2. QED  BY <3>1 DEF ForItself
  <2>8. Allowed(ForItself(cmd, NotTako))'
    BY <2>2, <2>6, <2>7 DEF Allowed, Records
  <2>9. Called(cmd)
    BY <1>1, <2>1, <2>2, <2>5, <2>8, CallStep
  <2>10. Task(procs'[Root]) = cmd
    BY <2>7, <2>9 DEF Called
  <2>11. \A n : Fresh(n) => Fresh(n)'
    BY <2>9 DEF Called, SameTree, Fresh
  <2>12. FreshInv'
    <3>1. Fresh(cmd[3])
      BY <2>4, <2>6
    <3>2. \A p \in DOMAIN procs' : Busy(procs'[p]) => Fresh(Task(procs'[p])[3])
      BY <2>9, <2>10, <2>11, <3>1 DEF Called
    <3>3. QED  BY <2>9, <2>10, <2>11, <3>1 DEF FreshInv, Called, Busy, Task
  <2>13. TodoInv'
    <3>1. Different(Tail(main.todo))
      <4>1. SUFFICES ASSUME NEW i \in DOMAIN Tail(main.todo), NEW j \in DOMAIN Tail(main.todo),
                            Tail(main.todo)[i][3] = Tail(main.todo)[j][3]
                     PROVE  i = j
        BY DEF Different
      <4>2. i + 1 = j + 1
        BY <2>4, <2>6, <4>1 DEF Different
      <4>3. i \in Nat /\ j \in Nat
        BY <2>6
      <4>4. QED  BY <4>2, <4>3
    <3>2. \A i \in DOMAIN Tail(main.todo) :
              Fresh(Tail(main.todo)[i][3]) /\ Tail(main.todo)[i][3] # cmd[3]
      BY <2>4, <2>6 DEF Different
    <3>3. \A i \in DOMAIN main'.todo : Fresh(main.todo[i][3])'
      BY <2>2, <2>9, <3>2 DEF Called, SameTree, Fresh
    <3>4. \A i \in DOMAIN main'.todo : \A p \in DOMAIN procs' :
              Busy(procs[p])' => Task(procs[p])'[3] # main'.todo[i][3]
      <4>1. \A p \in DOMAIN procs' : Busy(procs'[p]) => Task(procs'[p]) = cmd
        BY <2>9, <2>10 DEF Called
      <4>2. QED  BY <2>2, <3>2, <4>1 DEF Busy, Task
    <3>5. QED  BY <2>2, <2>6, <3>1, <3>3, <3>4 DEF TodoInv
  <2>14. PhaseInv'
    BY <2>2, <2>12, <2>13
       DEF PhaseInv, FindInv, RecordInv, BeAdoptInv, RootAdoptInv, FreeInv
  <2>15. QED  BY <2>3, <2>9, <2>14, CalledLive
<1>4. QED  BY <1>2, <1>3

-----------------------------------------------------------------------------
(* The commands.                                                           *)

(* Between two commands.                                                   *)
LEMMA AtRestRests ==
    ASSUME Shape, MainInv, LiveInv, AtRest
    PROVE  /\ Rests /\ procs[Root].up = <<>> /\ main.at = "idle" /\ ~fifo.there
           /\ DOMAIN main = {"at", "cmd", "todo"}
           /\ DOMAIN fifo = {"id", "there", "records"}
<1>1. main.at = "idle" /\ Alive(procs, Root)
  BY DEF AtRest
<1>2. Free(procs[Root])
  BY <1>1 DEF LiveInv, Core, RootInv
<1>3. Rests
  BY <1>1, <1>2, Resting DEF Free
<1>4. QED  BY <1>1, <1>2, <1>3 DEF Free, MainInv, Adoption

(* Meet: a new friend has a name of its own.                               *)
LEMMA MeetCommandStep ==
    ASSUME FriendAssumption, Shape, MainInv, LiveInv, MeetCommand
    PROVE  Shape' /\ MainInv' /\ LiveInv'
<1>1. AtRest
  BY DEF MeetCommand, Turn
<1>2. PICK x \in Names, c \in Friends \ NamesThere :
         /\ main' = [main EXCEPT !.at = "meet", !.cmd = <<"Meet", x, c>>]
         /\ procs' = Call(procs, <<"Meet", x, c, FirstValue[c]>>)
         /\ UNCHANGED fifo
  BY DEF MeetCommand
<1>3. Rests /\ ~fifo.there /\ DOMAIN main = {"at", "cmd", "todo"}
      /\ DOMAIN fifo = {"id", "there", "records"}
  BY <1>1, AtRestRests
<1>4. DOMAIN main' = {"at", "cmd", "todo"} /\ main'.at = "meet"
  BY <1>2, <1>3
<1>5. MainInv'
  BY <1>2, <1>3, <1>4 DEF MainInv, Phases, Adoption
<1>6. PICK cmd : cmd = <<"Meet", x, c, FirstValue[c]>>
  OBVIOUS
<1>7. ForItself(cmd, NotTako) = cmd /\ cmd[3] = c
  BY <1>6 DEF ForItself
<1>8. cmd \in Records
  <2>1. FirstValue[c] \in 0..99
    BY DEF FriendAssumption
  <2>2. FirstValue[c] \in Nat
    BY <2>1
  <2>3. QED  BY <1>6, <2>2 DEF Records
<1>9. Allowed(ForItself(cmd, NotTako))'
  BY <1>4, <1>7, <1>8 DEF Allowed, Records
<1>10. Called(cmd)
  BY <1>2, <1>3, <1>4, <1>6, <1>9, CallStep
<1>11. \A p \in DOMAIN procs : procs[p].name # c
  <2>1. \A p \in DOMAIN procs : procs[p].alive
    BY <1>3 DEF Rests, Free
  <2>2. QED  BY <2>1 DEF NamesThere
<1>12. FreshInv'
  <2>1. \A p \in DOMAIN procs' : Busy(procs'[p]) => Task(procs'[p])[3] = c
    BY <1>7, <1>10 DEF Called
  <2>2. \A p \in DOMAIN procs' : procs'[p].name # c
    BY <1>10, <1>11 DEF Called, SameTree
  <2>3. QED  BY <2>1, <2>2 DEF FreshInv, Fresh, Busy, Task
<1>13. PhaseInv'
  BY <1>4, <1>12
     DEF PhaseInv, TodoInv, FindInv, RecordInv, BeAdoptInv, RootAdoptInv, FreeInv
<1>14. QED  BY <1>5, <1>10, <1>13, CalledLive

(* Check and Graduate.                                                     *)
LEMMA CheckCommandStep ==
    ASSUME Shape, MainInv, LiveInv, CheckCommand
    PROVE  Shape' /\ MainInv' /\ LiveInv'
<1>1. AtRest
  BY DEF CheckCommand, Turn
<1>2. PICK x \in Names, word \in {"Check", "Graduate"} :
         /\ main' = [main EXCEPT !.at = "check", !.cmd = <<word, x>>]
         /\ procs' = Call(procs, <<"Check", x>>)
         /\ UNCHANGED fifo
  BY DEF CheckCommand
<1>3. Rests /\ ~fifo.there /\ DOMAIN main = {"at", "cmd", "todo"}
      /\ DOMAIN fifo = {"id", "there", "records"}
  BY <1>1, AtRestRests
<1>4. DOMAIN main' = {"at", "cmd", "todo"} /\ main'.at = "check" /\ main'.cmd = <<word, x>>
  BY <1>2, <1>3
<1>5. MainInv'
  BY <1>2, <1>3, <1>4 DEF MainInv, Phases, Adoption
<1>6. PICK cmd : cmd = <<"Check", x>>
  OBVIOUS
<1>7. ForItself(cmd, NotTako) \in {<<"Check", x>>, <<"Collect">>}
  BY <1>6 DEF ForItself
<1>8. main'.cmd[2] = x
  BY <1>4
<1>9. Allowed(ForItself(cmd, NotTako))'
  BY <1>4, <1>7, <1>8 DEF Allowed
<1>10. Called(cmd)
  BY <1>2, <1>3, <1>4, <1>6, <1>9, CallStep
<1>11. QED  BY <1>4, <1>5, <1>10, PlainPhase, CalledLive

(* The tree that Not_Tako sees.                                            *)
LEMMA TreeSeen ==
    ASSUME LiveInv, Rests
    PROVE  /\ DOMAIN Tree = NamesThere
           /\ NamesThere = {procs[p].name : p \in DOMAIN procs}
           /\ \A p \in DOMAIN procs :
                 /\ Tree[procs[p].name].value = procs[p].value
                 /\ ToSet(Tree[procs[p].name].kids) =
                        {procs[p].kids[i].name : i \in DOMAIN procs[p].kids}
<1> DEFINE there == {p \in DOMAIN procs : Alive(procs, Root) /\ procs[p].alive}
           Of(n) == CHOOSE p \in there : procs[p].name = n
<1>1. there = DOMAIN procs /\ \A p \in DOMAIN procs : procs[p].alive
  BY DEF Rests, Free, Alive
<1>2. \A p \in DOMAIN procs : Of(procs[p].name) = p
  <2>1. SUFFICES ASSUME NEW p \in DOMAIN procs  PROVE Of(procs[p].name) = p
    OBVIOUS
  <2>2. Of(procs[p].name) \in there /\ procs[Of(procs[p].name)].name = procs[p].name
    BY <1>1
  <2> HIDE DEF Of
  <2>3. QED  BY <1>1, <2>2 DEF LiveInv, Core, TreeInv, NameInv
<1>3. Tree = [n \in {procs[p].name : p \in there} |->
                 [value |-> procs[Of(n)].value,
                  kids |-> [i \in DOMAIN procs[Of(n)].kids |-> procs[Of(n)].kids[i].name]]]
  BY DEF Tree
<1> HIDE DEF Of, there
<1>4. \A p \in DOMAIN procs :
          Tree[procs[p].name] =
              [value |-> procs[p].value,
               kids |-> [i \in DOMAIN procs[p].kids |-> procs[p].kids[i].name]]
  BY <1>1, <1>2, <1>3
<1>5. NamesThere = {procs[p].name : p \in DOMAIN procs}
  BY <1>1 DEF NamesThere
<1>6. DOMAIN Tree = NamesThere
  BY <1>1, <1>3, <1>5
<1>7. ASSUME NEW p \in DOMAIN procs
      PROVE  /\ Tree[procs[p].name].value = procs[p].value
             /\ ToSet(Tree[procs[p].name].kids) =
                    {procs[p].kids[i].name : i \in DOMAIN procs[p].kids}
  <2>1. PICK kids : kids = [i \in DOMAIN procs[p].kids |-> procs[p].kids[i].name]
    OBVIOUS
  <2>2. Tree[procs[p].name].value = procs[p].value /\ Tree[procs[p].name].kids = kids
    <3>1. Tree[procs[p].name] = [value |-> procs[p].value, kids |-> kids]
      BY <1>4, <2>1, Zenon
    <3>2. QED  BY <3>1
  <2>3. ToSet(kids) = {procs[p].kids[i].name : i \in DOMAIN procs[p].kids}
    BY <2>1 DEF ToSet
  <2>4. QED  BY <2>2, <2>3
<1>8. QED  BY <1>5, <1>6, <1>7

(* Without a way that avoids the child, the parent is in its subtree.      *)
LEMMA NoWay ==
    ASSUME LiveInv, Rests, NEW n, NEW c, c \in NamesThere,
           n \notin NamesThere \ Service!Subtree(Tree, c)
    PROVE  ~Leads(Root, n, c)
<1>1. SUFFICES ASSUME NEW W \in SUBSET DOMAIN procs, Way(W, Root, n, c)  PROVE FALSE
  BY DEF Leads
<1> DEFINE S == {m \in NamesThere : \A p \in W : procs[p].name # m}
<1>2. n \in NamesThere /\ \E p \in W : procs[p].name = n
  BY <1>1, TreeSeen DEF Way
<1>3. n \in Service!Subtree(Tree, c)
  BY <1>2
<1>4. S \in SUBSET DOMAIN Tree
  BY TreeSeen
<1>5. c \in S
  BY <1>1 DEF Way
<1>6. \A m \in S : ToSet(Tree[m].kids) \subseteq S
  <2>1. SUFFICES ASSUME NEW y \in DOMAIN procs, procs[y].name \in S, NEW i \in DOMAIN procs[y].kids
                 PROVE  procs[y].kids[i].name \in S
    <3>1. \A m \in S : \E y \in DOMAIN procs : m = procs[y].name
      BY TreeSeen
    <3> HIDE DEF S
    <3>2. QED  BY <2>1, <3>1, TreeSeen
  <2>2. PICK z : z = procs[y].kids[i].pid
    OBVIOUS
  <2>3. z \in DOMAIN procs /\ z # Root /\ procs[z].name = procs[y].kids[i].name
        /\ z \in KidPids(procs, y)
    BY <2>2 DEF LiveInv, Core, TreeInv, KidInv, KidPids
  <2>4. y \notin W
    BY <2>1
  <2>5. z \notin W
    BY <1>1, <2>3, <2>4 DEF Way
  <2>6. \A p \in W : procs[p].name # procs[z].name
    BY <2>3, <2>5 DEF LiveInv, Core, TreeInv, NameInv
  <2>7. QED  BY <2>3, <2>6, TreeSeen
<1>7. n \in S
  <2> HIDE DEF S
  <2>1. \A m \in S : Service!ToSet(Tree[m].kids) \subseteq S
    BY <1>6 DEF Service!ToSet, ToSet
  <2>2. QED  BY <1>3, <1>4, <1>5, <2>1 DEF Service!Subtree
<1>8. QED  BY <1>2, <1>7

(* Adopt: either the child is one of the root, or no way leads to the      *)
(* parent without it.                                                      *)
LEMMA AdoptCommandStep ==
    ASSUME DeepAdoptions = FALSE, FriendAssumption, Shape, MainInv, LiveInv, AdoptCommand
    PROVE  Shape' /\ MainInv' /\ LiveInv'
<1>1. AtRest
  BY DEF AdoptCommand, Turn
<1>2. PICK x \in Names, c \in NamesThere \ {NotTako} :
         /\ MayAdopt(x, c)
         /\ main' = [main EXCEPT !.at = "find", !.cmd = <<"Adopt", x, c>>]
         /\ procs' = Call(procs, <<"findValue", x, c>>)
         /\ fifo' = [id |-> turns + 1, there |-> TRUE, records |-> <<>>]
  BY DEF AdoptCommand
<1>3. Rests /\ DOMAIN main = {"at", "cmd", "todo"}
  BY <1>1, AtRestRests
<1>4. DOMAIN main' = {"at", "cmd", "todo"} /\ main'.at = "find" /\ main'.cmd = <<"Adopt", x, c>>
  BY <1>2, <1>3
<1>5. c \in Friends
  <2>1. \A p \in DOMAIN procs : procs[p].name \in Names
    BY DEF Shape, Shaped
  <2>2. c \in Names
    BY <2>1 DEF NamesThere
  <2>3. QED  BY <2>2 DEF Names
<1>6. /\ DOMAIN fifo' = {"id", "there", "records"} /\ fifo'.there /\ fifo'.records = <<>>
  BY <1>2
<1>7. MainInv'
  BY <1>4, <1>5, <1>6 DEF MainInv, Phases, Adoption
<1>8. PICK cmd : cmd = <<"findValue", x, c>>
  OBVIOUS
<1>9. ForItself(cmd, NotTako) = cmd
  BY <1>8 DEF ForItself
<1>10. main'.cmd[2] = x /\ main'.cmd[3] = c
  BY <1>4
<1>11. Allowed(ForItself(cmd, NotTako))'
  BY <1>4, <1>8, <1>9, <1>10 DEF Allowed
<1>12. Called(cmd)
  BY <1>2, <1>3, <1>4, <1>8, <1>11, CallStep
<1>13. x # c /\ (x \in NamesThere => Tree[x].value # 0)
       /\ \/ \E i \in DOMAIN procs[Root].kids : procs[Root].kids[i].name = c
          \/ x \notin NamesThere \ Service!Subtree(Tree, c)
  BY <1>2 DEF MayAdopt
<1>14. \A p \in DOMAIN procs : procs[p].name = x => procs[p].value # 0
  BY <1>3, <1>13, TreeSeen
<1>15. \/ \E i \in DOMAIN procs[Root].kids : procs[Root].kids[i].name = c
       \/ ~Leads(Root, x, c)
  BY <1>3, <1>13, NoWay
<1>16. FindInv'
  <2>1. SameTree
    BY <1>12 DEF Called
  <2>2. \A p \in DOMAIN procs' : procs'[p].name = x => procs'[p].value # 0
    BY <1>12, <1>14 DEF Called, SameTree
  <2>3. \/ \E i \in DOMAIN procs'[Root].kids : procs'[Root].kids[i].name = c
        \/ ~Leads(Root, x, c)'
    BY <1>12, <1>15, <2>1, WayStays DEF Called
  <2>4. ~Leads(Root, main.cmd[2], main.cmd[3])' <=> ~Leads(Root, x, c)'
    BY <1>10 DEF Leads, Way
  <2>5. \A p \in DOMAIN procs' : procs'[p].up = <<>> /\ procs'[p].job.say = <<>>
    BY <1>12, IdleFields DEF Called, Free
  <2>6. \A p \in DOMAIN procs' : Finds(p, procs[p].up)'
    BY <2>5 DEF Finds
  <2>7. QED  BY <1>6, <1>10, <1>13, <2>2, <2>3, <2>4, <2>5, <2>6 DEF FindInv
<1>17. PhaseInv'
  BY <1>4, <1>16 DEF PhaseInv, FreshInv, TodoInv, RecordInv, BeAdoptInv, RootAdoptInv, FreeInv
<1>18. QED  BY <1>7, <1>12, <1>17, CalledLive

-----------------------------------------------------------------------------
(* The specification.                                                      *)

(* At first there is only the root, which is free.                         *)
LEMMA InitInv == Init => IInv
<1> SUFFICES ASSUME Init  PROVE IInv
  OBVIOUS
<1> DEFINE s == procs[Root]
<1>1. DOMAIN procs = {Root} /\ s = NewProc(NotTako, 100)
  BY DEF Init
<1>2. /\ DOMAIN s = {"name", "value", "kids", "alive", "job", "down", "up"}
      /\ s.name = NotTako /\ s.value = 100 /\ s.kids = <<>> /\ s.alive = TRUE
      /\ s.job = Idle /\ s.down = <<>> /\ s.up = <<>>
  BY <1>1 DEF NewProc
<1> HIDE DEF s
<1>3. Shaped(s)
  <2>1. <<>> \in Seq(KidRecords)
    OBVIOUS
  <2>2. s.kids \in Seq(KidRecords) /\ s.name \in Names /\ s.value \in Nat
    BY <1>2, <2>1 DEF Names
  <2>3. DOMAIN s.job = {"cmd", "at", "k", "success", "buf", "fifo", "say"}
    BY <1>2, IdleFields
  <2>4. QED  BY <1>2, <2>2, <2>3 DEF Shaped
<1>4. Shape
  <2>1. Root \in Pids
    BY FriendAssumption DEF Root, Pids
  <2>2. QED  BY <1>1, <1>3, <2>1 DEF Shape, s
<1>5. main.at = "idle"
  BY DEF Init
<1>6. MainInv
  BY DEF Init, MainInv, Phases, Adoption
<1>7. \A p \in DOMAIN procs : p = Root /\ procs[p] = s
  BY <1>1 DEF s
<1>8. Free(s) /\ ~Busy(s) /\ ~Active(s)
  BY <1>2, FreeFacts DEF Free
<1>9. DOMAIN s.kids = {}
  BY <1>2
<1>10. TreeInv
  <2>1. KidInv /\ OneParent
    BY <1>7, <1>9 DEF KidInv, OneParent
  <2>2. ParentInv /\ NameInv /\ DeadInv
    BY <1>1, <1>2, <1>7 DEF ParentInv, NameInv, DeadInv
  <2>3. Grounded
    BY <1>1 DEF Grounded
  <2>4. QED  BY <2>1, <2>2, <2>3 DEF TreeInv
<1>11. Core
  <2>1. ServedInv /\ RootInv /\ OneActive /\ CmdInv
    BY <1>1, <1>5, <1>7, <1>8, <1>9 DEF ServedInv, RootInv, OneActive, CmdInv
  <2>2. QED  BY <1>10, <2>1 DEF Core
<1>12. PhaseInv
  BY <1>5 DEF PhaseInv, FreshInv, TodoInv, FindInv, RecordInv, BeAdoptInv, RootAdoptInv, FreeInv
<1>13. Alive(procs, Root)
  BY <1>1, <1>2 DEF Alive, s
<1>14. QED  BY <1>4, <1>6, <1>11, <1>12, <1>13 DEF IInv, LiveInv

(* The invariant is about the processes, the loop and the fifo.            *)
LEMMA UnchangedInv ==
    ASSUME IInv, UNCHANGED <<procs, main, fifo>>
    PROVE  IInv'
<1>1. UNCHANGED procs /\ UNCHANGED main /\ UNCHANGED fifo
  OBVIOUS
<1>2. Shape' /\ MainInv' /\ (OverInv => OverInv')
  BY <1>1 DEF IInv, Shape, MainInv, OverInv
<1>3. Core => Core'
  BY <1>1 DEF Core, TreeInv, KidInv, OneParent, ParentInv, NameInv, DeadInv, Grounded,
              ServedInv, RootInv, OneActive, CmdInv, Allowed, Asked, WaitsFor
<1>4. PhaseInv => PhaseInv'
  BY <1>1 DEF PhaseInv, FreshInv, TodoInv, FindInv, RecordInv, BeAdoptInv, RootAdoptInv, FreeInv,
              Fresh, Met, Finds, Leads, Way, Recorded, BeAdopts, Unrecorded, RootAdopts,
              NotYetAsked, RootFrees
<1>5. QED  BY <1>1, <1>2, <1>3, <1>4 DEF IInv, LiveInv

(* Not_Tako leaves main, and with it the root.                             *)
LEMMA StopStep ==
    ASSUME Shape, MainInv, LiveInv, Stop
    PROVE  IInv'
<1>1. AtRest /\ procs' = End(procs, Root) /\ UNCHANGED <<main, fifo>>
  BY DEF Stop
<1>2. Rests
  BY <1>1, AtRestRests
<1>3. Root \in DOMAIN procs
      /\ \A q \in DOMAIN procs \ {Root} : procs[q].job.at = "idle" /\ procs[q].down = <<>>
  BY <1>2, IdleFields DEF Rests, Free
<1>4. Shape' /\ OverInv' /\ ~Alive(procs', Root)
  BY <1>1, <1>3, EndOver
<1>5. MainInv'
  BY <1>1 DEF MainInv
<1>6. QED  BY <1>4, <1>5 DEF IInv, Alive

(* Every step keeps the invariant.                                         *)
LEMMA NextInv ==
    ASSUME DeepAdoptions = FALSE, IInv, Next
    PROVE  IInv'
<1>1. Shape /\ MainInv
  BY DEF IInv
<1>2. Shape' /\ MainInv' /\ LiveInv' => IInv'
  BY LiveRoot DEF IInv
<1>3. CASE ~Alive(procs, Root)
  <2>1. OverInv
    BY <1>3 DEF IInv
  <2>2. ~AtRest /\ \A at : ~Returns(at)
    BY <1>3 DEF AtRest, Returns
  <2>3. ~Command /\ ~Loop /\ ~Stop
    BY <2>2
       DEF Command, Loop, Stop, MeetCommand, CheckCommand, AdoptCommand, AdoptNotTako, Turn,
           AfterMeet, CheckFails, CheckSucceeds, AfterGraduate, AfterFind, AfterAdopt, ReadFifo,
           Rebuild
  <2>4. PICK p \in DOMAIN procs : Friend(p) /\ UNCHANGED main
    BY <2>3 DEF Next
  <2>5. QED  BY <1>1, <1>3, <2>1, <2>4, FriendOverStep
<1>4. CASE Alive(procs, Root)
  <2>1. LiveInv
    BY <1>4 DEF IInv
  <2>2. CASE Command
    <3>1. CASE MeetCommand \/ CheckCommand \/ AdoptCommand
      BY <1>1, <1>2, <2>1, <3>1, FriendAssumption, MeetCommandStep, CheckCommandStep,
         AdoptCommandStep
    <3>2. CASE AdoptNotTako
      <4>1. UNCHANGED <<procs, main, fifo>>
        BY <3>2 DEF AdoptNotTako
      <4>2. QED
        BY <4>1, UnchangedInv DEF IInv
    <3>3. QED  BY <2>2, <3>1, <3>2 DEF Command
  <2>3. CASE Loop
    BY <1>1, <1>2, <2>1, <2>3, FriendAssumption, AfterMeetStep, CheckFailsStep, CheckSucceedsStep,
       AfterGraduateStep, AfterFindStep, AfterAdoptStep, ReadFifoStep, RebuildStep DEF Loop
  <2>4. CASE Stop
    BY <1>1, <2>1, <2>4, StopStep
  <2>5. CASE \E p \in DOMAIN procs : Friend(p) /\ UNCHANGED <<main, turns, before>>
    BY <1>1, <1>4, <2>1, <2>5, FriendStep
  <2>6. QED  BY <2>2, <2>3, <2>4, <2>5 DEF Next
<1>5. QED  BY <1>3, <1>4

(* The invariant between two commands.                                     *)
LEMMA InvQuiet == IInv => QuietAtRest
<1> SUFFICES ASSUME IInv, AtRest
             PROVE  /\ ~fifo.there
                    /\ \A p \in DOMAIN procs :
                          /\ procs[p].alive /\ procs[p].job = Idle
                          /\ procs[p].down = <<>> /\ procs[p].up = <<>>
                          /\ p = Root \/ HasParent(procs, p)
  BY DEF QuietAtRest
<1>1. Shape /\ MainInv /\ LiveInv
  BY DEF IInv, AtRest
<1>2. Rests /\ procs[Root].up = <<>> /\ ~fifo.there
  BY <1>1, AtRestRests
<1>3. \A p \in DOMAIN procs : p = Root \/ HasParent(procs, p)
  BY <1>1, Listener DEF LiveInv, Core
<1>4. QED  BY <1>2, <1>3 DEF Rests, Free

(* IInv is an invariant of hw2 for any friends and any number of commands: *)
(* the processes with a job are a chain of parents that wait for their     *)
(* children, and every pipe holds what the one at its other end expects    *)
(* (send_command_to_child, checknode, adopt, be_adopted, graduate). This   *)
(* is for adoptions that are not passed on below the root: what goes wrong *)
(* there is shown by the run tree_deep_adoption.                           *)
THEOREM FriendTreeInv ==
    ASSUME DeepAdoptions = FALSE
    PROVE  Spec => []IInv
<1>1. Init => IInv
  BY InitInv
<1>2. IInv /\ [Next]_vars => IInv'
  BY NextInv, UnchangedInv DEF vars
<1>3. QED  BY <1>1, <1>2, PTL DEF Spec

(* When Not_Tako waits for a command, all processes are alive, idle and    *)
(* reachable, all pipes are empty and the fifo is unlinked: no command or  *)
(* reply of an earlier command is left for the next one.                   *)
THEOREM FriendTreeQuiet ==
    ASSUME DeepAdoptions = FALSE
    PROVE  Spec => []QuietAtRest
<1>1. IInv => QuietAtRest
  BY InvQuiet
<1>2. QED  BY <1>1, FriendTreeInv, PTL
=============================================================================
