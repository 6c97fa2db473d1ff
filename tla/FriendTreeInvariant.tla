------------------------- MODULE FriendTreeInvariant -------------------------
(***************************************************************************)
(* The inductive invariant of FriendTree, as long as no adoption is passed *)
(* on below the root.                                                      *)
(*                                                                         *)
(* A process has one job, and its parent waits for it: the processes with  *)
(* a job are a chain from the root down, of which only the last one may do *)
(* anything.  What a process is asked follows from the job of its parent,  *)
(* and what is in its pipes from what it is asked.                         *)
(***************************************************************************)
EXTENDS FriendTree

-----------------------------------------------------------------------------
(* Processes and the tree.                                                 *)

KidRecords == [pid : Pids, name : Names, value : Nat]

Shaped(s) ==
    /\ DOMAIN s = {"name", "value", "kids", "alive", "job", "down", "up"}
    /\ DOMAIN s.job = {"cmd", "at", "k", "success", "buf", "fifo", "say"}
    /\ s.name \in Names
    /\ s.value \in Nat
    /\ s.kids \in Seq(KidRecords)
    /\ s.alive \in BOOLEAN
    /\ s.job.at = "idle" => s.job = Idle

Shape ==
    /\ DOMAIN procs \subseteq Pids
    /\ \A p \in DOMAIN procs : Shaped(procs[p])

(* Records of the children agree with them, and every process but the root *)
(* is the child of one.                                                    *)
KidInv ==
    \A q \in DOMAIN procs : \A i \in DOMAIN procs[q].kids :
        /\ procs[q].kids[i].pid \in DOMAIN procs \ {Root}
        /\ procs[procs[q].kids[i].pid].name = procs[q].kids[i].name

OneParent ==
    \A q, s \in DOMAIN procs :
        \A i \in DOMAIN procs[q].kids, j \in DOMAIN procs[s].kids :
            procs[q].kids[i].pid = procs[s].kids[j].pid => q = s /\ i = j

ParentInv ==
    \A p \in DOMAIN procs \ {Root} : \E q \in DOMAIN procs : p \in KidPids(procs, q)

NameInv ==
    /\ Root \in DOMAIN procs /\ procs[Root].name = NotTako
    /\ \A p, q \in DOMAIN procs : procs[p].name = procs[q].name => p = q

DeadInv == \A p \in DOMAIN procs : ~procs[p].alive => procs[p].kids = <<>>

(* There is no circle: some process of a set has a parent outside of it.   *)
Grounded ==
    \A S \in SUBSET (DOMAIN procs \ {Root}) :
        S # {} => \E p \in S : \A q \in DOMAIN procs : p \in KidPids(procs, q) => q \notin S

TreeInv == KidInv /\ OneParent /\ ParentInv /\ NameInv /\ DeadInv /\ Grounded

-----------------------------------------------------------------------------
(* Jobs.  "s" is the record of a process, "m" what it is asked, "at" where *)
(* the loop of Not_Tako is.                                                *)

Free(s) == s.alive /\ s.job = Idle /\ s.down = <<>> /\ s.up = <<>>
Busy(s) == s.down # <<>> \/ s.job.at # "idle"
Task(s) == IF s.down # <<>> THEN ForItself(s.down[1], s.name) ELSE s.job.cmd

OneMessage(r) == r # <<>> /\ r = <<r[1]>>

IsReply(r, m, at) ==
    /\ OneMessage(r)
    /\ m[1] = "graduate" => r = Exited
    /\ m[1] = "beAdopt" => r = Success
    /\ m[1] = "Adopt" => r = Fail
    /\ m[1] = "checkForGraduate" /\ at = "free" => r = Fail

Hearing(s) == s.alive /\ s.job = Idle /\ s.up = <<>> /\ OneMessage(s.down)

Working(s) ==
    /\ s.alive /\ s.down = <<>> /\ s.up = <<>>
    /\ s.job.at \in {"ask", "wait"}
    /\ s.job.say = <<>>
    /\ s.job.success = TRUE
    /\ s.job.k \in 1..(Len(s.kids) + 1)
    /\ s.job.at = "wait" => s.job.k \in 1..Len(s.kids)
    /\ s.job.cmd[1] = "graduate" => s.job.k = 1

Saying(s) ==
    /\ s.alive /\ s.down = <<>> /\ s.up = <<>>
    /\ s.job.at = "done"
    /\ OneMessage(s.job.say)
    /\ s.job.cmd[1] = "graduate" => s.kids = <<>>

Leaving(s) ==
    /\ s.alive /\ s.down = <<>> /\ s.kids = <<>>
    /\ s.job.at = "done" /\ s.job.say = <<>>
    /\ s.job.cmd[1] = "graduate"

Replied(s) == s.alive /\ s.job = Idle /\ s.down = <<>>

Gone(s) == ~s.alive /\ s.job = Idle /\ s.down = <<>> /\ s.kids = <<>>

Serves(s, m, at) ==
    \/ Hearing(s) /\ Task(s) = m
    \/ Working(s) /\ s.job.cmd = m
    \/ Saying(s) /\ s.job.cmd = m /\ IsReply(s.job.say[1], m, at)
    \/ Replied(s) /\ m[1] # "graduate" /\ IsReply(s.up, m, at)
    \/ Leaving(s) /\ s.job.cmd = m /\ s.up = Exited
    \/ Gone(s) /\ m[1] = "graduate" /\ s.up = Exited

(* What the i-th child of q is asked while q waits for it.                 *)
Asked(q, i) == ForKid(procs[q].job.cmd, procs[q].kids[i].name)
WaitsFor(q, i) == procs[q].job.at = "wait" /\ procs[q].job.k = i

ServedInv ==
    \A q \in DOMAIN procs : \A i \in DOMAIN procs[q].kids :
        LET kid == procs[procs[q].kids[i].pid]
        IN  IF WaitsFor(q, i) THEN Serves(kid, Asked(q, i), main.at) ELSE Free(kid)

(* The root is asked by the loop of Not_Tako.                              *)
RootServes(s) ==
    \/ Hearing(s)
    \/ Working(s)
    \/ Saying(s) /\ s.job.cmd[1] # "graduate" /\ OneMessage(s.job.say[1])
    \/ /\ s.alive /\ s.down = <<>> /\ s.job.cmd[1] = "Adopt" /\ s.job.at = "done"
       /\ \/ s.job.say = <<Success, Fail>> /\ s.up = <<>>
          \/ s.job.say = <<Fail>> /\ s.up = Success
    \/ Leaving(s) /\ s.up = <<>>
    \/ Replied(s) /\ s.up # <<>>

RootInv ==
    IF main.at = "idle" THEN Free(procs[Root]) ELSE RootServes(procs[Root])

(* Only one process has something to do.                                   *)
Active(s) == ~s.alive \/ s.down # <<>> \/ s.up # <<>> \/ s.job.at \in {"ask", "done"}

OneActive ==
    \A p, q \in DOMAIN procs : Active(procs[p]) /\ Active(procs[q]) => p = q

-----------------------------------------------------------------------------
(* The commands that are about, depending on where the loop is.            *)

Phases == {"idle", "meet", "check", "graduate", "find", "adopt", "free", "rebuild"}
Adoption == {"find", "adopt", "free", "rebuild"}
Records == {"Meet"} \X Names \X Friends \X Nat

Divisors == Nat \ {0}

Allowed(m) ==
    \/ main.at \in {"meet", "rebuild"} /\ m \in Records
    \/ main.at = "check" /\ m \in {<<"Check", main.cmd[2]>>, <<"Collect">>}
    \/ main.at = "graduate" /\ m \in {<<"checkForGraduate", main.cmd[2]>>, <<"graduate">>}
    \/ main.at = "find" /\ m = <<"findValue", main.cmd[2], main.cmd[3]>>
    \/ /\ main.at = "adopt"
       /\ \/ m[1] = "Adopt" /\ m = <<"Adopt", main.cmd[2], main.cmd[3], m[4]>> /\ m[4] \in Divisors
          \/ m[1] = "beAdopt" /\ m = <<"beAdopt", m[2]>> /\ m[2] \in Divisors
    \/ main.at = "free" /\ m \in {<<"checkForGraduate", main.cmd[3]>>, <<"graduate">>}

CmdInv == \A p \in DOMAIN procs : Busy(procs[p]) => Allowed(Task(procs[p]))

MainInv ==
    /\ DOMAIN main = {"at", "cmd", "todo"}
    /\ DOMAIN fifo = {"id", "there", "records"}
    /\ main.at \in Phases
    /\ fifo.there => main.at \in Adoption
    /\ main.at \in {"find", "adopt"} => fifo.there
    /\ main.at \in Adoption => main.cmd \in {"Adopt"} \X Names \X Friends

(* A name that no process has.                                             *)
Fresh(n) == \A p \in DOMAIN procs : procs[p].name # n

(* Whoever is asked to meet somebody may still do so.                      *)
Met == \E p \in DOMAIN procs : procs[p].up = Success \/ procs[p].job.say = <<Success>>

FreshInv ==
    main.at \in {"meet", "rebuild"} =>
        \A p \in DOMAIN procs : Busy(procs[p]) => Met \/ Fresh(Task(procs[p])[3])

-----------------------------------------------------------------------------
(* Adoptions.  A way leads from a friend p up to the process r, without c. *)

Way(W, r, p, c) ==
    /\ r \in W
    /\ \E x \in W : procs[x].name = p
    /\ \A x \in W : procs[x].name # c
    /\ \A x \in W \ {r}, q \in DOMAIN procs : x \in KidPids(procs, q) => q \in W

Leads(r, p, c) == \E W \in SUBSET DOMAIN procs : Way(W, r, p, c)

Finds(r, reply) ==
    reply \notin {<<>>, Fail} =>
        /\ reply = << <<"value", reply[1][2]>> >>
        /\ reply[1][2] \in Divisors
        /\ Leads(r, main.cmd[2], main.cmd[3])

(* The parent is found only where it is not below the child, and then the  *)
(* child is one of the root.                                               *)
FindInv ==
    main.at = "find" =>
        /\ main.cmd[2] # main.cmd[3]
        /\ fifo.records = <<>>
        /\ \A p \in DOMAIN procs : procs[p].name = main.cmd[2] => procs[p].value # 0
        /\ \/ \E i \in DOMAIN procs[Root].kids : procs[Root].kids[i].name = main.cmd[3]
           \/ ~Leads(Root, main.cmd[2], main.cmd[3])
        /\ \A r \in DOMAIN procs :
              /\ Finds(r, procs[r].up)
              /\ procs[r].job.say # <<>> => Finds(r, procs[r].job.say[1])

NamesIn(recs) == {recs[i][3] : i \in DOMAIN recs}
Different(recs) == \A i, j \in DOMAIN recs : recs[i][3] = recs[j][3] => i = j
Recorded(n) == n \in NamesIn(fifo.records)

(* Who is recorded is the child that is adopted, or below somebody who is  *)
(* recorded.                                                               *)
RecordInv ==
    main.at \in {"adopt", "free"} =>
        /\ \A p \in DOMAIN procs : procs[p].name = main.cmd[3] => p \in KidPids(procs, Root)
        /\ fifo.records \in Seq(Records)
        /\ Different(fifo.records)
        /\ \A q \in DOMAIN procs : \A i \in DOMAIN procs[q].kids :
              Recorded(procs[q].kids[i].name) =>
                  procs[q].kids[i].name = main.cmd[3] \/ Recorded(procs[q].name)

(* Who is to be adopted is recorded, and its children that are still to be *)
(* asked are not.                                                          *)
Unrecorded(p, i) ==
    \A j \in DOMAIN procs[p].kids : j >= i => ~Recorded(procs[p].kids[j].name)

BeAdopts(p, s) ==
    Busy(s) /\ Task(s)[1] = "beAdopt" =>
        /\ Recorded(s.name)
        /\ s.down # <<>> => Unrecorded(p, 1)
        /\ s.job.at = "ask" => Unrecorded(p, s.job.k)
        /\ s.job.at = "wait" => Unrecorded(p, s.job.k + 1)
        /\ s.job.at # "idle" => s.job.fifo = fifo.id

BeAdoptInv ==
    main.at = "adopt" => \A p \in DOMAIN procs : BeAdopts(p, procs[p])

(* The root asks the child last.                                           *)
NotYetAsked(s) ==
    \/ s.down # <<>>
    \/ s.job.at = "ask"
    \/ s.job.at = "wait" /\ s.kids[s.job.k].name # main.cmd[3]

RootAdopts(s) ==
    /\ Busy(s) => Task(s)[1] = "Adopt"
    /\ NotYetAsked(s) => fifo.records = <<>>

RootAdoptInv == main.at = "adopt" => RootAdopts(procs[Root])

(* When the root is done, the child is gone.                               *)
RootFrees(s) ==
    /\ Busy(s) => Task(s) = <<"checkForGraduate", main.cmd[3]>>
    /\ s.job.at \in {"ask", "wait"} =>
          \A i \in DOMAIN s.kids : i < s.job.k => s.kids[i].name # main.cmd[3]
    /\ s.down = <<>> /\ s.job.at \in {"idle", "done"} => Fresh(main.cmd[3])

FreeInv == main.at = "free" => RootFrees(procs[Root])

TodoInv ==
    main.at = "rebuild" =>
        /\ main.todo \in Seq(Records)
        /\ Different(main.todo)
        /\ \A i \in DOMAIN main.todo :
              /\ Fresh(main.todo[i][3])
              /\ \A p \in DOMAIN procs :
                    Busy(procs[p]) => Task(procs[p])[3] # main.todo[i][3]

-----------------------------------------------------------------------------
Core == TreeInv /\ ServedInv /\ RootInv /\ OneActive /\ CmdInv

PhaseInv ==
    /\ FreshInv /\ TodoInv
    /\ FindInv
    /\ RecordInv /\ BeAdoptInv /\ RootAdoptInv /\ FreeInv

LiveInv == Core /\ PhaseInv

(* When Not_Tako has left, nobody has anything to do but to leave.         *)
OverInv ==
    \A p \in DOMAIN procs : procs[p].job.at = "idle" /\ procs[p].down = <<>>

IInv ==
    /\ Shape
    /\ MainInv
    /\ IF Alive(procs, Root) THEN LiveInv ELSE OverInv
=============================================================================
