----------------------------- MODULE FriendTree -----------------------------
(***************************************************************************)
(* The friends of hw2 (friend.c): one process for each friend, which       *)
(* serves one command at a time and passes it on to its children one after *)
(* the other, and the loop of Not_Tako, which reads the commands.          *)
(*                                                                         *)
(* Between a parent and a child there are two pipes, kept in the record of *)
(* the child: "down" for commands and "up" for replies. A write adds to a  *)
(* pipe; a read takes all that is in it, be it one message or more, since  *)
(* the messages carry no length (they are shorter than the buffers). A     *)
(* write into a pipe that nobody can read kills the writer (SIGPIPE).      *)
(*                                                                         *)
(* The loop of Not_Tako and the handlers it calls are one process; a call  *)
(* is modelled as a command in the pipe "down" of the root, and what the   *)
(* handler finds as a reply in its pipe "up".                              *)
(***************************************************************************)
EXTENDS Integers, SequencesExt

CONSTANTS
    Friends,        \* the names, without Not_Tako
    NotTako,        \* the root of the tree
    FirstValue,     \* the value that a friend is met with
    MaxProcs,       \* bound: processes at a time, without the root
    MaxCommands,    \* bound: commands that Not_Tako is given
    DeepAdoptions   \* whether friends may be adopted whose parent is not the root

ASSUME FriendAssumption ==
    /\ NotTako \notin Friends
    /\ FirstValue \in [Friends -> 0..99]
    /\ {MaxProcs, MaxCommands} \subseteq Nat
    /\ IsFiniteSet(Friends) /\ MaxProcs >= Cardinality(Friends)
    /\ DeepAdoptions \in BOOLEAN

VARIABLES
    procs,      \* the processes, by process id
    main,       \* where the loop of Not_Tako is, and its command
    fifo,       \* Adopt.fifo
    told,       \* what is printed for the command
    turns,      \* how many commands there were
    before      \* history: the tree and "told" before the command

vars == <<procs, main, fifo, told, turns, before>>

Names == Friends \cup {NotTako}
Pids == 0..MaxProcs
Root == 0

Success == << <<"success">> >>
Fail == << <<"fail">> >>
Exited == << <<"Exited">> >>

(* Mutant: be_adopted does not set success before its loop.                *)
JobUnset(cmd) == [cmd |-> cmd, at |-> "ask", k |-> 1, success |-> FALSE,
                  buf |-> <<>>, fifo |-> 0, say |-> <<>>]

(* What a process is in the middle of: the command, the child it asks      *)
(* next, and the locals of the handler; "say" are the writes to the parent *)
(* that are due.                                                           *)
Job(cmd) == [cmd |-> cmd, at |-> "ask", k |-> 1, success |-> TRUE,
             buf |-> <<>>, fifo |-> 0, say |-> <<>>]
Idle == [Job(<<"none">>) EXCEPT !.at = "idle"]

NewProc(name, value) ==
    [name |-> name, value |-> value, kids |-> <<>>, alive |-> TRUE,
     job |-> Idle, down |-> <<>>, up |-> <<>>]

Init ==
    /\ procs = [p \in {Root} |-> NewProc(NotTako, 100)]
    /\ main = [at |-> "idle", cmd |-> <<"none">>, todo |-> <<>>]
    /\ fifo = [id |-> 0, there |-> FALSE, records |-> <<>>]
    /\ told = <<>>
    /\ turns = 0
    /\ before = [tree |-> [n \in {NotTako} |-> [value |-> 100, kids |-> <<>>]],
                 told |-> <<>>]

-----------------------------------------------------------------------------
(* Processes.                                                              *)

Alive(ps, p) == p \in DOMAIN ps /\ ps[p].alive
KidPids(ps, p) == {ps[p].kids[i].pid : i \in DOMAIN ps[p].kids}
HasParent(ps, p) == \E q \in DOMAIN ps : Alive(ps, q) /\ p \in KidPids(ps, q)

(* A process that is gone is forgotten when no parent holds its pipes.     *)
Tidy(ps) ==
    [p \in {q \in DOMAIN ps : ps[q].alive \/ HasParent(ps, q)} |-> ps[p]]

(* The process ends: its own pipes are closed.                             *)
End(ps, p) ==
    Tidy([ps EXCEPT ![p].alive = FALSE, ![p].kids = <<>>,
                    ![p].job = Idle, ![p].down = <<>>])

NewPid == CHOOSE p \in Pids \ {Root} : p \notin DOMAIN procs

(* The handler is over when nothing is left to write.                      *)
Settle(job) ==
    IF job.at = "done" /\ job.say = <<>> /\ job.cmd[1] # "graduate" THEN Idle ELSE job

-----------------------------------------------------------------------------
(* Messages.                                                               *)

(* send_command_to_child: only a reply that is exactly "fail" fails.       *)
Failed(reply) == reply = <<>> \/ reply = Fail

(* A command that runs into the next one has a name at its end that is     *)
(* nobody's, while a value at its end is still read; the rest is lost.     *)
FirstOf(cmds) ==
    LET cmd == cmds[1]
    IN  IF Len(cmds) > 1 /\ cmd[1] \in {"Check", "checkForGraduate", "findValue"}
        THEN [cmd EXCEPT ![Len(cmd)] = "nobody"]
        ELSE cmd

(* checknode: what the command is for the friend that it names.            *)
ForItself(cmd, name) ==
    CASE cmd[1] = "Check" /\ cmd[2] = name -> <<"Collect">>
      [] cmd[1] = "checkForGraduate" /\ cmd[2] = name -> <<"graduate">>
      [] OTHER -> cmd

(* What a child is asked.                                                  *)
ForKid(cmd, name) ==
    IF cmd[1] = "Adopt" /\ cmd[3] = name THEN <<"beAdopt", cmd[4]>>
                                         ELSE ForItself(cmd, name)

(* atoi.                                                                   *)
ValueOf(reply) == IF reply[1][1] = "value" THEN reply[1][2] ELSE 0

(* A reply as lines of infos: a word that is not a listing has no newline  *)
(* and runs into the line after it.                                        *)
Text(reply) ==
    FoldRight(LAMBDA m, rest :
                  IF m[1] = "listing" THEN m[2] \o rest
                  ELSE LET word == <<[name |-> m[1], value |-> 0]>>
                       IN  IF rest = <<>> THEN <<word>>
                           ELSE <<word \o Head(rest)>> \o Tail(rest),
              reply, <<>>)

(* combine: the first line of buf1, then line by line what is left of buf1 *)
(* and buf2, then the rest of the longer one.                              *)
Combine(buf1, buf2) ==
    LET Row(buf, i) == IF i \in DOMAIN buf THEN buf[i] ELSE <<>>
        len == IF Len(buf1) > Len(buf2) THEN Len(buf1) ELSE Len(buf2) + 1
    IN  [i \in 1..len |-> IF i = 1 THEN buf1[1] ELSE Row(buf1, i) \o Row(buf2, i - 1)]

-----------------------------------------------------------------------------
(* The handlers. A process reads a command when it has none. A step of a   *)
(* process changes nothing but the processes and, where the action says    *)
(* so, the fifo or what is printed (see Friend).                           *)

Hears(p) ==
    /\ Alive(procs, p)
    /\ procs[p].job.at = "idle"
    /\ procs[p].down # <<>>

Heard(p) == ForItself(FirstOf(procs[p].down), procs[p].name)

Start(p, job) == [procs EXCEPT ![p].down = <<>>, ![p].job = job]

(* meet, at the parent: the child is a new process.                        *)
MeetHere(p) ==
    /\ Hears(p)
    /\ Heard(p)[1] = "Meet"
    /\ Heard(p)[2] = procs[p].name
    /\ LET cmd == Heard(p)
           kid == [pid |-> NewPid, name |-> cmd[3], value |-> cmd[4]]
           met == Start(p, [Job(cmd) EXCEPT !.at = "done", !.say = <<Success>>])
       IN  procs' = [q \in DOMAIN procs \cup {NewPid} |->
                        CASE q = NewPid -> NewProc(kid.name, kid.value)
                          [] q = p -> [met[p] EXCEPT !.kids = Append(@, kid)]
                          [] OTHER -> met[q]]

(* find_parent_value, at the parent.                                       *)
ValueHere(p) ==
    /\ Hears(p)
    /\ Heard(p)[1] = "findValue"
    /\ Heard(p)[2] = procs[p].name
    /\ procs' = Start(p, [Job(Heard(p)) EXCEPT !.at = "done",
                              !.say = << << <<"value", procs[p].value>> >> >>])

(* be_adopted opens the fifo and takes the new value (the parent has       *)
(* divided by the same number before, so it is not 0).                     *)
BeAdopted(p) ==
    /\ Hears(p)
    /\ Heard(p)[1] = "beAdopt"
    /\ LET id == IF fifo.there THEN fifo.id ELSE 0
       IN  procs' = [Start(p, [Job(Heard(p)) EXCEPT !.fifo = id]) EXCEPT
                        ![p].value = @ % Heard(p)[2]]

(* collect begins with the info of the friend.                             *)
Collect(p) ==
    /\ Hears(p)
    /\ Heard(p)[1] = "Collect"
    /\ LET info == [name |-> procs[p].name, value |-> procs[p].value]
       IN  procs' = Start(p, [Job(<<"Collect">>) EXCEPT !.buf = << <<info>> >>])

(* graduate; Not_Tako says so.                                             *)
Graduate(p) ==
    /\ Hears(p)
    /\ Heard(p)[1] = "graduate"
    /\ procs' = Start(p, Job(<<"graduate">>))
    /\ told' = IF p = Root THEN Append(told, <<"finished">>) ELSE told

(* All other commands are for somebody below.                              *)
Walks == {"Meet", "Check", "checkForGraduate", "findValue", "Adopt"}

PassOn(p) ==
    /\ Hears(p)
    /\ Heard(p)[1] \in Walks
    /\ Heard(p)[1] \in {"Meet", "findValue"} => Heard(p)[2] # procs[p].name
    /\ procs' = Start(p, Job(Heard(p)))

-----------------------------------------------------------------------------
(* Asking the children.                                                    *)

Asking(p) ==
    /\ Alive(procs, p)
    /\ procs[p].job.at = "ask"
    /\ procs[p].job.say = <<>>

Kid(p) == procs[p].kids[procs[p].job.k]

(* send_command_to_child, the write.                                       *)
Send(ps, p, kid, cmd) ==
    IF ~Alive(ps, kid) THEN End(ps, p)
    ELSE [ps EXCEPT ![kid].down = Append(@, cmd), ![p].job.at = "wait"]

Ask(p) ==
    /\ Asking(p)
    /\ procs[p].job.k <= Len(procs[p].kids)
    /\ ~(procs[p].job.cmd[1] = "beAdopt")
    /\ ~(procs[p].job.cmd[1] = "Adopt" /\ Kid(p).name = procs[p].job.cmd[3])
    /\ procs' = Send(procs, p, Kid(p).pid, ForKid(procs[p].job.cmd, Kid(p).name))

(* adopt and be_adopted: the child takes the new value, and how to meet it *)
(* again goes into the fifo before it is told to do the same below it. The *)
(* friend that adopts it is the one in the command, that of its children   *)
(* the process itself.                                                     *)
AskAdopted(p) ==
    /\ Asking(p)
    /\ procs[p].job.k <= Len(procs[p].kids)
    /\ LET job == procs[p].job
           adopt == job.cmd[1] = "Adopt"
           modulo == IF adopt THEN job.cmd[4] ELSE job.cmd[2]
           value == Kid(p).value % modulo
           parent == IF adopt THEN job.cmd[2] ELSE procs[p].name
           opened == IF adopt THEN fifo.there ELSE fifo.there /\ fifo.id = job.fifo
       IN  /\ \/ adopt /\ Kid(p).name = job.cmd[3]
              \/ job.cmd[1] = "beAdopt"
           /\ IF modulo = 0
              THEN /\ procs' = End(procs, p)
                   /\ UNCHANGED fifo
              ELSE /\ procs' = Send([procs EXCEPT ![p].kids[job.k].value = value],
                                    p, Kid(p).pid, <<"beAdopt", modulo>>)
                   /\ fifo' = IF opened
                              THEN [fifo EXCEPT !.records =
                                       Append(@, <<"Meet", parent, Kid(p).name, value>>)]
                              ELSE fifo

-----------------------------------------------------------------------------
(* What the child answers: all that is in its pipe, or nothing when the    *)
(* child is gone.                                                          *)

Reply(p) == procs[Kid(p).pid].up
IsGone(p) == ~procs[Kid(p).pid].alive

Answers(p) ==
    /\ Alive(procs, p)
    /\ procs[p].job.at = "wait"
    /\ Reply(p) # <<>> \/ IsGone(p)

(* The read, after which the handler goes on as "job".                     *)
ReadOf(p, job) == [procs EXCEPT ![Kid(p).pid].up = <<>>, ![p].job = Settle(job)]

NextKid(p) == [procs[p].job EXCEPT !.at = "ask", !.k = @ + 1]
Done(p, writes) == [procs[p].job EXCEPT !.at = "done", !.say = writes]

(* Mutant: find_parent_value does not care whether the parent is below the *)
(* child.                                                                  *)
WritesValueAnyway(p) ==
    LET cmd == procs[p].job.cmd
    IN  CASE cmd[1] \in {"Check", "findValue"} -> <<Reply(p)>>
          [] cmd[1] = "Adopt" -> <<Success, Fail>>
          [] OTHER -> <<Success>>

(* The loops of meet, checknode, find_parent_value and adopt end at the    *)
(* child that does not fail. adopt writes twice: the find that it sets     *)
(* hides the one that it tests after the loop (main does not look at what  *)
(* the root would write here).                                             *)
Writes(p) ==
    LET cmd == procs[p].job.cmd
    IN  CASE cmd[1] = "Check" -> <<Reply(p)>>
          [] cmd[1] = "findValue" ->
                IF cmd[3] = procs[p].name THEN <<Fail>> ELSE <<Reply(p)>>
          [] cmd[1] = "Adopt" -> <<Success, Fail>>
          [] OTHER -> <<Success>>

HasGraduated(p) ==
    /\ procs[p].job.cmd[1] = "checkForGraduate"
    /\ procs[p].job.cmd[2] = Kid(p).name
    /\ Reply(p)[1] = Exited[1]

Found(p) ==
    /\ Answers(p)
    /\ procs[p].job.cmd[1] \in Walks
    /\ ~Failed(Reply(p))
    /\ ~HasGraduated(p)
    /\ procs' = ReadOf(p, Done(p, Writes(p)))

(* Mutant: checknode does not wait for the child.                          *)
FoundGraduatedAtOnce(p) ==
    /\ Answers(p)
    /\ ~Failed(Reply(p))
    /\ HasGraduated(p)
    /\ procs' = Tidy([ReadOf(p, Done(p, Writes(p))) EXCEPT
                         ![p].kids = RemoveAt(@, procs[p].job.k)])

(* checknode: a child that has graduated is waited for and dropped.        *)
FoundGraduated(p) ==
    /\ Answers(p)
    /\ ~Failed(Reply(p))
    /\ HasGraduated(p)
    /\ IsGone(p)
    /\ procs' = Tidy([ReadOf(p, Done(p, Writes(p))) EXCEPT
                         ![p].kids = RemoveAt(@, procs[p].job.k)])

NotFound(p) ==
    /\ Answers(p)
    /\ procs[p].job.cmd[1] \in Walks
    /\ Failed(Reply(p))
    /\ procs' = ReadOf(p, NextKid(p))

Collected(p) ==
    /\ Answers(p)
    /\ procs[p].job.cmd[1] = "Collect"
    /\ procs' = ReadOf(p, [NextKid(p) EXCEPT !.buf = Combine(@, Text(Reply(p)))])

(* be_adopted goes on to the other children, but has failed.               *)
WasAdopted(p) ==
    /\ Answers(p)
    /\ procs[p].job.cmd[1] = "beAdopt"
    /\ procs' = ReadOf(p, IF Failed(Reply(p))
                          THEN [NextKid(p) EXCEPT !.success = FALSE, !.say = <<Fail>>]
                          ELSE NextKid(p))

(* graduate waits for a child that says that it has exited, and drops it   *)
(* in any case.                                                            *)
HasLeft(p) ==
    /\ Answers(p)
    /\ procs[p].job.cmd[1] = "graduate"
    /\ (Reply(p) # <<>> /\ Reply(p)[1] = Exited[1]) => IsGone(p)
    /\ procs' = Tidy([ReadOf(p, [procs[p].job EXCEPT !.at = "ask"]) EXCEPT
                         ![p].kids = Tail(@)])

(* All children have been asked.                                           *)
Finish(p) ==
    /\ Asking(p)
    /\ procs[p].job.k > Len(procs[p].kids)
    /\ LET job == procs[p].job
           writes == CASE job.cmd[1] = "Collect" -> << << <<"listing", job.buf>> >> >>
                       [] job.cmd[1] = "graduate" -> IF p = Root THEN <<>> ELSE <<Exited>>
                       [] job.cmd[1] = "beAdopt" -> IF job.success THEN <<Success>> ELSE <<>>
                       [] OTHER -> <<Fail>>
       IN  procs' = [procs EXCEPT ![p].job = Settle(Done(p, writes))]

(* A write to the parent.                                                  *)
Said(job) == Settle([job EXCEPT !.say = Tail(@)])

Say(p) ==
    /\ Alive(procs, p)
    /\ procs[p].job.say # <<>>
    /\ procs' = IF p = Root \/ HasParent(procs, p)
                THEN [procs EXCEPT ![p].up = @ \o Head(procs[p].job.say),
                                   ![p].job = Said(@)]
                ELSE End(procs, p)

(* _exit at the end of graduate.                                           *)
Exit(p) ==
    /\ Alive(procs, p)
    /\ procs[p].job.at = "done"
    /\ procs[p].job.say = <<>>
    /\ procs' = End(procs, p)

(* Mutant: the child does not close its copy of the end for commands.      *)
EofOwnEnd(p) ==
    /\ Alive(procs, p)
    /\ p # Root
    /\ procs[p].job.at = "idle"
    /\ procs[p].down = <<>>
    /\ ~HasParent(procs, p) /\ ~Alive(procs, p)
    /\ procs' = End(procs, p)

(* read from the parent finds the end of the pipe.                         *)
Eof(p) ==
    /\ Alive(procs, p)
    /\ p # Root
    /\ procs[p].job.at = "idle"
    /\ procs[p].down = <<>>
    /\ ~HasParent(procs, p)
    /\ procs' = End(procs, p)

-----------------------------------------------------------------------------
(* The loop of Not_Tako.                                                   *)

(* The tree of the processes that are there.                               *)
Tree ==
    LET there == {p \in DOMAIN procs : Alive(procs, Root) /\ procs[p].alive}
        Of(n) == CHOOSE p \in there : procs[p].name = n
    IN  [n \in {procs[p].name : p \in there} |->
            [value |-> procs[Of(n)].value,
             kids |-> [i \in DOMAIN procs[Of(n)].kids |-> procs[Of(n)].kids[i].name]]]

(* What a user of the program sees: while a command is going on, what was  *)
(* before it.                                                              *)
AtRest == main.at = "idle" /\ Alive(procs, Root)
Over == ~Alive(procs, Root)

Service == INSTANCE FriendService WITH
    tree <- IF AtRest \/ Over THEN Tree ELSE before.tree,
    told <- IF AtRest \/ Over THEN told ELSE before.told

NamesThere == {procs[p].name : p \in {q \in DOMAIN procs : procs[q].alive}}

Call(ps, cmd) == [ps EXCEPT ![Root].down = <<cmd>>, ![Root].up = <<>>]

(* fgets gives a command.                                                  *)
Turn ==
    /\ AtRest
    /\ turns < MaxCommands
    /\ turns' = turns + 1
    /\ before' = [tree |-> Tree, told |-> told]

(* A new friend has a name of its own.                                     *)
MeetCommand ==
    \E p \in Names, c \in Friends \ NamesThere :
        /\ Turn
        /\ main' = [main EXCEPT !.at = "meet", !.cmd = <<"Meet", p, c>>]
        /\ procs' = Call(procs, <<"Meet", p, c, FirstValue[c]>>)
        /\ told' = <<>>
        /\ UNCHANGED fifo

(* Graduate checks first.                                                  *)
CheckCommand ==
    \E x \in Names, word \in {"Check", "Graduate"} :
        /\ Turn
        /\ main' = [main EXCEPT !.at = "check", !.cmd = <<word, x>>]
        /\ procs' = Call(procs, <<"Check", x>>)
        /\ told' = <<>>
        /\ UNCHANGED fifo

(* Adopt is not used for a friend that is not there or for itself, nor     *)
(* with a parent whose value is 0. Not_Tako itself is refused at once;     *)
(* otherwise the fifo is made and the value of the parent is looked up.    *)
MayAdopt(p, c) ==
    /\ p # c
    /\ p \in NamesThere => Tree[p].value # 0
    /\ \/ DeepAdoptions
       \/ \E i \in DOMAIN procs[Root].kids : procs[Root].kids[i].name = c
       \/ p \notin NamesThere \ Service!Subtree(Tree, c)

AdoptCommand ==
    \E p \in Names, c \in NamesThere \ {NotTako} :
        /\ Turn
        /\ MayAdopt(p, c)
        /\ main' = [main EXCEPT !.at = "find", !.cmd = <<"Adopt", p, c>>]
        /\ procs' = Call(procs, <<"findValue", p, c>>)
        /\ fifo' = [id |-> turns + 1, there |-> TRUE, records |-> <<>>]
        /\ told' = <<>>

AdoptNotTako ==
    \E p \in Friends :
        /\ Turn
        /\ told' = << <<"descendant", p, NotTako>> >>
        /\ UNCHANGED <<procs, main, fifo>>

(* What the handler that was called has found.                             *)
Returns(at) ==
    /\ Alive(procs, Root)
    /\ main.at = at
    /\ procs[Root].job = Idle
    /\ procs[Root].up # <<>>

Result == procs[Root].up
Quiet == [procs EXCEPT ![Root].up = <<>>]
Unlinked == [fifo EXCEPT !.there = FALSE, !.records = <<>>]

AfterMeet ==
    /\ Returns("meet")
    /\ main' = [main EXCEPT !.at = "idle"]
    /\ told' = << <<IF Failed(Result) THEN "does not know" ELSE "met",
                   main.cmd[2], main.cmd[3]>> >>
    /\ procs' = Quiet
    /\ UNCHANGED <<fifo, turns, before>>

CheckFails ==
    /\ Returns("check")
    /\ Failed(Result)
    /\ main' = [main EXCEPT !.at = "idle"]
    /\ told' = << <<"doesn't know", main.cmd[2]>> >>
    /\ procs' = Quiet
    /\ UNCHANGED <<fifo, turns, before>>

(* The listing is printed, and whoever graduates may then leave.           *)
CheckSucceeds ==
    /\ Returns("check")
    /\ ~Failed(Result)
    /\ told' = << <<"listing", Text(Result)>> >>
    /\ IF main.cmd[1] = "Graduate"
       THEN /\ main' = [main EXCEPT !.at = "graduate"]
            /\ procs' = Call(procs, <<"checkForGraduate", main.cmd[2]>>)
       ELSE /\ main' = [main EXCEPT !.at = "idle"]
            /\ procs' = Quiet
    /\ UNCHANGED <<fifo, turns, before>>

AfterGraduate ==
    /\ Returns("graduate")
    /\ main' = [main EXCEPT !.at = "idle"]
    /\ procs' = Quiet
    /\ UNCHANGED <<fifo, told, turns, before>>

(* -1 for a parent that is not found, or is below the child.               *)
AfterFind ==
    /\ Returns("find")
    /\ IF Failed(Result)
       THEN /\ told' = << <<"descendant", main.cmd[2], main.cmd[3]>> >>
            /\ fifo' = Unlinked
            /\ main' = [main EXCEPT !.at = "idle"]
            /\ procs' = Quiet
       ELSE /\ main' = [main EXCEPT !.at = "adopt"]
            /\ procs' = Call(procs, main.cmd \o <<ValueOf(Result)>>)
            /\ UNCHANGED <<told, fifo>>
    /\ UNCHANGED <<turns, before>>

(* The adoption is announced and the subtree of the child ended.           *)
AfterAdopt ==
    /\ Returns("adopt")
    /\ main' = [main EXCEPT !.at = "free"]
    /\ told' = << <<"adopted", main.cmd[2], main.cmd[3]>> >>
    /\ procs' = Call(procs, <<"checkForGraduate", main.cmd[3]>>)
    /\ UNCHANGED <<fifo, turns, before>>

(* The one read of the fifo, which waits until something is in it.         *)
ReadFifo ==
    /\ Returns("free")
    /\ fifo.records # <<>>
    /\ main' = [main EXCEPT !.at = "rebuild", !.todo = fifo.records]
    /\ fifo' = [fifo EXCEPT !.records = <<>>]
    /\ procs' = [procs EXCEPT ![Root].up = Success]
    /\ UNCHANGED <<told, turns, before>>

(* Each record is met, whatever became of the one before.                  *)
Rebuild ==
    /\ Returns("rebuild")
    /\ IF main.todo # <<>>
       THEN /\ main' = [main EXCEPT !.todo = Tail(@)]
            /\ procs' = Call(procs, Head(main.todo))
            /\ UNCHANGED fifo
       ELSE /\ main' = [main EXCEPT !.at = "idle"]
            /\ procs' = Quiet
            /\ fifo' = Unlinked
    /\ UNCHANGED <<told, turns, before>>

(* The commands end, and Not_Tako leaves main.                             *)
Stop ==
    /\ AtRest
    /\ procs' = End(procs, Root)
    /\ UNCHANGED <<main, fifo, told, turns, before>>

-----------------------------------------------------------------------------
Command == MeetCommand \/ CheckCommand \/ AdoptCommand \/ AdoptNotTako

Loop ==
    \/ AfterMeet \/ CheckFails \/ CheckSucceeds \/ AfterGraduate
    \/ AfterFind \/ AfterAdopt \/ ReadFifo \/ Rebuild

Friend(p) ==
    \/ /\ \/ MeetHere(p) \/ ValueHere(p) \/ BeAdopted(p) \/ Collect(p) \/ PassOn(p)
          \/ Ask(p) \/ Found(p) \/ FoundGraduated(p) \/ NotFound(p) \/ Collected(p)
          \/ WasAdopted(p) \/ HasLeft(p) \/ Finish(p) \/ Say(p) \/ Exit(p) \/ Eof(p)
       /\ UNCHANGED <<fifo, told>>
    \/ Graduate(p) /\ UNCHANGED fifo
    \/ AskAdopted(p) /\ UNCHANGED told

Next ==
    \/ Command
    \/ Loop
    \/ Stop
    \/ \E p \in DOMAIN procs : Friend(p) /\ UNCHANGED <<main, turns, before>>

Spec == Init /\ [][Next]_vars

(* Every process runs; the commands come when they like.                   *)
FairSpec ==
    /\ Spec
    /\ WF_vars(Loop)
    /\ \A p \in Pids : WF_vars(p \in DOMAIN procs /\ Friend(p)
                              /\ UNCHANGED <<main, turns, before>>)

-----------------------------------------------------------------------------
(* When Not_Tako waits for a command, nothing of an earlier one is left:   *)
(* no message in a pipe that the next command would take for its own, no   *)
(* process that is still busy or that nobody can reach, and no fifo        *)
(* (send_command_to_child, _exit in graduate, unlink).                     *)
QuietAtRest ==
    AtRest =>
        /\ ~fifo.there
        /\ \A p \in DOMAIN procs :
              /\ procs[p].alive /\ procs[p].job = Idle
              /\ procs[p].down = <<>> /\ procs[p].up = <<>>
              /\ p = Root \/ HasParent(procs, p)

(* The tree and what is printed are those of a tree that each command      *)
(* changes in one step (FriendService).                                    *)
ImplementsService == Service!Spec

(* Every command comes to its end, so that Not_Tako can take the next one. *)
EveryCommandEnds == ~AtRest ~> (AtRest \/ Over)

(* When Not_Tako has left, all friends leave in the end.                   *)
EverybodyLeaves == Over ~> (DOMAIN procs = {})

(* Nobody has anything more to do or to read: no friend will change        *)
(* without a new command.                                                  *)
NothingGoesOn == \A p \in DOMAIN procs : procs[p].job = Idle /\ procs[p].down = <<>>

(* Who is adopted is not lost: when Not_Tako waits again after "p has      *)
(* adopted c" (print_success_adopt), and nothing goes on any more, c is in *)
(* the tree.                                                               *)
AdoptedIsThere ==
    AtRest /\ NothingGoesOn =>
        \A i \in DOMAIN told : told[i][1] = "adopted" => told[i][3] \in DOMAIN Tree
=============================================================================
