------------------------------ MODULE CommandLine ------------------------------
(***************************************************************************)
(* How main of hw3 reads its command line: time_slice, q_p, q_s and then   *)
(* the threads, each a number for its routine and the arguments of that.   *)
(* args is argv without the name of the program, after atoi.               *)
(***************************************************************************)
EXTENDS Integers, Sequences

RoutineTypes == 1..3

(* fibonacci and pm have one argument, enroll has four.                    *)
ArgsOf(type) == IF type = 3 THEN 4 ELSE 1

ThreadOf(type, arg) ==
    CASE type = 1 -> [routine |-> "fibonacci", n |-> arg[1]]
      [] type = 2 -> [routine |-> "pm", n |-> arg[1]]
      [] type = 3 -> [routine |-> "enroll",
                      dp |-> arg[1], ds |-> arg[2], s |-> arg[3], b |-> arg[4]]

(* A message about the usage and exit(1).                                  *)
Usage == <<[routine |-> "usage"]>>

IsThread(args, i) ==
    /\ args[i] \in RoutineTypes
    /\ i + ArgsOf(args[i]) <= Len(args)

(* spawn_thread from args[i] on.                                           *)
SpawnThread(args) ==
    LET threads[i \in 4..Len(args)+1] ==
            IF i > Len(args) THEN <<>>
            ELSE IF ~IsThread(args, i) THEN Usage
            ELSE LET next == i + ArgsOf(args[i]) + 1
                     thread == ThreadOf(args[i], SubSeq(args, i + 1, next - 1))
                 IN  IF threads[next] = Usage THEN Usage ELSE <<thread>> \o threads[next]
    IN  threads[4]

(* At least one thread.                                                    *)
ProgramOf(args) == IF Len(args) < 4 THEN Usage ELSE SpawnThread(args)
=============================================================================
