---------------------------- MODULE MCUserThreads ----------------------------
(***************************************************************************)
(* Command lines for the model checker.                                    *)
(***************************************************************************)
EXTENDS UserThreads, CommandLine

S == INSTANCE SequencesExt

EnrollOf(dp, ds, s, b) ==
    [routine |-> "enroll", dp |-> dp, ds |-> ds, s |-> s, b |-> b]
FibonacciOf(n) == [routine |-> "fibonacci", n |-> n]
PmOf(n) == [routine |-> "pm", n |-> n]

(* hw3 2 1 2 ...: three threads for three spots, which first compete for   *)
(* the class with one spot; the one that sleeps least wakes another, so    *)
(* that they meet at the lock; idle runs when the user hurries the rest.   *)
MixedProgram ==
    <<PmOf(3), EnrollOf(3, 1, 9, 4), EnrollOf(3, 1, 2, 4), EnrollOf(3, 1, 9, 3),
      FibonacciOf(3)>>

(* hw3 1 1 2 3 2 1 1 1 3 2 1 1 1: both threads like both classes equally.  *)
TiedProgram == <<EnrollOf(2, 1, 1, 1), EnrollOf(2, 1, 1, 1)>>

(* The two are what main makes of these command lines.                     *)
ASSUME ProgramsAreRead ==
    /\ MixedProgram = ProgramOf(<<2, 1, 2>> \o <<2, 3>> \o <<3, 3, 1, 9, 4>>
                                \o <<3, 3, 1, 2, 4>> \o <<3, 3, 1, 9, 3>> \o <<1, 3>>)
    /\ TiedProgram = ProgramOf(<<1, 1, 2, 3, 2, 1, 1, 1, 3, 2, 1, 1, 1>>)

(* Every list of two threads is read from its command line, and a line     *)
(* that ends within a thread is refused.                                   *)
ASSUME LinesAreRead ==
    LET Args == {<<1, n>> : n \in 1..4} \cup {<<2, n>> : n \in 1..4}
                \cup {<<3, p, q, 3, b>> : p, q, b \in 1..3}
        Read(x) == ThreadOf(x[1], Tail(x))
        Of(x, y) == <<1, 1, 2>> \o x \o y
    IN  \A x, y \in Args :
            /\ ProgramOf(Of(x, y)) = <<Read(x), Read(y)>>
            /\ \A n \in 1..Len(y)-1 : ProgramOf(Of(x, SubSeq(y, 1, n))) = Usage

(* PushAll is one push after the other, and what was pushed comes out in   *)
(* its order, wherever in the array the queue begins.                      *)
ASSUME RingIsQueue ==
    \A h \in Indices : \A s \in S!BoundedSeq({1, 2}, THREAD_MAX) :
        LET q == PushAll([EmptyRing EXCEPT !.head = h], s)
        IN  /\ q = S!FoldLeft(Push, [EmptyRing EXCEPT !.head = h], s)
            /\ Contents(q) = s
            /\ \A n \in 0..Len(s) : Contents(Drop(q, n)) = SubSeq(s, n + 1, Len(s))
=============================================================================
