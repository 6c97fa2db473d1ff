------------------------------- MODULE RingQueue -------------------------------
(***************************************************************************)
(* struct tcb_queue of hw3: a queue in a circular array.  Nothing clears   *)
(* an entry that was taken, and nothing looks whether the array is full.   *)
(***************************************************************************)
EXTENDS Integers, Sequences

CONSTANTS
    Capacity,   \* THREAD_MAX; at least 1
    Null        \* what the array holds at first

Indices == 0..Capacity-1

RingOf(S) == [arr : [Indices -> S \cup {Null}], head : Indices, size : 0..Capacity]

EmptyRing == [arr |-> [k \in Indices |-> Null], head |-> 0, size |-> 0]

(* The index of the entry that is n behind the head.                       *)
IndexOf(q, n) == (q.head + n) % Capacity

Contents(q) == [k \in 1..q.size |-> q.arr[IndexOf(q, k - 1)]]

Push(q, x) == [q EXCEPT !.arr[IndexOf(q, q.size)] = x, !.size = @ + 1]

(* One push after the other, for no more than Capacity of them: the entry  *)
(* at k is the n-th that is written.                                       *)
PushAll(q, s) ==
    [q EXCEPT !.size = @ + Len(s),
              !.arr = [k \in Indices |->
                          LET n == (k - q.head - q.size) % Capacity
                          IN  IF n < Len(s) THEN s[n + 1] ELSE q.arr[k]]]

AtHead(q) == q.arr[q.head]

(* The first n entries are taken.                                          *)
Drop(q, n) == [q EXCEPT !.head = IndexOf(q, n), !.size = @ - n]
=============================================================================
