-------------------------- MODULE UserThreadsProofs --------------------------
(***************************************************************************)
(* Proofs about UserThreads, for any list of threads, any time slice and   *)
(* any number of spots.                                                    *)
(*                                                                         *)
(* First lemmas about the operators: what the operations on the circular   *)
(* arrays do to the sequences that the arrays stand for, when these        *)
(* sequences hold every thread at most once, and why the arrays are large  *)
(* enough; and that the numbers of the routines are well defined.          *)
(*                                                                         *)
(* IInv is inductive: the actions are taken one by one, the scheduler      *)
(* last.  The other invariants follow from it, or are inductive relative   *)
(* to it.                                                                  *)
(***************************************************************************)
EXTENDS UserThreadsInvariant, NumberLemmas, FiniteSetTheorems, FunctionTheorems,
        SequenceTheorems, TLAPS

-----------------------------------------------------------------------------
(* The circular arrays.                                                    *)

LEMMA CapacityType == THREAD_MAX \in Nat /\ THREAD_MAX > 1
BY ProgramAssumption

(* The remainder of what is not further than twice around the array.       *)
LEMMA Around ==
    ASSUME NEW a \in Int, -(2 * THREAD_MAX) <= a, a < 2 * THREAD_MAX
    PROVE  /\ a % THREAD_MAX \in 0..THREAD_MAX-1
           /\ a % THREAD_MAX = IF a < -THREAD_MAX THEN a + 2 * THREAD_MAX
                               ELSE IF a < 0 THEN a + THREAD_MAX
                               ELSE IF a < THREAD_MAX THEN a ELSE a - THREAD_MAX
BY CapacityType

(* How far an entry k is behind the end of a queue of z entries from h on. *)
LEMMA Distance ==
    ASSUME NEW h \in Nat, h < THREAD_MAX, NEW z \in Nat, z <= THREAD_MAX,
           NEW k \in Nat, k < THREAD_MAX
    PROVE  /\ (k - h - z) % THREAD_MAX \in Nat
           /\ (k - h - z) % THREAD_MAX =
                 IF k - h - z < -THREAD_MAX THEN k - h - z + 2 * THREAD_MAX
                 ELSE IF k - h - z < 0 THEN k - h - z + THREAD_MAX
                 ELSE k - h - z
<1> DEFINE a == k - h - z
<1>1. a \in Int /\ -(2 * THREAD_MAX) <= a /\ a < THREAD_MAX
  BY CapacityType
<1> HIDE DEF a
<1>2. /\ a % THREAD_MAX \in Nat
      /\ a % THREAD_MAX = IF a < -THREAD_MAX THEN a + 2 * THREAD_MAX
                          ELSE IF a < 0 THEN a + THREAD_MAX ELSE a
  BY <1>1, Around, CapacityType
<1>3. QED  BY <1>2 DEF a

(* The n-th entry, counted from 0, of a queue that begins at h.            *)
LEMMA DistanceOfEntry ==
    ASSUME NEW h \in Nat, h < THREAD_MAX, NEW z \in Nat, z <= THREAD_MAX,
           NEW n \in Nat, n < THREAD_MAX, NEW k \in Nat,
           k = IF h + n < THREAD_MAX THEN h + n ELSE h + n - THREAD_MAX
    PROVE  (k - h - z) % THREAD_MAX = IF n < z THEN n - z + THREAD_MAX ELSE n - z
<1>1. k < THREAD_MAX
  BY CapacityType
<1>2. (k - h - z) % THREAD_MAX =
         IF k - h - z < -THREAD_MAX THEN k - h - z + 2 * THREAD_MAX
         ELSE IF k - h - z < 0 THEN k - h - z + THREAD_MAX
         ELSE k - h - z
  BY <1>1, Distance
<1>3. QED  BY <1>1, <1>2, CapacityType

LEMMA RingFields ==
    ASSUME NEW S, NEW q \in RingOf(S)
    PROVE  /\ q.arr \in [Indices -> S \cup {NoThread}]
           /\ q.head \in Nat /\ q.head < THREAD_MAX
           /\ q.size \in Nat /\ q.size <= THREAD_MAX
BY CapacityType DEF RingOf, Indices

LEMMA IndexType ==
    ASSUME NEW S, NEW q \in RingOf(S), NEW n \in 0..THREAD_MAX
    PROVE  /\ IndexOf(q, n) \in Indices
           /\ IndexOf(q, n) = IF q.head + n < THREAD_MAX THEN q.head + n
                              ELSE q.head + n - THREAD_MAX
<1>1. q.head \in Nat /\ q.head < THREAD_MAX
  BY RingFields
<1>2. q.head + n \in Int /\ 0 <= q.head + n /\ q.head + n < 2 * THREAD_MAX
  BY <1>1, CapacityType
<1>3. IndexOf(q, n) = IF q.head + n < THREAD_MAX THEN q.head + n
                      ELSE q.head + n - THREAD_MAX
  BY <1>1, <1>2, Around, CapacityType DEF IndexOf
<1>4. IndexOf(q, n) \in 0..THREAD_MAX-1
  BY <1>1, <1>3, CapacityType
<1>5. QED  BY <1>3, <1>4 DEF Indices

LEMMA ContentsType ==
    ASSUME NEW S, NEW q \in RingOf(S)
    PROVE  /\ Contents(q) \in Seq(S \cup {NoThread})
           /\ Len(Contents(q)) = q.size
           /\ \A k \in 1..q.size : Contents(q)[k] = q.arr[IndexOf(q, k - 1)]
<1>1. q.size \in Nat /\ q.size <= THREAD_MAX /\ q.arr \in [Indices -> S \cup {NoThread}]
  BY RingFields
<1>2. ASSUME NEW k \in 1..q.size
      PROVE  q.arr[IndexOf(q, k - 1)] \in S \cup {NoThread}
  <2>1. k - 1 \in 0..THREAD_MAX
    BY <1>1, CapacityType
  <2>2. QED  BY <1>1, <2>1, IndexType
<1>3. Contents(q) \in [1..q.size -> S \cup {NoThread}]
  BY <1>2 DEF Contents
<1>4. Contents(q) \in Seq(S \cup {NoThread}) /\ Len(Contents(q)) = q.size
  BY <1>1, <1>3
<1>5. QED  BY <1>4 DEF Contents

LEMMA EmptyRingIsEmpty ==
    ASSUME NEW S
    PROVE  EmptyRing \in RingOf(S) /\ EmptyRing.size = 0 /\ Contents(EmptyRing) = <<>>
BY CapacityType DEF EmptyRing, RingOf, Indices, Contents

(* What is pushed goes to the end of the queue.                            *)
LEMMA PushAllContents ==
    ASSUME NEW S, NEW q \in RingOf(S), Contents(q) \in Seq(S), NEW s \in Seq(S),
           q.size + Len(s) <= THREAD_MAX
    PROVE  /\ PushAll(q, s) \in RingOf(S)
           /\ PushAll(q, s).size = q.size + Len(s)
           /\ Contents(PushAll(q, s)) = Contents(q) \o s
<1> DEFINE p == PushAll(q, s)
           N(k) == (k - q.head - q.size) % THREAD_MAX
<1>1. Len(s) \in Nat /\ \A n \in 1..Len(s) : s[n] \in S
  OBVIOUS
<1>2. /\ q.arr \in [Indices -> S \cup {NoThread}]
      /\ q.head \in Nat /\ q.head < THREAD_MAX
      /\ q.size \in Nat /\ q.size <= THREAD_MAX
  BY RingFields
<1>3. /\ p = [arr |-> p.arr, head |-> p.head, size |-> p.size]
      /\ p.size = q.size + Len(s)
      /\ p.head = q.head
      /\ p.arr = [k \in Indices |-> IF N(k) < Len(s) THEN s[N(k) + 1] ELSE q.arr[k]]
  <2>1. q = [arr |-> q.arr, head |-> q.head, size |-> q.size]
    BY DEF RingOf
  <2>2. p = [[q EXCEPT !.size = @ + Len(s)]
                EXCEPT !.arr = [k \in Indices |->
                                   IF N(k) < Len(s) THEN s[N(k) + 1] ELSE q.arr[k]]]
    BY DEF PushAll
  <2> HIDE DEF p, N
  <2>3. QED  BY <2>1, <2>2
<1>4. ASSUME NEW k \in Indices
      PROVE  N(k) \in Nat
  <2>1. k \in Nat /\ k < THREAD_MAX
    BY CapacityType DEF Indices
  <2>2. QED  BY <1>2, <2>1, Distance
<1> HIDE DEF N, p
<1>5. p \in RingOf(S)
  <2>1. ASSUME NEW k \in Indices
        PROVE  p.arr[k] \in S \cup {NoThread}
    <3>1. CASE N(k) < Len(s)
      <4>1. N(k) + 1 \in 1..Len(s)
        BY <1>1, <1>4, <3>1
      <4>2. QED  BY <1>1, <1>3, <3>1, <4>1
    <3>2. CASE ~(N(k) < Len(s))
      BY <1>2, <1>3, <3>2
    <3>3. QED  BY <3>1, <3>2
  <2>2. p.arr \in [Indices -> S \cup {NoThread}]
    BY <1>3, <2>1
  <2>3. p.size \in 0..THREAD_MAX /\ p.head \in Indices
    BY <1>1, <1>2, <1>3, CapacityType DEF Indices
  <2>4. QED  BY <1>3, <2>2, <2>3 DEF RingOf
<1>6. p.size \in Nat /\ p.size <= THREAD_MAX
  BY <1>1, <1>2, <1>3, CapacityType
<1>7. Contents(q) \in Seq(S \cup {NoThread}) /\ Len(Contents(q)) = q.size
  BY ContentsType
<1>8. ASSUME NEW k \in 1..p.size
      PROVE  Contents(p)[k] = (Contents(q) \o s)[k]
  <2> DEFINE i == IndexOf(q, k - 1)
  <2>1. k - 1 \in 0..THREAD_MAX /\ k \in Nat
    BY <1>6, CapacityType
  <2>2. IndexOf(p, k - 1) = i
    BY <1>3 DEF IndexOf
  <2>3. i \in Indices /\ i = IF q.head + (k - 1) < THREAD_MAX THEN q.head + (k - 1)
                             ELSE q.head + (k - 1) - THREAD_MAX
    BY <2>1, IndexType
  <2>4. Contents(p)[k] = p.arr[i]
    BY <1>5, <2>2, ContentsType
  <2> HIDE DEF i
  <2>5. i \in Nat /\ i < THREAD_MAX
    BY <2>3, CapacityType DEF Indices
  <2>9. N(i) = IF k - 1 < q.size THEN k - 1 - q.size + THREAD_MAX ELSE k - 1 - q.size
    <3>1. k - 1 \in Nat /\ k - 1 < THREAD_MAX
      BY <1>6, <2>1, CapacityType
    <3> DEFINE h == q.head
               z == q.size
               n == k - 1
    <3>2. /\ h \in Nat /\ h < THREAD_MAX /\ z \in Nat /\ z <= THREAD_MAX
          /\ n \in Nat /\ n < THREAD_MAX
          /\ i = IF h + n < THREAD_MAX THEN h + n ELSE h + n - THREAD_MAX
      BY <1>2, <2>3, <3>1
    <3> HIDE DEF h, z, n
    <3>3. (i - h - z) % THREAD_MAX = IF n < z THEN n - z + THREAD_MAX ELSE n - z
      BY <2>5, <3>2, DistanceOfEntry
    <3>4. QED  BY <3>3 DEF N, h, z, n
  <2>6. CASE k <= q.size
    <3>1. N(i) = k - 1 - q.size + THREAD_MAX /\ ~(N(i) < Len(s))
      BY <1>1, <1>2, <1>3, <1>6, <2>1, <2>6, <2>9, CapacityType
    <3>2. Contents(p)[k] = q.arr[i] /\ k \in 1..q.size
      BY <1>2, <1>3, <2>1, <2>3, <2>4, <2>6, <3>1
    <3>3. Contents(q)[k] = q.arr[i]
      BY <3>2, ContentsType DEF i
    <3>4. QED  BY <1>7, <3>2, <3>3
  <2>7. CASE k > q.size
    <3>1. N(i) = k - 1 - q.size
      BY <1>2, <2>1, <2>7, <2>9
    <3>2. N(i) < Len(s) /\ N(i) + 1 = k - q.size /\ k - q.size \in 1..Len(s)
      BY <1>1, <1>2, <1>3, <2>1, <2>7, <3>1
    <3>3. Contents(p)[k] = s[k - q.size]
      BY <1>3, <2>3, <2>4, <3>2
    <3>4. QED  BY <1>1, <1>2, <1>3, <1>7, <2>1, <2>7, <3>2, <3>3
  <2>8. k <= q.size \/ k > q.size
    BY <1>2, <2>1
  <2>10. QED  BY <2>6, <2>7, <2>8
<1>9. Contents(p) = Contents(q) \o s
  <2>1. Contents(q) \o s \in Seq(S \cup {NoThread}) /\ Len(Contents(q) \o s) = p.size
    <3>1. s \in Seq(S \cup {NoThread})
      OBVIOUS
    <3>2. QED  BY <1>3, <1>7, <3>1, ConcatProperties
  <2>2. Contents(p) \in Seq(S \cup {NoThread}) /\ Len(Contents(p)) = p.size
    BY <1>5, ContentsType
  <2>3. QED  BY <1>8, <2>1, <2>2, SeqEqual
<1>10. QED  BY <1>3, <1>5, <1>9 DEF p

(* push is PushAll of one.                                                 *)
LEMMA PushIsPushAll ==
    ASSUME NEW S, NEW q \in RingOf(S), NEW x \in S, q.size < THREAD_MAX
    PROVE  Push(q, x) = PushAll(q, <<x>>)
<1> DEFINE N(k) == (k - q.head - q.size) % THREAD_MAX
<1>1. /\ q.arr \in [Indices -> S \cup {NoThread}]
      /\ q.head \in Nat /\ q.head < THREAD_MAX
      /\ q.size \in Nat /\ q.size < THREAD_MAX
  BY RingFields
<1>2. ASSUME NEW k \in Indices
      PROVE  N(k) \in Nat /\ (N(k) < 1 <=> k = IndexOf(q, q.size))
  <2>1. /\ k \in Nat /\ k < THREAD_MAX
        /\ k - q.head - q.size \in Int
        /\ -(2 * THREAD_MAX) <= k - q.head - q.size
        /\ k - q.head - q.size < THREAD_MAX
    BY <1>1, CapacityType DEF Indices
  <2>2. /\ N(k) \in Nat
        /\ N(k) = IF k - q.head - q.size < -THREAD_MAX
                  THEN k - q.head - q.size + 2 * THREAD_MAX
                  ELSE IF k - q.head - q.size < 0
                       THEN k - q.head - q.size + THREAD_MAX
                       ELSE k - q.head - q.size
    BY <1>1, <2>1, Around, CapacityType
  <2>3. q.size \in 0..THREAD_MAX
    BY <1>1, CapacityType
  <2>4. IndexOf(q, q.size) = IF q.head + q.size < THREAD_MAX THEN q.head + q.size
                             ELSE q.head + q.size - THREAD_MAX
    BY <2>3, IndexType
  <2> HIDE DEF N
  <2>5. QED  BY <1>1, <2>1, <2>2, <2>4, CapacityType
<1>3. [q.arr EXCEPT ![IndexOf(q, q.size)] = x] =
      [k \in Indices |-> IF N(k) < 1 THEN <<x>>[N(k) + 1] ELSE q.arr[k]]
  <2>1. ASSUME NEW k \in Indices, k = IndexOf(q, q.size)
        PROVE  N(k) + 1 = 1
    BY <1>2, <2>1
  <2> HIDE DEF N
  <2>2. QED  BY <1>1, <1>2, <2>1
<1>4. Len(<<x>>) = 1
  OBVIOUS
<1>5. QED  BY <1>3, <1>4 DEF Push, PushAll, RingOf

(* The first entries are taken.                                            *)
LEMMA DropContents ==
    ASSUME NEW S, NEW q \in RingOf(S), Contents(q) \in Seq(S), NEW n \in 0..q.size
    PROVE  /\ Drop(q, n) \in RingOf(S)
           /\ Drop(q, n).size = q.size - n
           /\ Contents(Drop(q, n)) = SubSeq(Contents(q), n + 1, q.size)
<1> DEFINE p == Drop(q, n)
           s == SubSeq(Contents(q), n + 1, q.size)
<1>1. /\ q.arr \in [Indices -> S \cup {NoThread}]
      /\ q.head \in Nat /\ q.head < THREAD_MAX
      /\ q.size \in Nat /\ q.size <= THREAD_MAX
  BY RingFields
<1>2. n \in 0..THREAD_MAX /\ n \in Nat /\ n <= q.size
  BY <1>1, CapacityType
<1>3. /\ p = [arr |-> p.arr, head |-> p.head, size |-> p.size]
      /\ p.size = q.size - n
      /\ p.head = IndexOf(q, n)
      /\ p.arr = q.arr
  <2>1. q = [arr |-> q.arr, head |-> q.head, size |-> q.size]
    BY DEF RingOf
  <2>2. p = [[q EXCEPT !.head = IndexOf(q, n)] EXCEPT !.size = @ - n]
    BY DEF Drop
  <2> HIDE DEF p
  <2>3. QED  BY <2>1, <2>2
<1>4. /\ p.head \in Indices
      /\ p.head = IF q.head + n < THREAD_MAX THEN q.head + n ELSE q.head + n - THREAD_MAX
  BY <1>2, <1>3, IndexType
<1>5. p.size \in Nat /\ p.size <= THREAD_MAX
  BY <1>1, <1>2, <1>3, CapacityType
<1> HIDE DEF p
<1>6. p \in RingOf(S)
  <2>1. p.size \in 0..THREAD_MAX
    BY <1>5, CapacityType
  <2>2. QED  BY <1>1, <1>3, <1>4, <2>1 DEF RingOf
<1>7. /\ Len(Contents(q)) = q.size
      /\ \A k \in 1..q.size : Contents(q)[k] = q.arr[IndexOf(q, k - 1)]
  BY ContentsType
<1>8. s \in Seq(S) /\ Len(s) = p.size /\ \A k \in 1..p.size : s[k] = Contents(q)[n + k]
  BY <1>1, <1>2, <1>3, <1>7
<1>9. /\ Contents(p) \in Seq(S \cup {NoThread})
      /\ Len(Contents(p)) = p.size
      /\ \A k \in 1..p.size : Contents(p)[k] = p.arr[IndexOf(p, k - 1)]
  BY <1>6, ContentsType
<1> HIDE DEF s
<1>10. ASSUME NEW k \in 1..p.size
       PROVE  Contents(p)[k] = s[k]
  <2>1. k \in Nat /\ k - 1 \in 0..THREAD_MAX /\ (n + k) - 1 \in 0..THREAD_MAX
    BY <1>1, <1>2, <1>3, <1>5, CapacityType
  <2>2. IndexOf(p, k - 1) = IF p.head + (k - 1) < THREAD_MAX THEN p.head + (k - 1)
                            ELSE p.head + (k - 1) - THREAD_MAX
    BY <1>6, <2>1, IndexType
  <2>3. IndexOf(q, (n + k) - 1) =
            IF q.head + ((n + k) - 1) < THREAD_MAX THEN q.head + ((n + k) - 1)
            ELSE q.head + ((n + k) - 1) - THREAD_MAX
    BY <2>1, IndexType
  <2>4. IndexOf(p, k - 1) = IndexOf(q, (n + k) - 1)
    <3> DEFINE h == q.head
               g == p.head
    <3>1. /\ h \in Nat /\ h < THREAD_MAX /\ n + k \in Nat /\ n + k <= THREAD_MAX
          /\ g = IF h + n < THREAD_MAX THEN h + n ELSE h + n - THREAD_MAX
      BY <1>1, <1>2, <1>3, <1>4, <1>5, <2>1, CapacityType, SMTT(30)
    <3>2. (IF g + (k - 1) < THREAD_MAX THEN g + (k - 1) ELSE g + (k - 1) - THREAD_MAX)
          = IF h + ((n + k) - 1) < THREAD_MAX THEN h + ((n + k) - 1)
            ELSE h + ((n + k) - 1) - THREAD_MAX
      <4> HIDE DEF h, g
      <4>1. QED  BY <1>2, <2>1, <3>1, CapacityType
    <3>3. QED  BY <2>2, <2>3, <3>2
  <2>5. n + k \in 1..q.size
    BY <1>1, <1>2, <1>3, <2>1
  <2>6. QED  BY <1>3, <1>7, <1>8, <1>9, <2>4, <2>5
<1>11. Contents(p) = s
  <2>1. s \in Seq(S \cup {NoThread})
    BY <1>8
  <2>2. QED  BY <1>8, <1>9, <1>10, <2>1, SeqEqual
<1>12. QED  BY <1>3, <1>6, <1>11 DEF p, s

LEMMA HeadIsFirst ==
    ASSUME NEW S, NEW q \in RingOf(S), q.size > 0
    PROVE  AtHead(q) = Contents(q)[1]
<1>1. q.head \in Nat /\ q.head < THREAD_MAX /\ 0 \in 0..THREAD_MAX /\ 1 \in 1..q.size
  BY RingFields, CapacityType
<1>2. IndexOf(q, 0) = q.head
  BY <1>1, IndexType
<1>3. Contents(q)[1] = q.arr[IndexOf(q, 1 - 1)]
  BY <1>1, ContentsType
<1>4. QED  BY <1>2, <1>3 DEF AtHead

-----------------------------------------------------------------------------
(* Sequences that hold everything at most once.                            *)

LEMMA InjectiveSeq ==
    ASSUME NEW S, NEW s \in Seq(S)
    PROVE  /\ IsInjective(s) <=> \A i, j \in 1..Len(s) : s[i] = s[j] => i = j
           /\ Range(s) = {s[i] : i \in 1..Len(s)}
           /\ Range(s) \subseteq S
<1>1. DOMAIN s = 1..Len(s)
  OBVIOUS
<1>2. QED  BY <1>1 DEF IsInjective, Range

LEMMA EmptySequence ==
    /\ IsInjective(<<>>)
    /\ Range(<<>>) = {}
BY DEF IsInjective, Range

LEMMA OneElement ==
    ASSUME NEW S, NEW x \in S
    PROVE  <<x>> \in Seq(S) /\ IsInjective(<<x>>) /\ Range(<<x>>) = {x}
<1> DEFINE s == <<x>>
<1>1. s \in Seq(S) /\ Len(s) = 1 /\ s[1] = x
  OBVIOUS
<1> HIDE DEF s
<1>2. IsInjective(s)
  BY <1>1, InjectiveSeq
<1>3. Range(s) = {s[i] : i \in 1..Len(s)}
  BY <1>1, InjectiveSeq
<1>4. Range(s) = {x}
  BY <1>1, <1>3
<1>5. QED  BY <1>1, <1>2, <1>4 DEF s

LEMMA ConcatInjective ==
    ASSUME NEW S, NEW s \in Seq(S), NEW t \in Seq(S), IsInjective(s), IsInjective(t),
           Range(s) \cap Range(t) = {}
    PROVE  /\ s \o t \in Seq(S)
           /\ IsInjective(s \o t)
           /\ Range(s \o t) = Range(s) \cup Range(t)
<1> DEFINE u == s \o t
<1>1. /\ u \in Seq(S)
      /\ Len(u) = Len(s) + Len(t)
      /\ \A i \in 1..Len(s) + Len(t) : u[i] = IF i <= Len(s) THEN s[i] ELSE t[i - Len(s)]
  BY ConcatProperties
<1>2. Len(s) \in Nat /\ Len(t) \in Nat
  OBVIOUS
<1> HIDE DEF u
<1>3. ASSUME NEW i \in 1..Len(u), NEW j \in 1..Len(u), u[i] = u[j]
      PROVE  i = j
  <2>1. \A k \in 1..Len(u) : k <= Len(s) => u[k] = s[k] /\ k \in 1..Len(s) /\ u[k] \in Range(s)
    BY <1>1, <1>2, InjectiveSeq
  <2>2. ASSUME NEW k \in 1..Len(u), ~(k <= Len(s))
        PROVE  u[k] = t[k - Len(s)] /\ k - Len(s) \in 1..Len(t) /\ u[k] \in Range(t)
    <3>1. u[k] = t[k - Len(s)] /\ k - Len(s) \in 1..Len(t)
      BY <1>1, <1>2, <2>2
    <3>2. QED  BY <3>1, InjectiveSeq
  <2>3. CASE i <= Len(s) /\ j <= Len(s)
    BY <1>3, <2>1, <2>3, InjectiveSeq
  <2>4. CASE ~(i <= Len(s)) /\ ~(j <= Len(s))
    <3>1. i - Len(s) = j - Len(s)
      BY <1>3, <2>2, <2>4, InjectiveSeq
    <3>2. QED  BY <1>1, <1>2, <3>1
  <2>5. CASE (i <= Len(s)) # (j <= Len(s))
    BY <1>3, <2>1, <2>2, <2>5
  <2>6. QED  BY <2>3, <2>4, <2>5
<1>4. IsInjective(u)
  BY <1>1, <1>3, InjectiveSeq
<1>5. Range(u) = Range(s) \cup Range(t)
  BY RangeConcatenation DEF u
<1>6. QED  BY <1>1, <1>4, <1>5 DEF u

(* A sequence is cut in two.                                               *)
LEMMA CutInjective ==
    ASSUME NEW S, NEW s \in Seq(S), IsInjective(s), NEW n \in 0..Len(s)
    PROVE  /\ SubSeq(s, 1, n) \in Seq(S)
           /\ SubSeq(s, n + 1, Len(s)) \in Seq(S)
           /\ IsInjective(SubSeq(s, 1, n))
           /\ IsInjective(SubSeq(s, n + 1, Len(s)))
           /\ Range(SubSeq(s, 1, n)) \cap Range(SubSeq(s, n + 1, Len(s))) = {}
           /\ Range(SubSeq(s, 1, n)) \cup Range(SubSeq(s, n + 1, Len(s))) = Range(s)
<1> DEFINE a == SubSeq(s, 1, n)
           b == SubSeq(s, n + 1, Len(s))
<1>1. Len(s) \in Nat /\ n \in Nat /\ n <= Len(s)
  OBVIOUS
<1>2. /\ a \in Seq(S) /\ b \in Seq(S)
      /\ Len(a) = n /\ Len(b) = Len(s) - n
      /\ \A i \in 1..n : a[i] = s[i]
      /\ \A i \in 1..Len(s) - n : b[i] = s[n + i]
  BY <1>1
<1> HIDE DEF a, b
<1>3. \A i, j \in 1..Len(s) : s[i] = s[j] => i = j
  BY InjectiveSeq
<1>4. IsInjective(a)
  <2>1. \A i, j \in 1..n : a[i] = a[j] => i = j
    BY <1>1, <1>2, <1>3
  <2>2. QED  BY <1>2, <2>1, InjectiveSeq
<1>5. IsInjective(b)
  <2>1. ASSUME NEW i \in 1..Len(s) - n, NEW j \in 1..Len(s) - n, b[i] = b[j]
        PROVE  i = j
    <3>1. n + i \in 1..Len(s) /\ n + j \in 1..Len(s) /\ s[n + i] = s[n + j]
      BY <1>1, <1>2, <2>1
    <3>2. n + i = n + j
      BY <1>3, <3>1
    <3>3. QED  BY <1>1, <3>2
  <2>2. QED  BY <1>2, <2>1, InjectiveSeq
<1>6. Range(a) \cap Range(b) = {}
  <2>1. ASSUME NEW i \in 1..n, NEW j \in 1..Len(s) - n
        PROVE  a[i] # b[j]
    <3>1. i \in 1..Len(s) /\ n + j \in 1..Len(s) /\ i # n + j
      BY <1>1
    <3>2. s[i] # s[n + j]
      BY <1>3, <3>1
    <3>3. QED  BY <1>2, <3>2
  <2>2. Range(a) = {a[i] : i \in 1..Len(a)}
    BY <1>2, InjectiveSeq
  <2>3. Range(b) = {b[i] : i \in 1..Len(b)}
    BY <1>2, InjectiveSeq
  <2>4. QED  BY <1>2, <2>1, <2>2, <2>3
<1>7. Range(a) \cup Range(b) = Range(s)
  <2>1. a \o b = SubSeq(s, 1, Len(s))
    <3>1. 1 \in 1..Len(s)+1 /\ n \in 1-1..Len(s) /\ Len(s) \in n..Len(s)
      BY <1>1
    <3>2. QED  BY <3>1, ConcatAdjacentSubSeq DEF a, b
  <2>2. SubSeq(s, 1, Len(s)) = s
    BY SubSeqFull
  <2>3. Range(a \o b) = Range(a) \cup Range(b)
    BY <1>2, RangeConcatenation, SMTT(30)
  <2>4. QED  BY <2>1, <2>2, <2>3, Zenon
<1>8. QED  BY <1>2, <1>4, <1>5, <1>6, <1>7 DEF a, b

(* Such a sequence is as long as there are elements in it.                 *)
LEMMA InjectiveLength ==
    ASSUME NEW S, IsFiniteSet(S), NEW s \in Seq(S), IsInjective(s)
    PROVE  /\ IsFiniteSet(Range(s))
           /\ Len(s) = Cardinality(Range(s))
           /\ Len(s) <= Cardinality(S)
<1>1. Range(s) \subseteq S /\ Len(s) \in Nat
  BY InjectiveSeq
<1>2. IsFiniteSet(Range(s)) /\ Cardinality(Range(s)) <= Cardinality(S)
  BY <1>1, FS_Subset
<1>3. s \in Bijection(1..Len(s), Range(s))
  <2>1. s \in [1..Len(s) -> Range(s)]
    BY InjectiveSeq
  <2>2. \A i, j \in 1..Len(s) : s[i] = s[j] => i = j
    BY InjectiveSeq
  <2>3. \A x \in Range(s) : \E i \in 1..Len(s) : s[i] = x
    BY InjectiveSeq
  <2>4. QED  BY <2>1, <2>2, <2>3, Fun_IsBij
<1>4. ExistsBijection(1..Len(s), Range(s))
  BY <1>3 DEF ExistsBijection
<1>5. Cardinality(Range(s)) = Len(s)
  BY <1>1, <1>4, FS_CountingElements
<1>6. QED  BY <1>2, <1>5

(* A queue that holds threads only, each once, fits into its array, and    *)
(* one more entry does as well.                                            *)
LEMMA ThreadsAreFinite ==
    /\ Threads = 1..Len(Program)
    /\ IsFiniteSet(Threads)
    /\ Cardinality(Threads) = Len(Program)
    /\ Cardinality(Threads) < THREAD_MAX
    /\ Cardinality(Threads) \in Nat
<1>1. Threads = 1..Len(Program) /\ Len(Program) \in Nat /\ Len(Program) > 0
      /\ Len(Program) < THREAD_MAX
  BY ProgramAssumption DEF Threads
<1>2. IsFiniteSet(1..Len(Program)) /\ Cardinality(1..Len(Program)) = Len(Program)
  BY <1>1, FS_Interval
<1>3. QED  BY <1>1, <1>2

LEMMA QueueFits ==
    ASSUME NEW s \in Seq(Threads), IsInjective(s)
    PROVE  Len(s) < THREAD_MAX
BY InjectiveLength, ThreadsAreFinite, CapacityType

-----------------------------------------------------------------------------
(* move_sleeping_to_ready goes through the array by id: the k-th thread    *)
(* that it moves is the one with k threads up to it.                       *)
UpTo(S, t) == {u \in S : u <= t}

LEMMA RankIsNumber ==
    ASSUME NEW S \in SUBSET Threads, NEW t \in S
    PROVE  /\ IsFiniteSet(UpTo(S, t))
           /\ Cardinality(UpTo(S, t)) \in 1..Cardinality(S)
<1>1. IsFiniteSet(S) /\ UpTo(S, t) \subseteq S
  BY ThreadsAreFinite, FS_Subset DEF UpTo
<1>2. IsFiniteSet(UpTo(S, t)) /\ Cardinality(UpTo(S, t)) <= Cardinality(S)
  BY <1>1, FS_Subset
<1>3. t \in UpTo(S, t)
  BY ThreadsAreFinite DEF UpTo
<1>4. Cardinality(UpTo(S, t)) \in Nat /\ Cardinality(S) \in Nat
  BY <1>1, <1>2, FS_CardinalityType
<1>5. Cardinality(UpTo(S, t)) # 0
  BY <1>2, <1>3, FS_EmptySet
<1>6. QED  BY <1>2, <1>4, <1>5

LEMMA RankIsInjective ==
    ASSUME NEW S \in SUBSET Threads, NEW t \in S, NEW u \in S,
           Cardinality(UpTo(S, t)) = Cardinality(UpTo(S, u))
    PROVE  t = u
<1>1. ASSUME NEW a \in S, NEW b \in S, a < b
      PROVE  Cardinality(UpTo(S, a)) # Cardinality(UpTo(S, b))
  <2>0. \A v \in S : v \in Nat
    BY ThreadsAreFinite
  <2>1. UpTo(S, a) \subseteq UpTo(S, b) /\ b \in UpTo(S, b) /\ b \notin UpTo(S, a)
    BY <1>1, <2>0 DEF UpTo
  <2>2. IsFiniteSet(UpTo(S, b))
    BY RankIsNumber
  <2>3. QED  BY <2>1, <2>2, FS_Subset
<1>2. t \in Nat /\ u \in Nat
  BY ThreadsAreFinite
<1>3. t < u \/ u < t \/ t = u
  BY <1>2
<1>4. QED  BY <1>1, <1>3

LEMMA ByIdIsTheSet ==
    ASSUME NEW S \in SUBSET Threads
    PROVE  /\ ById(S) \in Seq(Threads)
           /\ IsInjective(ById(S))
           /\ Range(ById(S)) = S
           /\ Len(ById(S)) = Cardinality(S)
<1> DEFINE n == Cardinality(S)
           rank == [t \in S |-> Cardinality(UpTo(S, t))]
<1>1. IsFiniteSet(S) /\ n \in Nat
  BY ThreadsAreFinite, FS_Subset, FS_CardinalityType
<1>2. IsFiniteSet(1..n) /\ Cardinality(1..n) = n
  BY <1>1, FS_Interval
<1>3. rank \in Injection(S, 1..n)
  <2>1. rank \in [S -> 1..n]
    BY RankIsNumber
  <2>2. \A t, u \in S : rank[t] = rank[u] => t = u
    BY RankIsInjective
  <2> HIDE DEF rank, n
  <2>3. QED  BY <2>1, <2>2, Fun_IsInj
<1>4. rank \in Surjection(S, 1..n)
  <2> HIDE DEF rank
  <2>1. Cardinality(S) = Cardinality(1..n)
    BY <1>2
  <2> HIDE DEF n
  <2>2. QED  BY <1>2, <1>3, <2>1, FS_Injection
<1>5. ASSUME NEW k \in 1..n
      PROVE  ById(S)[k] \in S /\ Cardinality(UpTo(S, ById(S)[k])) = k
  <2>1. \E t \in S : rank[t] = k
    <3> HIDE DEF rank, n
    <3>1. QED  BY <1>4 DEF Surjection
  <2>2. \E t \in S : Cardinality(UpTo(S, t)) = k
    BY <2>1
  <2>3. ById(S)[k] = CHOOSE t \in S : Cardinality(UpTo(S, t)) = k
    BY DEF ById, UpTo
  <2>4. QED  BY <2>2, <2>3
<1>6. ById(S) \in Seq(S) /\ Len(ById(S)) = n
  <2>1. ById(S) \in [1..n -> S]
    BY <1>5 DEF ById
  <2>2. QED  BY <1>1, <2>1
<1>7. \A i, j \in 1..n : ById(S)[i] = ById(S)[j] => i = j
  <2>1. ASSUME NEW i \in 1..n, NEW j \in 1..n, ById(S)[i] = ById(S)[j]
        PROVE  i = j
    BY <1>5, <2>1
  <2>2. QED  BY <2>1
<1>8. S \subseteq Range(ById(S))
  <2>1. ASSUME NEW t \in S
        PROVE  \E k \in 1..n : ById(S)[k] = t
    <3>1. Cardinality(UpTo(S, t)) \in 1..n
      BY RankIsNumber
    <3>2. ById(S)[Cardinality(UpTo(S, t))] = t
      BY <1>5, <3>1, RankIsInjective
    <3>3. QED  BY <3>1, <3>2
  <2>2. QED  BY <1>6, <2>1, InjectiveSeq
<1>9. ById(S) \in Seq(Threads)
  BY <1>6, SeqMonotonic
<1>10. QED  BY <1>6, <1>7, <1>8, <1>9, InjectiveSeq

-----------------------------------------------------------------------------
(* The numbers.  Fib is defined by recursion: it is the function that      *)
(* agrees with the beginnings of it, which there are for every length, by  *)
(* the least length for which there would be none.                         *)
BeginsFib(g, n) ==
    /\ g \in [0..n -> Int]
    /\ \A k \in 0..n : g[k] = IF k <= 2 THEN 1 ELSE g[k - 1] + g[k - 2]

LEMMA FibBegins ==
    ASSUME NEW m \in Nat
    PROVE  \E g : BeginsFib(g, m)
<1> DEFINE T == {n \in Nat : ~ \E g : BeginsFib(g, n)}
<1> SUFFICES ASSUME T # {} PROVE FALSE
  OBVIOUS
<1>1. PICK n \in T : \A y \in T : n <= y
  <2>1. T \in SUBSET Nat
    OBVIOUS
  <2> HIDE DEF T
  <2>2. QED  BY <2>1, LeastNumber
<1>2. n # 0
  <2>1. BeginsFib([k \in 0..0 |-> 1], 0)
    BY DEF BeginsFib
  <2>2. QED  BY <2>1
<1>3. n \in Nat /\ n - 1 \in Nat /\ n - 1 \notin T
  BY <1>1, <1>2
<1>4. PICK g : BeginsFib(g, n - 1)
  BY <1>3
<1> DEFINE last == IF n <= 2 THEN 1 ELSE g[n - 1] + g[n - 2]
           h == [k \in 0..n |-> IF k = n THEN last ELSE g[k]]
<1>5. \A k \in 0..n-1 : g[k] \in Int /\ g[k] = IF k <= 2 THEN 1 ELSE g[k - 1] + g[k - 2]
  BY <1>4 DEF BeginsFib
<1>6. last \in Int
  BY <1>3, <1>5
<1>7. h \in [0..n -> Int] /\ h[n] = last /\ \A k \in 0..n-1 : h[k] = g[k]
  <2> HIDE DEF last
  <2>1. QED  BY <1>3, <1>5, <1>6
<1> HIDE DEF h
<1>8. ASSUME NEW k \in 0..n
      PROVE  h[k] = IF k <= 2 THEN 1 ELSE h[k - 1] + h[k - 2]
  <2>1. CASE k = n
    BY <1>3, <1>7, <2>1
  <2>2. CASE k # n
    BY <1>3, <1>5, <1>7, <2>2
  <2>3. QED  BY <2>1, <2>2
<1>9. BeginsFib(h, n)
  BY <1>7, <1>8 DEF BeginsFib
<1>10. QED  BY <1>1, <1>9

LEMMA FibBeginsOneWay ==
    ASSUME NEW m \in Nat, NEW n \in Nat, NEW g, NEW h, BeginsFib(g, m), BeginsFib(h, n),
           NEW k \in Nat, k <= m, k <= n
    PROVE  g[k] = h[k]
<1> DEFINE T == {j \in Nat : j <= m /\ j <= n /\ g[j] # h[j]}
<1> SUFFICES ASSUME T # {} PROVE FALSE
  OBVIOUS
<1>1. PICK j \in T : \A y \in T : j <= y
  <2>1. T \in SUBSET Nat
    OBVIOUS
  <2> HIDE DEF T
  <2>2. QED  BY <2>1, LeastNumber
<1>2. j \in 0..m /\ j \in 0..n /\ g[j] # h[j]
  BY <1>1
<1>3. /\ g[j] = IF j <= 2 THEN 1 ELSE g[j - 1] + g[j - 2]
      /\ h[j] = IF j <= 2 THEN 1 ELSE h[j - 1] + h[j - 2]
  BY <1>2 DEF BeginsFib
<1>4. j > 2
  BY <1>2, <1>3
<1>5. j - 1 \notin T /\ j - 2 \notin T
  BY <1>1, <1>2, <1>4
<1>6. g[j - 1] = h[j - 1] /\ g[j - 2] = h[j - 2]
  BY <1>2, <1>4, <1>5
<1>7. QED  BY <1>2, <1>3, <1>4, <1>6

(* The equation of Fib holds.                                              *)
LEMMA FibEquation ==
    ASSUME NEW n \in Nat
    PROVE  Fib[n] \in Int /\ Fib[n] = IF n <= 2 THEN 1 ELSE Fib[n - 1] + Fib[n - 2]
<1> DEFINE G(k) == CHOOSE g : BeginsFib(g, k)
           F == [k \in Nat |-> G(k)[k]]
<1>1. \A k \in Nat : BeginsFib(G(k), k)
  BY FibBegins
<1> HIDE DEF G
<1>2. \A k \in Nat : F[k] = G(k)[k] /\ F[k] \in Int
  BY <1>1 DEF BeginsFib
<1>3. ASSUME NEW k \in Nat
      PROVE  F[k] = IF k <= 2 THEN 1 ELSE F[k - 1] + F[k - 2]
  <2>1. G(k)[k] = IF k <= 2 THEN 1 ELSE G(k)[k - 1] + G(k)[k - 2]
    BY <1>1 DEF BeginsFib
  <2>2. CASE k <= 2
    BY <1>2, <2>1, <2>2
  <2>3. CASE ~(k <= 2)
    <3>1. k - 1 \in Nat /\ k - 2 \in Nat /\ k - 1 <= k /\ k - 2 <= k
      BY <2>3
    <3>2. G(k)[k - 1] = G(k - 1)[k - 1]
      BY <1>1, <3>1, FibBeginsOneWay
    <3>3. G(k)[k - 2] = G(k - 2)[k - 2]
      BY <1>1, <3>1, FibBeginsOneWay
    <3>4. QED  BY <1>2, <2>1, <2>3, <3>1, <3>2, <3>3
  <2>4. QED  BY <2>2, <2>3
<1> HIDE DEF F
<1>4. F = [k \in Nat |-> IF k <= 2 THEN 1 ELSE F[k - 1] + F[k - 2]]
  <2>1. F = [k \in Nat |-> F[k]]
    BY DEF F
  <2>2. QED  BY <1>3, <2>1
<1>5. Fib = [k \in Nat |-> IF k <= 2 THEN 1 ELSE Fib[k - 1] + Fib[k - 2]]
  BY <1>4 DEF Fib
<1>6. \A k \in Nat : Fib[k] = IF k <= 2 THEN 1 ELSE Fib[k - 1] + Fib[k - 2]
  <2> HIDE DEF Fib
  <2>1. QED  BY <1>5
<1>7. \A k \in Nat : Fib[k] \in Int
  <2> DEFINE T == {k \in Nat : Fib[k] \notin Int}
  <2> SUFFICES ASSUME T # {} PROVE FALSE
    OBVIOUS
  <2>1. PICK j \in T : \A y \in T : j <= y
    <3>1. T \in SUBSET Nat
      OBVIOUS
    <3> HIDE DEF T
    <3>2. QED  BY <3>1, LeastNumber
  <2>2. j > 2 /\ j \in Nat
    BY <1>6, <2>1
  <2>3. j - 1 \in Nat /\ j - 2 \in Nat /\ j - 1 \notin T /\ j - 2 \notin T
    BY <2>1, <2>2
  <2>4. Fib[j - 1] \in Int /\ Fib[j - 2] \in Int
    BY <2>3
  <2>5. QED  BY <1>6, <2>1, <2>2, <2>4
<1>8. QED  BY <1>6, <1>7

(* The sums go up and down by one number each time.                        *)
LEMMA NextSum ==
    ASSUME NEW k \in Nat
    PROVE  /\ AlternatingSum(1) = 1
           /\ AlternatingSum(k + 1) = PmTerm(k + 1) + AlternatingSum(k)
           /\ AlternatingSum(k) \in Int
BY DEF AlternatingSum, PmTerm

-----------------------------------------------------------------------------
(* Who is who.                                                             *)

LEMMA IdleIsNoThread ==
    /\ Idle \notin Threads
    /\ NoThread \notin Threads
    /\ Idle # NoThread
BY ThreadsAreFinite DEF Idle, NoThread

LEMMA RoutinesAreDisjoint ==
    /\ Threads = Fibonacci \cup Pm \cup Enroll
    /\ Fibonacci \cap Pm = {} /\ Fibonacci \cap Enroll = {} /\ Pm \cap Enroll = {}
<1>1. \A t \in Threads : Program[t] \in [routine : {"fibonacci"}, n : 1..46]
                                        \cup [routine : {"pm"}, n : Nat \ {0}]
                                        \cup [routine : {"enroll"}, dp : Nat, ds : Nat,
                                              s : Nat, b : 0..THREAD_MAX-1]
  BY ProgramAssumption DEF Threads
<1>2. \A t \in Threads : Program[t].routine \in {"fibonacci", "pm", "enroll"}
  BY <1>1
<1>3. QED  BY <1>2 DEF Fibonacci, Pm, Enroll

LEMMA EnrollArguments ==
    ASSUME NEW t \in Enroll
    PROVE  t \in Threads /\ Program[t].dp \in Nat /\ Program[t].ds \in Nat /\ Program[t].s \in Nat
<1>1. Program[t] \in [routine : {"fibonacci"}, n : 1..46]
                     \cup [routine : {"pm"}, n : Nat \ {0}]
                     \cup [routine : {"enroll"}, dp : Nat, ds : Nat, s : Nat, b : 0..THREAD_MAX-1]
  BY ProgramAssumption DEF Threads, Enroll
<1>2. Program[t].routine = "enroll" /\ t \in Threads
  BY DEF Enroll
<1>3. QED  BY <1>1, <1>2

(* The jumps are different from each other, and the places as well.        *)
LEMMA Jumps ==
    /\ NoJump # First /\ NoJump # FromSignal /\ NoJump # FromLock
    /\ NoJump # FromSleep /\ NoJump # FromExit
    /\ First # FromSignal /\ First # FromLock /\ First # FromSleep /\ First # FromExit
    /\ FromSignal # FromLock /\ FromSignal # FromSleep /\ FromSignal # FromExit
    /\ FromLock # FromSleep /\ FromLock # FromExit
    /\ FromSleep # FromExit
BY DEF NoJump, First, FromSignal, FromLock, FromSleep, FromExit

LEMMA ReadersAndWriters ==
    /\ Readers \in SUBSET Threads /\ Writers \in SUBSET Threads
    /\ IsFiniteSet(Readers) /\ IsFiniteSet(Writers)
    /\ Cardinality(Readers) \in Nat /\ Cardinality(Writers) \in Nat
    /\ Cardinality(Readers) = 0 <=> Readers = {}
    /\ Cardinality(Writers) = 0 <=> Writers = {}
<1>1. Readers \in SUBSET Threads /\ Writers \in SUBSET Threads
  BY DEF Readers, Writers
<1>2. IsFiniteSet(Readers) /\ IsFiniteSet(Writers)
  BY <1>1, ThreadsAreFinite, FS_Subset
<1>3. QED  BY <1>1, <1>2, FS_CardinalityType, FS_EmptySet

-----------------------------------------------------------------------------
(* Initially all threads are ready.                                        *)
LEMMA Initially == Init => IInv
<1> SUFFICES ASSUME Init PROVE IInv
  OBVIOUS
<1> DEFINE all == [k \in 1..Len(Program) |-> k]
<1>1. all \in Seq(Threads) /\ Len(all) = Len(Program) /\ IsInjective(all) /\ Range(all) = Threads
  <2>1. all \in Seq(Threads) /\ Len(all) = Len(Program) /\ \A k \in 1..Len(all) : all[k] = k
    BY ThreadsAreFinite, ProgramAssumption
  <2> HIDE DEF all
  <2>2. IsInjective(all)
    BY <2>1, InjectiveSeq
  <2>3. Range(all) = {all[k] : k \in 1..Len(all)}
    BY <2>1, InjectiveSeq
  <2>4. Range(all) = 1..Len(Program)
    BY <2>1, <2>3
  <2>5. QED  BY <2>1, <2>2, <2>4, ThreadsAreFinite
<1> HIDE DEF all
<1>2. /\ ready \in RingOf(Threads)
      /\ Contents(ready) = all
  <2>1. EmptyRing \in RingOf(Threads) /\ EmptyRing.size = 0 /\ Contents(EmptyRing) = <<>>
    BY EmptyRingIsEmpty
  <2>2. <<>> \in Seq(Threads) /\ 0 + Len(all) <= THREAD_MAX
    BY <1>1, ProgramAssumption
  <2>3. ready = PushAll(EmptyRing, all)
    BY DEF Init, all
  <2>4. ready \in RingOf(Threads) /\ Contents(ready) = <<>> \o all
    BY <1>1, <2>1, <2>2, <2>3, PushAllContents
  <2>5. QED  BY <1>1, <2>4, ConcatEmptySeq
<1>3. waiting \in RingOf(Threads) /\ Contents(waiting) = <<>>
  BY EmptyRingIsEmpty DEF Init
<1>4. TypeOK
  <2>1. tcb \in [Threads -> Tcb]
    BY DEF Init, Tcb
  <2>2. at \in [Threads \cup {Idle} -> Places]
    BY DEF Init, Places
  <2>3. current \in Threads \cup {Idle, NoThread} /\ jump = First /\ program = "running"
    BY DEF Init
  <2>4. 0 \in 0..THREAD_MAX /\ 0 \in 0..TimeSlice /\ 0 \in 0..MaxTstp /\ SeatsP \in Int /\ SeatsS \in Int
    BY ProgramAssumption
  <2>5. rwlock \in [read_count : Nat, write_count : 0..1]
    BY DEF Init
  <2>6. QED  BY <1>2, <1>3, <2>1, <2>2, <2>3, <2>4, <2>5 DEF Init, TypeOK
<1>5. QueueInv
  BY <1>1, <1>2, <1>3, EmptySequence DEF QueueInv
<1>6. PlaceInv
  <2>1. Running = {} /\ Ready = Threads /\ Waiting = {} /\ Live = Threads /\ sleeping = {}
    BY <1>1, <1>2, <1>3, EmptySequence, IdleIsNoThread DEF Init, Running, Ready, Waiting, Live
  <2>2. sleepingSize = Cardinality(sleeping)
    BY FS_EmptySet DEF Init
  <2>3. QED  BY <2>1, <2>2 DEF PlaceInv
<1>7. JumpInv
  BY Jumps, IdleIsNoThread DEF Init, JumpInv
<1>8. RoutineInv
  <2>1. \A t \in Threads \cup {Idle} : at[t] = "start"
    BY DEF Init
  <2>2. Waiting = {} /\ sleeping = {}
    BY <1>3, EmptySequence DEF Waiting, Init
  <2>3. QED  BY <2>1, <2>2, RoutinesAreDisjoint DEF RoutineInv
<1>9. LockIsHonest
  <2>1. Readers = {} /\ Writers = {}
    BY DEF Init, Readers, Writers
  <2>2. QED  BY <2>1, FS_EmptySet DEF Init, LockIsHonest
<1>10. QED  BY <1>4, <1>5, <1>6, <1>7, <1>8, <1>9 DEF IInv

-----------------------------------------------------------------------------
(* Steps that leave the queues alone.                                      *)

LEMMA QueuesSame ==
    ASSUME IInv, UNCHANGED queueVars, Running' = Running, Live' = Live
    PROVE  QueueInv' /\ PlaceInv' /\ Waiting' = Waiting
BY DEF IInv, queueVars, QueueInv, PlaceInv, Ready, Waiting

LEMMA LocksSame ==
    ASSUME IInv, UNCHANGED rwlock, Readers' = Readers, Writers' = Writers
    PROVE  LockIsHonest'
BY DEF IInv, LockIsHonest

LEMMA SignalTypes ==
    ASSUME IInv, SecondPasses \/ UNCHANGED signalVars
    PROVE  alarm' \in 0..TimeSlice /\ pending' \subseteq {"SIGTSTP", "SIGALRM"}
           /\ tstps' \in 0..MaxTstp
<1>1. alarm \in 0..TimeSlice /\ pending \subseteq {"SIGTSTP", "SIGALRM"} /\ tstps \in 0..MaxTstp
  BY DEF IInv, TypeOK
<1>2. CASE SecondPasses
  BY <1>1, <1>2, ProgramAssumption DEF SecondPasses
<1>3. CASE UNCHANGED signalVars
  BY <1>1, <1>3 DEF signalVars
<1>4. QED  BY <1>2, <1>3

(* The thread that runs is in no queue and has not exited.                 *)
LEMMA RunningThread ==
    ASSUME IInv, NEW t \in Threads, Runs(t)
    PROVE  /\ program = "running" /\ jump = NoJump /\ current = t
           /\ Running = {t}
           /\ t \notin sleeping /\ t \notin Ready /\ t \notin Waiting
           /\ at[t] \notin {"exited", "leaving"}
           /\ t \in Live
           /\ \A u \in Threads : at[u] # "leaving"
<1>1. program = "running" /\ jump = NoJump /\ current = t
  BY DEF Runs
<1>2. Running = {t}
  BY <1>1, Jumps DEF Running
<1>3. t \in Live /\ t \notin sleeping /\ t \notin Ready /\ t \notin Waiting
  BY <1>2 DEF IInv, PlaceInv
<1>4. \A u \in Threads : at[u] # "leaving"
  BY <1>1, Jumps DEF IInv, JumpInv
<1>5. QED  BY <1>1, <1>2, <1>3, <1>4 DEF Live

(* A step of the running thread that takes it to another place.            *)
LEMMA RunningStep ==
    ASSUME IInv, NEW t \in Threads, Runs(t),
           NEW place \in Places \ {"exited"},
           at' = [at EXCEPT ![t] = place],
           UNCHANGED <<current, queueVars, program>>,
           jump' \in {NoJump, FromLock, FromExit},
           place = "leaving" <=> jump' = FromExit,
           jump' = FromLock => AtLock(t)' /\ ~LetsIn(t)',
           tcb' \in [Threads -> Tcb],
           \A u \in Threads : u # t => tcb'[u].waiting_for = tcb[u].waiting_for,
           t \in Fibonacci \cup Pm => place \in {"yield", "leaving"},
           t \in Enroll => place # "yield",
           rwlock' \in [read_count : Nat, write_count : 0..1],
           q_p' \in Int, q_s' \in Int,
           SecondPasses \/ UNCHANGED signalVars
    PROVE  TypeOK' /\ QueueInv' /\ PlaceInv' /\ JumpInv' /\ RoutineInv'
<1>1. /\ at' \in [Threads \cup {Idle} -> Places]
      /\ at'[t] = place
      /\ \A u \in Threads \cup {Idle} : u # t => at'[u] = at[u]
      /\ t # Idle
  BY IdleIsNoThread DEF IInv, TypeOK
<1>2. TypeOK'
  <2>1. /\ current' \in Threads \cup {Idle, NoThread}
        /\ ready' \in RingOf(Threads) /\ waiting' \in RingOf(Threads)
        /\ sleeping' \subseteq Threads
        /\ sleepingSize' \in 0..THREAD_MAX
        /\ program' \in {"running", "returned", "fallen"}
    BY DEF IInv, TypeOK, queueVars
  <2>2. jump' \in {NoJump, First, FromSignal, FromLock, FromSleep, FromExit}
    OBVIOUS
  <2>3. QED  BY <1>1, <2>1, <2>2, SignalTypes DEF TypeOK
<1>3. /\ QueueInv' /\ PlaceInv' /\ Waiting' = Waiting
  <2>1. Running' = Running
    BY RunningThread, Jumps DEF Running
  <2>2. Live' = Live
    BY <1>1, RunningThread DEF Live
  <2>3. QED  BY <2>1, <2>2, QueuesSame
<1>4. JumpInv'
  <2>1. program' = "running" /\ current' = t
    BY RunningThread
  <2>2. jump' # First /\ jump' # FromSleep /\ jump' # FromSignal /\ t # NoThread
    BY Jumps, IdleIsNoThread
  <2>3. \A u \in Threads : at'[u] = "leaving" <=> current' = u /\ jump' = FromExit
    BY <1>1, <2>1, RunningThread
  <2>4. QED  BY <2>1, <2>2, <2>3 DEF JumpInv
<1>5. RoutineInv'
  <2>1. at'[Idle] = at[Idle]
    BY <1>1
  <2>2. ASSUME NEW u \in Threads
        PROVE  /\ u \in Fibonacci \cup Pm => at'[u] \in {"start", "yield", "leaving", "exited"}
               /\ u \in Enroll => at'[u] # "yield"
               /\ u \in sleeping => at'[u] = "slept"
               /\ u \in Waiting => AtLock(u)'
    <3>1. CASE u = t
      BY <1>1, <3>1, RunningThread
    <3>2. CASE u # t
      BY <1>1, <3>2 DEF IInv, RoutineInv, AtLock
    <3>3. QED  BY <3>1, <3>2
  <2>3. UNCHANGED sleeping /\ sleeping \subseteq Threads /\ Waiting \subseteq Threads
    BY DEF IInv, TypeOK, queueVars, PlaceInv, Live
  <2>4. QED  BY <1>3, <2>1, <2>2, <2>3, RoutinesAreDisjoint DEF IInv, RoutineInv
<1>6. QED  BY <1>2, <1>3, <1>4, <1>5

(* The running thread moves between places where it has no lock.           *)
LEMMA MovesWithoutLock ==
    ASSUME IInv, NEW t \in Threads, NEW place, UNCHANGED rwlock,
           at' = [at EXCEPT ![t] = place],
           at[t] \notin {"reading", "enrolled"}, place \notin {"reading", "enrolled"}
    PROVE  LockIsHonest'
<1>1. at'[t] = place /\ \A u \in Threads : u # t => at'[u] = at[u]
  BY DEF IInv, TypeOK
<1>2. Readers' = Readers /\ Writers' = Writers
  BY <1>1 DEF Readers, Writers
<1>3. QED  BY <1>2, LocksSame

(* A turn sets three fields of the tcb.                                    *)
SetNumbers(c, i, f, g) == [c EXCEPT !.i = i, !.f_cur = f, !.f_prev = g]

LEMMA NumbersAreSet ==
    ASSUME NEW c \in Tcb, NEW i \in Nat, NEW f \in Int, NEW g \in Int
    PROVE  /\ SetNumbers(c, i, f, g) \in Tcb
           /\ SetNumbers(c, i, f, g).i = i
           /\ SetNumbers(c, i, f, g).f_cur = f
           /\ SetNumbers(c, i, f, g).f_prev = g
           /\ SetNumbers(c, i, f, g).waiting_for = c.waiting_for
           /\ SetNumbers(c, i, f, g).sleeping_time = c.sleeping_time
BY DEF Tcb, SetNumbers

LEMMA NextFibonacciSets ==
    ASSUME NEW c \in Tcb
    PROVE  /\ c.i \in Nat /\ c.i + 1 \in Nat /\ c.f_cur \in Int /\ c.f_cur + c.f_prev \in Int
           /\ NextFibonacci(c) = IF c.i + 1 <= 2 THEN SetNumbers(c, c.i + 1, 1, 1)
                                 ELSE SetNumbers(c, c.i + 1, c.f_cur + c.f_prev, c.f_cur)
BY DEF Tcb, NextFibonacci, SetNumbers

LEMMA NextPmSets ==
    ASSUME NEW c \in Tcb
    PROVE  /\ c.i \in Nat /\ c.i + 1 \in Nat /\ PmTerm(c.i + 1) + c.f_prev \in Int
           /\ NextPm(c) = IF c.i + 1 = 1 THEN SetNumbers(c, c.i + 1, 1, 1)
                          ELSE SetNumbers(c, c.i + 1, PmTerm(c.i + 1) + c.f_prev,
                                          PmTerm(c.i + 1) + c.f_prev)
<1>1. c.i \in Nat /\ c.i + 1 \in Nat /\ c.f_prev \in Int
  BY DEF Tcb
<1>2. PmTerm(c.i + 1) \in Int
  BY <1>1 DEF PmTerm
<1>3. NextPm(c) = IF c.i + 1 = 1 THEN SetNumbers(c, c.i + 1, 1, 1)
                  ELSE SetNumbers(c, c.i + 1, PmTerm(c.i + 1) + c.f_prev,
                                  PmTerm(c.i + 1) + c.f_prev)
  <2>1. CASE c.i + 1 = 1
    BY <1>1, <2>1 DEF NextPm, SetNumbers
  <2>2. CASE c.i + 1 # 1
    BY <1>1, <2>2 DEF NextPm, SetNumbers
  <2>3. QED  BY <2>1, <2>2
<1>4. QED  BY <1>1, <1>2, <1>3

LEMMA NextNumbers ==
    ASSUME NEW c \in Tcb
    PROVE  /\ NextFibonacci(c) \in Tcb /\ NextFibonacci(c).waiting_for = c.waiting_for
           /\ NextPm(c) \in Tcb /\ NextPm(c).waiting_for = c.waiting_for
<1>1. 1 \in Nat /\ 1 \in Int
  OBVIOUS
<1>2. NextFibonacci(c) \in Tcb /\ NextFibonacci(c).waiting_for = c.waiting_for
  BY <1>1, NextFibonacciSets, NumbersAreSet
<1>3. NextPm(c) \in Tcb /\ NextPm(c).waiting_for = c.waiting_for
  BY <1>1, NextPmSets, NumbersAreSet
<1>4. QED  BY <1>2, <1>3

LEMMA TurnStep ==
    ASSUME IInv, NEW t \in Fibonacci \cup Pm, NEW next \in Tcb, Turn(t, next)
    PROVE  IInv'
<1>1. t \in Threads /\ t \notin Enroll
  BY RoutinesAreDisjoint
<1>2. Runs(t) /\ at[t] \in {"start", "yield"}
  BY DEF Turn, GoesOn
<1>3. PICK place \in {"yield", "leaving"} :
        at' = [at EXCEPT ![t] = place] /\ jump' = IF place = "leaving" THEN FromExit ELSE NoJump
  <2>1. CASE next.i = Program[t].n
    BY <2>1 DEF Turn
  <2>2. CASE next.i # Program[t].n
    BY <1>1, <1>2, <2>2, RunningThread DEF Turn
  <2>3. QED  BY <2>1, <2>2
<1>4. /\ place \in Places \ {"exited"}
      /\ jump' \in {NoJump, FromLock, FromExit}
      /\ place = "leaving" <=> jump' = FromExit
      /\ jump' # FromLock
  BY <1>3, Jumps DEF Places, Yields
<1>5. tcb' \in [Threads -> Tcb] /\ \A u \in Threads : u # t => tcb'[u] = tcb[u]
  BY <1>1 DEF Turn, IInv, TypeOK
<1>6. UNCHANGED <<current, queueVars, program, rwlock, q_p, q_s>> /\ SecondPasses
  BY DEF Turn, seatVars
<1>7. rwlock' \in [read_count : Nat, write_count : 0..1] /\ q_p' \in Int /\ q_s' \in Int
  BY <1>6 DEF IInv, TypeOK
<1>8. TypeOK' /\ QueueInv' /\ PlaceInv' /\ JumpInv' /\ RoutineInv'
  BY <1>1, <1>2, <1>3, <1>4, <1>5, <1>6, <1>7, RunningStep
<1>9. LockIsHonest'
  BY <1>1, <1>2, <1>3, <1>6, MovesWithoutLock
<1>10. QED  BY <1>8, <1>9 DEF IInv

(* The places that enroll can be at when it runs.                          *)
LEMMA EnrollRuns ==
    ASSUME IInv, NEW t \in Threads, NEW place, GoesOn(t, place),
           place \in {"slept", "readLock", "reading", "choosing", "writeLock", "enrolled"}
    PROVE  /\ t \in Enroll /\ t \notin Fibonacci \cup Pm
           /\ Runs(t) /\ at[t] = place
           /\ tcb[t] \in Tcb
<1>1. at[t] = place /\ Runs(t) /\ tcb[t] \in Tcb
  BY DEF GoesOn, IInv, TypeOK
<1>2. t \notin Fibonacci \cup Pm
  BY <1>1 DEF IInv, RoutineInv
<1>3. QED  BY <1>1, <1>2, RoutinesAreDisjoint

LEMMA WaitStep ==
    ASSUME IInv, NEW t \in Threads, WaitToRead(t) \/ WaitToWrite(t)
    PROVE  IInv'
<1>1. PICK kind \in 1..2, place \in {"readLock", "writeLock"} :
        /\ WaitForLock(t, kind, place)
        /\ kind = 1 => place = "readLock" /\ rwlock.write_count > 0
        /\ kind = 2 => place = "writeLock" /\ ~MayWrite
  BY DEF WaitToRead, WaitToWrite
<1>2. /\ t \in Enroll /\ t \notin Fibonacci \cup Pm
      /\ Runs(t) /\ at[t] \in {"readLock", "choosing", "writeLock"}
      /\ tcb[t] \in Tcb
  <2>1. GoesOn(t, "readLock") \/ GoesOn(t, "choosing") \/ GoesOn(t, "writeLock")
    BY DEF WaitToRead, WaitToWrite, AtWriteLock
  <2>2. QED  BY <2>1, EnrollRuns
<1>3. /\ at' = [at EXCEPT ![t] = place]
      /\ tcb' = [tcb EXCEPT ![t].waiting_for = kind]
      /\ jump' = FromLock
      /\ UNCHANGED <<current, queueVars, program, rwlock, q_p, q_s, signalVars>>
  BY <1>1 DEF WaitForLock, seatVars
<1>4. /\ tcb' \in [Threads -> Tcb] /\ tcb'[t].waiting_for = kind
      /\ \A u \in Threads : u # t => tcb'[u] = tcb[u]
  <2>1. [tcb[t] EXCEPT !.waiting_for = kind] \in Tcb
    BY <1>2 DEF Tcb
  <2>2. [tcb[t] EXCEPT !.waiting_for = kind].waiting_for = kind
    BY <1>2 DEF Tcb
  <2>3. tcb' = [tcb EXCEPT ![t] = [tcb[t] EXCEPT !.waiting_for = kind]]
    BY <1>3
  <2>4. QED  BY <2>1, <2>2, <2>3 DEF IInv, TypeOK
<1>5. at'[t] = place
  BY <1>3 DEF IInv, TypeOK
<1>6. AtLock(t)' /\ ~LetsIn(t)'
  <2>1. AtLock(t)'
    BY <1>1, <1>4, <1>5 DEF AtLock
  <2>2. rwlock \in [read_count : Nat, write_count : 0..1]
    BY DEF IInv, TypeOK
  <2>3. ~LetsIn(t)'
    BY <1>1, <1>3, <1>4, <2>2 DEF LetsIn, MayWrite
  <2>4. QED  BY <2>1, <2>3
<1>7. place \in Places \ {"exited"} /\ place # "leaving" /\ place # "yield" /\ jump' # FromExit
  BY <1>3, Jumps DEF Places
<1>8. rwlock' \in [read_count : Nat, write_count : 0..1] /\ q_p' \in Int /\ q_s' \in Int
  BY <1>3 DEF IInv, TypeOK
<1>9. TypeOK' /\ QueueInv' /\ PlaceInv' /\ JumpInv' /\ RoutineInv'
  BY <1>2, <1>3, <1>4, <1>6, <1>7, <1>8, RunningStep
<1>10. LockIsHonest'
  BY <1>2, <1>3, MovesWithoutLock
<1>11. QED  BY <1>9, <1>10 DEF IInv

LEMMA LockCounts ==
    ASSUME IInv
    PROVE  /\ rwlock \in [read_count : Nat, write_count : 0..1]
           /\ rwlock.read_count = Cardinality(Readers)
           /\ rwlock.write_count = Cardinality(Writers)
           /\ rwlock.read_count = 0 <=> Readers = {}
           /\ rwlock.write_count = 0 <=> Writers = {}
           /\ Writers # {} => Readers = {} /\ Cardinality(Writers) = 1
BY ReadersAndWriters DEF IInv, TypeOK, LockIsHonest

LEMMA ReadLockStep ==
    ASSUME IInv, NEW t \in Threads, ReadLock(t)
    PROVE  IInv'
<1>1. GoesOn(t, "readLock") /\ rwlock.write_count = 0
  BY DEF ReadLock, ReadLockThen
<1>2. /\ t \in Enroll /\ t \notin Fibonacci \cup Pm
      /\ Runs(t) /\ at[t] = "readLock" /\ tcb[t] \in Tcb
  BY <1>1, EnrollRuns
<1>3. /\ at' = [at EXCEPT ![t] = "reading"]
      /\ tcb' = [tcb EXCEPT ![t].q_p = q_p, ![t].q_s = q_s]
      /\ rwlock' = [rwlock EXCEPT !.read_count = rwlock.read_count + 1]
      /\ UNCHANGED <<current, jump, queueVars, program, q_p, q_s>> /\ SecondPasses
  BY DEF ReadLock, ReadLockThen, seatVars
<1>4. tcb' \in [Threads -> Tcb] /\ \A u \in Threads : u # t => tcb'[u] = tcb[u]
  <2>1. [tcb[t] EXCEPT !.q_p = q_p, !.q_s = q_s] \in Tcb
    BY <1>2 DEF Tcb, IInv, TypeOK
  <2>2. tcb' = [tcb EXCEPT ![t] = [tcb[t] EXCEPT !.q_p = q_p, !.q_s = q_s]]
    BY <1>3 DEF IInv, TypeOK
  <2>3. QED  BY <2>1, <2>2 DEF IInv, TypeOK
<1>5. /\ rwlock' \in [read_count : Nat, write_count : 0..1]
      /\ rwlock'.read_count = rwlock.read_count + 1 /\ rwlock'.write_count = rwlock.write_count
  BY <1>3, LockCounts
<1>6. "reading" \in Places \ {"exited"} /\ jump' = NoJump
  BY <1>2, <1>3, RunningThread DEF Places, Yields
<1>7. q_p' \in Int /\ q_s' \in Int
  BY <1>3 DEF IInv, TypeOK
<1>8. TypeOK' /\ QueueInv' /\ PlaceInv' /\ JumpInv' /\ RoutineInv'
  BY <1>2, <1>3, <1>4, <1>5, <1>6, <1>7, Jumps, RunningStep
<1>9. LockIsHonest'
  <2>1. at'[t] = "reading" /\ \A u \in Threads : u # t => at'[u] = at[u]
    BY <1>3 DEF IInv, TypeOK
  <2>2. Readers' = Readers \cup {t} /\ Writers' = Writers /\ t \notin Readers
    BY <1>2, <2>1 DEF Readers, Writers
  <2>3. Writers = {}
    BY <1>1, LockCounts
  <2>4. Cardinality(Readers') = Cardinality(Readers) + 1
    BY <2>2, ReadersAndWriters, FS_AddElement
  <2>5. QED  BY <1>5, <2>2, <2>3, <2>4, LockCounts DEF LockIsHonest
<1>10. QED  BY <1>8, <1>9 DEF IInv

LEMMA ReadUnlockStep ==
    ASSUME IInv, NEW t \in Threads, ReadUnlock(t)
    PROVE  IInv'
<1> DEFINE p_p == Program[t].dp * tcb[t].q_p
           p_s == Program[t].ds * tcb[t].q_s
<1>1. GoesOn(t, "reading")
  BY DEF ReadUnlock
<1>2. /\ t \in Enroll /\ t \notin Fibonacci \cup Pm
      /\ Runs(t) /\ at[t] = "reading" /\ tcb[t] \in Tcb
  BY <1>1, EnrollRuns
<1>3. /\ at' = [at EXCEPT ![t] = "choosing"]
      /\ tcb' = [tcb EXCEPT ![t].p_p = p_p, ![t].p_s = p_s]
      /\ rwlock' = [rwlock EXCEPT !.read_count = rwlock.read_count - 1]
      /\ UNCHANGED <<current, jump, queueVars, program, q_p, q_s>> /\ SecondPasses
  BY DEF ReadUnlock, seatVars
<1>4. p_p \in Int /\ p_s \in Int
  BY <1>2, EnrollArguments DEF Tcb
<1> HIDE DEF p_p, p_s
<1>5. tcb' \in [Threads -> Tcb] /\ \A u \in Threads : u # t => tcb'[u] = tcb[u]
  <2>1. [tcb[t] EXCEPT !.p_p = p_p, !.p_s = p_s] \in Tcb
    BY <1>2, <1>4 DEF Tcb
  <2>2. tcb' = [tcb EXCEPT ![t] = [tcb[t] EXCEPT !.p_p = p_p, !.p_s = p_s]]
    BY <1>3 DEF IInv, TypeOK
  <2>3. QED  BY <2>1, <2>2 DEF IInv, TypeOK
<1>6. t \in Readers /\ Readers # {}
  BY <1>2 DEF Readers
<1>7. /\ rwlock' \in [read_count : Nat, write_count : 0..1]
      /\ rwlock'.read_count = rwlock.read_count - 1 /\ rwlock'.write_count = rwlock.write_count
  <2>1. rwlock.read_count - 1 \in Nat
    BY <1>6, LockCounts
  <2>2. QED  BY <1>3, <2>1, LockCounts
<1>8. "choosing" \in Places \ {"exited"} /\ jump' = NoJump
  BY <1>2, <1>3, RunningThread DEF Places, Yields
<1>9. q_p' \in Int /\ q_s' \in Int
  BY <1>3 DEF IInv, TypeOK
<1>10. TypeOK' /\ QueueInv' /\ PlaceInv' /\ JumpInv' /\ RoutineInv'
  BY <1>2, <1>3, <1>5, <1>7, <1>8, <1>9, Jumps, RunningStep
<1>11. LockIsHonest'
  <2>1. at'[t] = "choosing" /\ \A u \in Threads : u # t => at'[u] = at[u]
    BY <1>3 DEF IInv, TypeOK
  <2>2. Readers' = Readers \ {t} /\ Writers' = Writers
    BY <1>2, <2>1 DEF Readers, Writers
  <2>3. Writers = {}
    BY <1>6, LockCounts
  <2>4. Cardinality(Readers') = Cardinality(Readers) - 1
    BY <1>6, <2>2, ReadersAndWriters, FS_RemoveElement
  <2>5. QED  BY <1>7, <2>2, <2>3, <2>4, LockCounts DEF LockIsHonest
<1>12. QED  BY <1>10, <1>11 DEF IInv

LEMMA TakeSeatStep ==
    ASSUME IInv, NEW t \in Threads, TakeSeat(t)
    PROVE  IInv'
<1>1. (GoesOn(t, "choosing") \/ GoesOn(t, "writeLock")) /\ MayWrite
  BY DEF TakeSeat, AtWriteLock
<1>2. /\ t \in Enroll /\ t \notin Fibonacci \cup Pm
      /\ Runs(t) /\ at[t] \in {"choosing", "writeLock"}
  BY <1>1, EnrollRuns
<1>3. /\ at' = [at EXCEPT ![t] = "enrolled"]
      /\ rwlock' = [rwlock EXCEPT !.write_count = 1]
      /\ UNCHANGED <<current, jump, tcb, queueVars, program>> /\ SecondPasses
  BY DEF TakeSeat
<1>4. q_p' \in Int /\ q_s' \in Int
  <2>1. q_p \in Int /\ q_s \in Int
    BY DEF IInv, TypeOK
  <2>2. q_p' \in {q_p, q_p - 1} /\ q_s' \in {q_s, q_s - 1}
    BY DEF TakeSeat
  <2>3. QED  BY <2>1, <2>2
<1>5. /\ rwlock' \in [read_count : Nat, write_count : 0..1]
      /\ rwlock'.read_count = rwlock.read_count /\ rwlock'.write_count = 1
  BY <1>3, LockCounts
<1>6. "enrolled" \in Places \ {"exited"} /\ jump' = NoJump
  BY <1>2, <1>3, RunningThread DEF Places, Yields
<1>7. tcb' \in [Threads -> Tcb] /\ \A u \in Threads : tcb'[u] = tcb[u]
  BY <1>3 DEF IInv, TypeOK
<1>8. TypeOK' /\ QueueInv' /\ PlaceInv' /\ JumpInv' /\ RoutineInv'
  BY <1>2, <1>3, <1>4, <1>5, <1>6, <1>7, Jumps, RunningStep
<1>9. LockIsHonest'
  <2>1. at'[t] = "enrolled" /\ \A u \in Threads : u # t => at'[u] = at[u]
    BY <1>3 DEF IInv, TypeOK
  <2>2. Readers = {} /\ Writers = {}
    BY <1>1, LockCounts DEF MayWrite
  <2>3. Readers' = {} /\ Writers' = {t}
    BY <2>1, <2>2 DEF Readers, Writers
  <2>4. Cardinality(Writers') = 1 /\ Cardinality(Readers') = 0 /\ rwlock.read_count = 0
    BY <2>2, <2>3, FS_Singleton, FS_EmptySet, LockCounts
  <2>5. QED  BY <1>5, <2>3, <2>4 DEF LockIsHonest
<1>10. QED  BY <1>8, <1>9 DEF IInv

LEMMA LeaveStep ==
    ASSUME IInv, NEW t \in Threads, Leave(t)
    PROVE  IInv'
<1>1. GoesOn(t, "enrolled")
  BY DEF Leave
<1>2. /\ t \in Enroll /\ t \notin Fibonacci \cup Pm
      /\ Runs(t) /\ at[t] = "enrolled"
  BY <1>1, EnrollRuns
<1>3. /\ at' = [at EXCEPT ![t] = "leaving"]
      /\ jump' = FromExit
      /\ rwlock' = [rwlock EXCEPT !.write_count = rwlock.write_count - 1]
      /\ UNCHANGED <<current, tcb, queueVars, program, q_p, q_s>> /\ SecondPasses
  BY DEF Leave, seatVars
<1>4. Writers = {t} /\ Readers = {} /\ rwlock.write_count = 1
  <2>1. t \in Writers
    BY <1>2 DEF Writers
  <2>2. rwlock.write_count = 1 /\ Readers = {} /\ Cardinality(Writers) = 1
    BY <2>1, LockCounts
  <2>3. QED  BY <2>1, <2>2, ReadersAndWriters, FS_Singleton
<1>5. /\ rwlock' \in [read_count : Nat, write_count : 0..1]
      /\ rwlock'.read_count = rwlock.read_count /\ rwlock'.write_count = 0
  BY <1>3, <1>4, LockCounts
<1>6. "leaving" \in Places \ {"exited"} /\ "leaving" # "yield"
  BY DEF Places
<1>7. /\ tcb' \in [Threads -> Tcb] /\ \A u \in Threads : tcb'[u] = tcb[u]
      /\ q_p' \in Int /\ q_s' \in Int
  BY <1>3 DEF IInv, TypeOK
<1>8. TypeOK' /\ QueueInv' /\ PlaceInv' /\ JumpInv' /\ RoutineInv'
  BY <1>2, <1>3, <1>5, <1>6, <1>7, Jumps, RunningStep
<1>9. LockIsHonest'
  <2>1. at'[t] = "leaving" /\ \A u \in Threads : u # t => at'[u] = at[u]
    BY <1>3 DEF IInv, TypeOK
  <2>2. Readers' = {} /\ Writers' = {}
    BY <1>4, <2>1 DEF Readers, Writers
  <2>3. QED  BY <1>4, <1>5, <2>2, FS_EmptySet, LockCounts DEF LockIsHonest
<1>10. QED  BY <1>8, <1>9 DEF IInv

(* The thread goes to sleep: it is in sleeping_set when longjmp is called. *)
LEMMA SleepersFit ==
    ASSUME NEW S \in SUBSET Threads
    PROVE  IsFiniteSet(S) /\ Cardinality(S) \in 0..THREAD_MAX
<1>1. IsFiniteSet(S) /\ Cardinality(S) \in Nat /\ Cardinality(S) <= Cardinality(Threads)
  BY ThreadsAreFinite, FS_Subset, FS_CardinalityType
<1>2. QED  BY <1>1, ThreadsAreFinite, CapacityType

LEMMA SleepStep ==
    ASSUME IInv, NEW t \in Threads, Sleep(t)
    PROVE  IInv'
<1>1. t \in Enroll /\ t \notin Fibonacci \cup Pm /\ Runs(t) /\ at[t] = "start"
  BY RoutinesAreDisjoint DEF Sleep, GoesOn
<1>2. /\ at' = [at EXCEPT ![t] = "slept"]
      /\ tcb' = [tcb EXCEPT ![t].sleeping_time = Program[t].s]
      /\ sleeping' = sleeping \cup {t} /\ sleepingSize' = sleepingSize + 1
      /\ jump' = FromSleep
      /\ UNCHANGED <<current, ready, waiting, rwlock, q_p, q_s, signalVars, program>>
  BY DEF Sleep, seatVars
<1>3. /\ at' \in [Threads \cup {Idle} -> Places]
      /\ at'[t] = "slept" /\ at'[Idle] = at[Idle]
      /\ \A u \in Threads : u # t => at'[u] = at[u]
  BY <1>2, IdleIsNoThread DEF IInv, TypeOK, Places
<1>4. tcb' \in [Threads -> Tcb] /\ \A u \in Threads : tcb'[u].waiting_for = tcb[u].waiting_for
  <2>1. tcb[t] \in Tcb /\ Program[t].s \in Nat
    BY <1>1, EnrollArguments DEF IInv, TypeOK
  <2>2. /\ [tcb[t] EXCEPT !.sleeping_time = Program[t].s] \in Tcb
        /\ [tcb[t] EXCEPT !.sleeping_time = Program[t].s].waiting_for = tcb[t].waiting_for
    BY <2>1 DEF Tcb
  <2>3. tcb' = [tcb EXCEPT ![t] = [tcb[t] EXCEPT !.sleeping_time = Program[t].s]]
    BY <1>2
  <2>4. QED  BY <2>2, <2>3 DEF IInv, TypeOK
<1>5. t \notin sleeping /\ t \notin Ready /\ t \notin Waiting /\ Running = {t} /\ t \in Live
      /\ current = t /\ program = "running" /\ \A u \in Threads : at[u] # "leaving"
  BY <1>1, RunningThread
<1>6. sleeping' \subseteq Threads /\ sleepingSize' = Cardinality(sleeping') /\ sleepingSize' \in 0..THREAD_MAX
  <2>1. sleeping' \in SUBSET Threads /\ IsFiniteSet(sleeping) /\ sleepingSize = Cardinality(sleeping)
    BY <1>2, SleepersFit DEF IInv, TypeOK, PlaceInv
  <2>2. Cardinality(sleeping') = Cardinality(sleeping) + 1
    BY <1>2, <1>5, <2>1, FS_AddElement
  <2>3. QED  BY <1>2, <2>1, <2>2, SleepersFit
<1>7. TypeOK'
  <2>1. rwlock' \in [read_count : Nat, write_count : 0..1] /\ q_p' \in Int /\ q_s' \in Int
    BY <1>2 DEF IInv, TypeOK
  <2>2. current' \in Threads \cup {Idle, NoThread} /\ program' \in {"running", "returned", "fallen"}
        /\ ready' \in RingOf(Threads) /\ waiting' \in RingOf(Threads)
    BY <1>2 DEF IInv, TypeOK
  <2>3. QED  BY <1>2, <1>3, <1>4, <1>6, <2>1, <2>2, SignalTypes DEF TypeOK
<1>8. QueueInv' /\ Ready' = Ready /\ Waiting' = Waiting
  BY <1>2 DEF IInv, QueueInv, Ready, Waiting
<1>9. PlaceInv'
  <2>1. Running' = {}
    BY <1>2 DEF Running
  <2>2. Live' = Live
    BY <1>1, <1>3 DEF Live
  <2>3. QED  BY <1>2, <1>5, <1>6, <1>8, <2>1, <2>2 DEF IInv, PlaceInv
<1>10. JumpInv'
  <2>1. current' = t /\ jump' = FromSleep /\ program' = "running" /\ t # NoThread /\ t \in sleeping'
    BY <1>2, <1>5, IdleIsNoThread
  <2>2. \A u \in Threads : at'[u] # "leaving"
    BY <1>3, <1>5
  <2>3. QED  BY <2>1, <2>2, Jumps DEF JumpInv
<1>11. RoutineInv'
  <2>1. ASSUME NEW u \in Threads
        PROVE  /\ u \in Fibonacci \cup Pm => at'[u] \in {"start", "yield", "leaving", "exited"}
               /\ u \in Enroll => at'[u] # "yield"
               /\ u \in sleeping' => at'[u] = "slept"
               /\ u \in Waiting => AtLock(u)'
    <3>1. CASE u = t
      BY <1>1, <1>3, <1>5, <3>1
    <3>2. CASE u # t
      BY <1>2, <1>3, <1>4, <3>2 DEF IInv, RoutineInv, AtLock
    <3>3. QED  BY <3>1, <3>2
  <2>2. Waiting \subseteq Threads
    BY DEF IInv, PlaceInv, Live
  <2>3. QED  BY <1>3, <1>6, <1>8, <2>1, <2>2, RoutinesAreDisjoint DEF IInv, RoutineInv
<1>12. LockIsHonest'
  BY <1>1, <1>2, MovesWithoutLock
<1>13. QED  BY <1>7, <1>8, <1>9, <1>10, <1>11, <1>12 DEF IInv

-----------------------------------------------------------------------------
(* The queues, when what is pushed is in no queue.                         *)

LEMMA PushThreads ==
    ASSUME NEW q \in RingOf(Threads), Contents(q) \in Seq(Threads), IsInjective(Contents(q)),
           NEW s \in Seq(Threads), IsInjective(s), Range(Contents(q)) \cap Range(s) = {}
    PROVE  /\ PushAll(q, s) \in RingOf(Threads)
           /\ Contents(PushAll(q, s)) = Contents(q) \o s
           /\ Contents(PushAll(q, s)) \in Seq(Threads)
           /\ IsInjective(Contents(PushAll(q, s)))
           /\ Range(Contents(PushAll(q, s))) = Range(Contents(q)) \cup Range(s)
           /\ PushAll(q, s).size = q.size + Len(s)
<1> DEFINE c == Contents(q)
<1>1. Len(c) = q.size
  BY ContentsType
<1> HIDE DEF c
<1>2. c \o s \in Seq(Threads) /\ IsInjective(c \o s) /\ Range(c \o s) = Range(c) \cup Range(s)
  BY ConcatInjective DEF c
<1>3. Len(c \o s) = q.size + Len(s)
  BY <1>1 DEF c
<1>4. q.size + Len(s) <= THREAD_MAX
  <2>1. Len(c \o s) < THREAD_MAX
    BY <1>2, QueueFits
  <2>2. q.size \in Nat /\ Len(s) \in Nat
    BY RingFields
  <2>3. QED  BY <1>3, <2>1, <2>2, CapacityType
<1>5. /\ PushAll(q, s) \in RingOf(Threads)
      /\ PushAll(q, s).size = q.size + Len(s)
      /\ Contents(PushAll(q, s)) = c \o s
  BY <1>4, PushAllContents DEF c
<1>6. QED  BY <1>2, <1>5 DEF c

LEMMA DropThreads ==
    ASSUME NEW q \in RingOf(Threads), Contents(q) \in Seq(Threads), IsInjective(Contents(q)),
           NEW n \in 0..q.size
    PROVE  /\ Drop(q, n) \in RingOf(Threads)
           /\ Drop(q, n).size = q.size - n
           /\ Contents(Drop(q, n)) = SubSeq(Contents(q), n + 1, q.size)
           /\ Contents(Drop(q, n)) \in Seq(Threads)
           /\ IsInjective(Contents(Drop(q, n)))
           /\ SubSeq(Contents(q), 1, n) \in Seq(Threads)
           /\ IsInjective(SubSeq(Contents(q), 1, n))
           /\ Range(SubSeq(Contents(q), 1, n)) \cap Range(Contents(Drop(q, n))) = {}
           /\ Range(SubSeq(Contents(q), 1, n)) \cup Range(Contents(Drop(q, n))) = Range(Contents(q))
<1> DEFINE c == Contents(q)
<1>1. Len(c) = q.size
  BY ContentsType
<1>2. /\ Drop(q, n) \in RingOf(Threads)
      /\ Drop(q, n).size = q.size - n
      /\ Contents(Drop(q, n)) = SubSeq(c, n + 1, q.size)
  BY DropContents
<1>3. c \in Seq(Threads) /\ IsInjective(c)
  OBVIOUS
<1> HIDE DEF c
<1>4. /\ SubSeq(c, 1, n) \in Seq(Threads)
      /\ SubSeq(c, n + 1, q.size) \in Seq(Threads)
      /\ IsInjective(SubSeq(c, 1, n))
      /\ IsInjective(SubSeq(c, n + 1, q.size))
      /\ Range(SubSeq(c, 1, n)) \cap Range(SubSeq(c, n + 1, q.size)) = {}
      /\ Range(SubSeq(c, 1, n)) \cup Range(SubSeq(c, n + 1, q.size)) = Range(c)
  BY <1>1, <1>3, CutInjective
<1>5. QED  BY <1>2, <1>4 DEF c

-----------------------------------------------------------------------------
(* A thread wakes its friend, which leaves sleeping_set for ready_queue.   *)
LEMMA AwakeStep ==
    ASSUME IInv, NEW t \in Threads, Awake(t)
    PROVE  IInv'
<1> DEFINE b == Program[t].b
<1>1. GoesOn(t, "slept")
  BY DEF Awake
<1>2. /\ t \in Enroll /\ t \notin Fibonacci \cup Pm
      /\ Runs(t) /\ at[t] = "slept" /\ tcb[t] \in Tcb
  BY <1>1, EnrollRuns
<1>3. /\ at' = [at EXCEPT ![t] = "readLock"]
      /\ UNCHANGED <<current, jump, waiting, rwlock, q_p, q_s, signalVars, program>>
  BY DEF Awake, seatVars
<1>4. "readLock" \in Places \ {"exited"} /\ jump' = NoJump
  BY <1>2, <1>3, RunningThread DEF Places
<1>5. rwlock' \in [read_count : Nat, write_count : 0..1] /\ q_p' \in Int /\ q_s' \in Int
  BY <1>3 DEF IInv, TypeOK
<1>6. LockIsHonest'
  BY <1>2, <1>3, MovesWithoutLock
<1>7. CASE b \notin sleeping
  <2>1. UNCHANGED <<tcb, ready, sleeping, sleepingSize>>
    BY <1>7 DEF Awake
  <2>2. tcb' \in [Threads -> Tcb] /\ \A u \in Threads : tcb'[u] = tcb[u]
    BY <2>1 DEF IInv, TypeOK
  <2>3. UNCHANGED queueVars
    BY <1>3, <2>1 DEF queueVars
  <2>4. TypeOK' /\ QueueInv' /\ PlaceInv' /\ JumpInv' /\ RoutineInv'
    BY <1>2, <1>3, <1>4, <1>5, <2>2, <2>3, Jumps, RunningStep
  <2>5. QED  BY <1>6, <2>4 DEF IInv
<1>8. CASE b \in sleeping
  <2>1. /\ tcb' = [tcb EXCEPT ![b].sleeping_time = 0]
        /\ ready' = Push(ready, b)
        /\ sleeping' = sleeping \ {b}
        /\ sleepingSize' = sleepingSize - 1
    BY <1>8 DEF Awake
  <2> HIDE DEF b
  <2>2. /\ t \notin sleeping /\ t \notin Ready /\ t \notin Waiting /\ Running = {t} /\ t \in Live
        /\ current = t /\ jump = NoJump /\ program = "running" /\ \A u \in Threads : at[u] # "leaving"
    BY <1>2, RunningThread
  <2>3. b \in Threads /\ b # t /\ at[b] = "slept" /\ b \in Live /\ b \notin Ready /\ b \notin Waiting
    BY <1>8, <2>2 DEF IInv, TypeOK, PlaceInv, RoutineInv
  <2>4. /\ at' \in [Threads \cup {Idle} -> Places]
        /\ at'[t] = "readLock" /\ at'[Idle] = at[Idle]
        /\ \A u \in Threads : u # t => at'[u] = at[u]
    BY <1>3, <1>4, IdleIsNoThread DEF IInv, TypeOK
  <2>5. tcb' \in [Threads -> Tcb] /\ \A u \in Threads : tcb'[u].waiting_for = tcb[u].waiting_for
    <3>1. tcb[b] \in Tcb /\ 0 \in Nat
      BY <2>3 DEF IInv, TypeOK
    <3>2. /\ [tcb[b] EXCEPT !.sleeping_time = 0] \in Tcb
          /\ [tcb[b] EXCEPT !.sleeping_time = 0].waiting_for = tcb[b].waiting_for
      BY <3>1 DEF Tcb
    <3>3. tcb' = [tcb EXCEPT ![b] = [tcb[b] EXCEPT !.sleeping_time = 0]]
      BY <2>1
    <3>4. QED  BY <2>3, <3>2, <3>3 DEF IInv, TypeOK
  <2>6. /\ ready' \in RingOf(Threads)
        /\ Contents(ready') \in Seq(Threads)
        /\ IsInjective(Contents(ready'))
        /\ Range(Contents(ready')) = Ready \cup {b}
    <3>1. ready \in RingOf(Threads) /\ Contents(ready) \in Seq(Threads) /\ IsInjective(Contents(ready))
      BY DEF IInv, TypeOK, QueueInv
    <3>2. ready.size < THREAD_MAX
      BY <3>1, ContentsType, QueueFits
    <3>3. ready' = PushAll(ready, <<b>>)
      BY <2>1, <2>3, <3>1, <3>2, PushIsPushAll
    <3>4. <<b>> \in Seq(Threads) /\ IsInjective(<<b>>) /\ Range(<<b>>) = {b}
      BY <2>3, OneElement
    <3>5. Range(Contents(ready)) \cap Range(<<b>>) = {}
      BY <2>3, <3>4 DEF Ready
    <3>6. QED  BY <3>1, <3>3, <3>4, <3>5, PushThreads DEF Ready
  <2>7. sleeping' \subseteq Threads /\ sleepingSize' = Cardinality(sleeping') /\ sleepingSize' \in 0..THREAD_MAX
    <3>1. sleeping' \in SUBSET Threads /\ IsFiniteSet(sleeping) /\ sleepingSize = Cardinality(sleeping)
      BY <2>1, SleepersFit DEF IInv, TypeOK, PlaceInv
    <3>2. Cardinality(sleeping') = Cardinality(sleeping) - 1
      BY <1>8, <2>1, <3>1, FS_RemoveElement DEF b
    <3>3. QED  BY <2>1, <3>1, <3>2, SleepersFit
  <2>8. TypeOK'
    <3>1. current' \in Threads \cup {Idle, NoThread} /\ program' \in {"running", "returned", "fallen"}
          /\ waiting' \in RingOf(Threads)
      BY <1>3 DEF IInv, TypeOK
    <3>2. QED  BY <1>3, <1>4, <1>5, <2>4, <2>5, <2>6, <2>7, <3>1, SignalTypes DEF TypeOK
  <2>9. QueueInv' /\ Ready' = Ready \cup {b} /\ Waiting' = Waiting
    BY <1>3, <2>6 DEF IInv, QueueInv, Ready, Waiting
  <2>10. PlaceInv'
    <3>1. Running' = Running
      BY <1>3 DEF Running
    <3>2. Live' = Live
      BY <1>2, <2>4 DEF Live
    <3>3. QED  BY <1>8, <2>1, <2>2, <2>3, <2>7, <2>9, <3>1, <3>2 DEF IInv, PlaceInv, b
  <2>11. JumpInv'
    <3>1. current' = t /\ jump' = NoJump /\ program' = "running" /\ t # NoThread
      BY <1>3, <2>2, IdleIsNoThread
    <3>2. \A u \in Threads : at'[u] # "leaving"
      BY <2>2, <2>4
    <3>3. QED  BY <3>1, <3>2, Jumps DEF JumpInv
  <2>12. RoutineInv'
    <3>1. ASSUME NEW u \in Threads
          PROVE  /\ u \in Fibonacci \cup Pm => at'[u] \in {"start", "yield", "leaving", "exited"}
                 /\ u \in Enroll => at'[u] # "yield"
                 /\ u \in sleeping' => at'[u] = "slept"
                 /\ u \in Waiting => AtLock(u)'
      <4>1. CASE u = t
        BY <1>2, <2>1, <2>2, <2>4, <4>1
      <4>2. CASE u # t
        BY <2>1, <2>4, <2>5, <4>2 DEF IInv, RoutineInv, AtLock
      <4>3. QED  BY <4>1, <4>2
    <3>2. Waiting \subseteq Threads
      BY DEF IInv, PlaceInv, Live
    <3>3. QED  BY <2>4, <2>7, <2>9, <3>1, <3>2, RoutinesAreDisjoint DEF IInv, RoutineInv
  <2>13. QED  BY <1>6, <2>8, <2>9, <2>10, <2>11, <2>12 DEF IInv
<1>9. QED  BY <1>7, <1>8

-----------------------------------------------------------------------------
(* Signals, and the idle thread.                                           *)

(* A thread, or idle, yields to a signal: every sleeper has slept on.      *)
LEMMA SleptOnType ==
    ASSUME NEW time \in Nat
    PROVE  SleptOn(time) \in Nat
BY ProgramAssumption DEF SleptOn

LEMMA HandlerTcb ==
    ASSUME IInv, NEW t \in Threads \cup {Idle}, YieldToSignal(t)
    PROVE  /\ tcb' \in [Threads -> Tcb]
           /\ \A u \in Threads : tcb'[u].waiting_for = tcb[u].waiting_for
<1>1. ASSUME NEW u \in Threads
      PROVE  tcb'[u] \in Tcb /\ tcb'[u].waiting_for = tcb[u].waiting_for
  <2>1. tcb[u] \in Tcb
    BY DEF IInv, TypeOK
  <2>2. CASE u \notin sleeping
    BY <2>1, <2>2 DEF YieldToSignal
  <2>3. CASE u \in sleeping
    <3> DEFINE left == SleptOn(tcb[u].sleeping_time)
    <3>1. tcb[u].sleeping_time \in Nat
      BY <2>1 DEF Tcb
    <3>2. left \in Nat
      BY <3>1, SleptOnType
    <3>3. tcb'[u] = [tcb[u] EXCEPT !.sleeping_time = left]
      BY <2>3 DEF YieldToSignal
    <3> HIDE DEF left
    <3>4. QED  BY <2>1, <3>2, <3>3 DEF Tcb
  <2>4. QED  BY <2>2, <2>3
<1>2. tcb' = [u \in Threads |-> tcb'[u]]
  BY DEF YieldToSignal
<1>3. QED  BY <1>1, <1>2

LEMMA YieldToSignalStep ==
    ASSUME IInv, NEW t \in Threads \cup {Idle}, YieldToSignal(t)
    PROVE  IInv'
<1>1. /\ program = "running" /\ jump = NoJump /\ current = t /\ at[t] \in Yields
      /\ jump' = FromSignal /\ pending' \subseteq pending
      /\ UNCHANGED <<current, at, queueVars, rwlock, q_p, q_s, alarm, tstps, program>>
  BY DEF YieldToSignal, Runs, seatVars
<1>2. TypeOK'
  <2>1. /\ current' \in Threads \cup {Idle, NoThread}
        /\ at' \in [Threads \cup {Idle} -> Places]
        /\ ready' \in RingOf(Threads) /\ waiting' \in RingOf(Threads)
        /\ sleeping' \subseteq Threads /\ sleepingSize' \in 0..THREAD_MAX
        /\ rwlock' \in [read_count : Nat, write_count : 0..1]
        /\ q_p' \in Int /\ q_s' \in Int
        /\ alarm' \in 0..TimeSlice /\ tstps' \in 0..MaxTstp
        /\ pending' \subseteq {"SIGTSTP", "SIGALRM"}
        /\ program' \in {"running", "returned", "fallen"}
    BY <1>1 DEF IInv, TypeOK, queueVars
  <2>2. QED  BY <1>1, <2>1, HandlerTcb DEF TypeOK
<1>3. QueueInv' /\ PlaceInv' /\ Waiting' = Waiting
  <2>1. Running' = Running /\ Live' = Live
    BY <1>1, Jumps DEF Running, Live
  <2>2. QED  BY <1>1, <2>1, QueuesSame
<1>4. JumpInv'
  <2>1. t # NoThread
    BY IdleIsNoThread
  <2>2. \A u \in Threads : at[u] # "leaving"
    BY <1>1, Jumps DEF IInv, JumpInv
  <2>3. QED  BY <1>1, <2>1, <2>2, Jumps DEF JumpInv
<1>5. RoutineInv'
  <2>1. UNCHANGED <<at, sleeping>>
    BY <1>1 DEF queueVars
  <2>2. Waiting \subseteq Threads
    BY DEF IInv, PlaceInv, Live
  <2>3. \A u \in Waiting : AtLock(u)'
    BY <2>1, <2>2, HandlerTcb DEF AtLock, IInv, RoutineInv
  <2>4. QED  BY <1>3, <2>1, <2>3 DEF IInv, RoutineInv
<1>6. LockIsHonest'
  <2>1. Readers' = Readers /\ Writers' = Writers
    BY <1>1 DEF Readers, Writers
  <2>2. QED  BY <1>1, <2>1, LocksSame
<1>7. QED  BY <1>2, <1>3, <1>4, <1>5, <1>6 DEF IInv

(* Steps that leave the threads and the lock alone.                        *)
LEMMA ThreadsStay ==
    ASSUME IInv, UNCHANGED <<current, jump, tcb, queueVars, rwlock, seatVars>>,
           at' \in [Threads \cup {Idle} -> Places], at'[Idle] \in {"start", "yield"},
           \A u \in Threads : at'[u] = at[u],
           program' = program \/ (program' = "fallen" /\ program = "running" /\ jump = NoJump),
           alarm' \in 0..TimeSlice, pending' \subseteq {"SIGTSTP", "SIGALRM"}, tstps' \in 0..MaxTstp
    PROVE  IInv'
<1>1. TypeOK'
  <2>1. program' \in {"running", "returned", "fallen"}
    BY DEF IInv, TypeOK
  <2>2. QED  BY <2>1 DEF IInv, TypeOK, queueVars, seatVars
<1>2. QueueInv' /\ PlaceInv' /\ Waiting' = Waiting
  <2>1. Running' = Running /\ Live' = Live
    BY DEF Running, Live
  <2>2. QED  BY <2>1, QueuesSame
<1>3. Waiting \subseteq Threads /\ sleeping \subseteq Threads
  BY DEF IInv, TypeOK, PlaceInv, Live
<1>4. JumpInv'
  <2>1. /\ program' # "running" => jump = NoJump
        /\ program' = "returned" <=> program = "returned"
    BY DEF IInv, JumpInv
  <2>2. \A u \in Threads : at'[u] = "leaving" <=> current = u /\ jump = FromExit
    BY DEF IInv, JumpInv
  <2>3. jump = FromLock => current \in Threads /\ AtLock(current)' /\ ~LetsIn(current)'
    BY DEF IInv, JumpInv, AtLock, LetsIn
  <2>4. QED  BY <2>1, <2>2, <2>3 DEF IInv, JumpInv, queueVars
<1>5. RoutineInv'
  BY <1>2, <1>3, RoutinesAreDisjoint DEF IInv, RoutineInv, AtLock, queueVars
<1>6. LockIsHonest'
  <2>1. Readers' = Readers /\ Writers' = Writers
    BY DEF Readers, Writers
  <2>2. QED  BY <2>1, LocksSame
<1>7. QED  BY <1>1, <1>2, <1>4, <1>5, <1>6 DEF IInv

LEMMA IdleStep ==
    ASSUME IInv, IdleNap \/ IdleFalls
    PROVE  IInv'
<1>1. CASE IdleNap
  <2>1. /\ at' = [at EXCEPT ![Idle] = "yield"] /\ SecondPasses
        /\ UNCHANGED <<current, jump, tcb, queueVars, rwlock, seatVars, program>>
    BY <1>1 DEF IdleNap
  <2>2. /\ at' \in [Threads \cup {Idle} -> Places] /\ at'[Idle] = "yield"
        /\ \A u \in Threads : at'[u] = at[u]
    BY <2>1, IdleIsNoThread DEF IInv, TypeOK, Places, Yields
  <2>3. alarm' \in 0..TimeSlice /\ pending' \subseteq {"SIGTSTP", "SIGALRM"} /\ tstps' \in 0..MaxTstp
    BY <2>1, SignalTypes
  <2>4. QED  BY <2>1, <2>2, <2>3, ThreadsStay
<1>2. CASE IdleFalls
  <2>1. /\ program' = "fallen" /\ program = "running" /\ jump = NoJump
        /\ UNCHANGED <<current, jump, at, tcb, queueVars, rwlock, seatVars, signalVars>>
    BY <1>2 DEF IdleFalls, GoesOn, Runs
  <2>2. /\ at' \in [Threads \cup {Idle} -> Places] /\ at'[Idle] \in {"start", "yield"}
        /\ \A u \in Threads : at'[u] = at[u]
    BY <2>1 DEF IInv, TypeOK, RoutineInv
  <2>3. alarm' \in 0..TimeSlice /\ pending' \subseteq {"SIGTSTP", "SIGALRM"} /\ tstps' \in 0..MaxTstp
    BY <2>1, SignalTypes
  <2>4. QED  BY <2>1, <2>2, <2>3, ThreadsStay
<1>3. QED  BY <1>1, <1>2

LEMMA OutsideStep ==
    ASSUME IInv, Tstp \/ UNCHANGED vars
    PROVE  IInv'
<1>1. UNCHANGED <<current, jump, at, tcb, queueVars, rwlock, seatVars, alarm, program>>
  BY DEF Tstp, vars, signalVars
<1>2. /\ at' \in [Threads \cup {Idle} -> Places] /\ at'[Idle] \in {"start", "yield"}
      /\ \A u \in Threads : at'[u] = at[u]
  BY <1>1 DEF IInv, TypeOK, RoutineInv
<1>3. alarm' \in 0..TimeSlice /\ pending' \subseteq {"SIGTSTP", "SIGALRM"} /\ tstps' \in 0..MaxTstp
  <2>1. alarm \in 0..TimeSlice /\ pending \subseteq {"SIGTSTP", "SIGALRM"} /\ tstps \in 0..MaxTstp /\ MaxTstp \in Nat
    BY ProgramAssumption DEF IInv, TypeOK
  <2>2. CASE Tstp
    BY <2>1, <2>2 DEF Tstp
  <2>3. CASE UNCHANGED vars
    BY <2>1, <2>3 DEF vars, signalVars
  <2>4. QED  BY <2>2, <2>3
<1>4. QED  BY <1>1, <1>2, <1>3, ThreadsStay

-----------------------------------------------------------------------------
(* The scheduler.  What it passes to Select: the queue r, which with the   *)
(* new waiting queue holds all that were ready or waiting, that are due,   *)
(* or that ran and have not exited; and the first that waits is blocked.   *)
Exiting == IF jump = FromExit THEN {current} ELSE {}

Passed(r) ==
    /\ r \in RingOf(Threads)
    /\ Contents(r) \in Seq(Threads)
    /\ IsInjective(Contents(r))
    /\ waiting' \in RingOf(Threads)
    /\ Contents(waiting') \in Seq(Threads)
    /\ IsInjective(Contents(waiting'))
    /\ Range(Contents(r)) \cup Waiting' = Ready \cup Waiting \cup Due \cup (Running \ Exiting)
    /\ Range(Contents(r)) \cap Waiting' = {}
    /\ \A t \in Waiting' : t \in Waiting \/ (t = current /\ jump = FromLock)
    /\ waiting'.size > 0 => AtHead(waiting') \in Waiting' /\ ~LetsIn(AtHead(waiting'))
    /\ Select(r)

(* Where the thread that ran goes back to.                                 *)
LEMMA Back ==
    ASSUME IInv, Scheduler
    PROVE  /\ BackToReady \in Seq(Threads) /\ IsInjective(BackToReady)
           /\ BackToWaiting \in Seq(Threads) /\ IsInjective(BackToWaiting)
           /\ Len(BackToWaiting) \in Nat
           /\ Range(BackToReady) \cap Range(BackToWaiting) = {}
           /\ Range(BackToReady) \cup Range(BackToWaiting) = Running \ Exiting
           /\ \A t \in Range(BackToWaiting) : t = current /\ jump = FromLock
           /\ jump = FromLock => BackToWaiting = <<current>> /\ ~LetsIn(current)
           /\ jump # FromLock => BackToWaiting = <<>>
           /\ Exiting \subseteq Running
<1>1. /\ jump \in {First, FromSignal, FromLock, FromSleep, FromExit}
      /\ current \in Threads \cup {Idle, NoThread}
      /\ current = NoThread <=> jump = First
      /\ jump = FromLock => current \in Threads /\ ~LetsIn(current)
      /\ jump = FromExit => current \in Threads
  BY DEF Scheduler, IInv, TypeOK, JumpInv
<1>2. <<>> \in Seq(Threads) /\ Len(<<>>) \in Nat /\ IsInjective(<<>>) /\ Range(<<>>) = {}
  BY EmptySequence
<1>3. current \in Threads => /\ <<current>> \in Seq(Threads) /\ Len(<<current>>) \in Nat
                             /\ IsInjective(<<current>>) /\ Range(<<current>>) = {current}
  BY OneElement
<1>4. CASE jump = FromSignal /\ current \in Threads
  <2>1. BackToReady = <<current>> /\ BackToWaiting = <<>> /\ Exiting = {} /\ Running = {current}
    BY <1>4, Jumps, IdleIsNoThread DEF BackToReady, BackToWaiting, Exiting, Running
  <2>2. QED  BY <1>2, <1>3, <1>4, <2>1, Jumps
<1>5. CASE jump = FromLock
  <2>1. BackToReady = <<>> /\ BackToWaiting = <<current>> /\ Exiting = {} /\ Running = {current}
    BY <1>1, <1>5, Jumps DEF BackToReady, BackToWaiting, Exiting, Running
  <2>2. QED  BY <1>1, <1>2, <1>3, <1>5, <2>1, Jumps
<1>6. CASE jump = FromExit
  <2>1. BackToReady = <<>> /\ BackToWaiting = <<>> /\ Exiting = {current} /\ Running = {current}
    BY <1>1, <1>6, Jumps DEF BackToReady, BackToWaiting, Exiting, Running
  <2>2. QED  BY <1>2, <1>6, <2>1, Jumps
<1>7. CASE jump \in {First, FromSleep} \/ (jump = FromSignal /\ current = Idle)
  <2>1. BackToReady = <<>> /\ BackToWaiting = <<>> /\ Exiting = {} /\ Running = {}
    BY <1>1, <1>7, Jumps, IdleIsNoThread DEF BackToReady, BackToWaiting, Exiting, Running
  <2>2. jump # FromLock
    BY <1>7, Jumps
  <2>3. QED  BY <1>2, <2>1, <2>2
<1>8. QED  BY <1>1, <1>4, <1>5, <1>6, <1>7, Jumps

LEMMA SchedulerPasses ==
    ASSUME IInv, Scheduler
    PROVE  \E r : Passed(r)
<1>1. PICK n \in 0..waiting.size :
        /\ Admits(n)
        /\ waiting' = PushAll(Drop(waiting, n), BackToWaiting)
        /\ Select(PushAll(ready, ById(Due) \o SubSeq(Contents(waiting), 1, n) \o BackToReady))
  BY DEF Scheduler
<1> DEFINE in == SubSeq(Contents(waiting), 1, n)
           left == Drop(waiting, n)
           moved == ById(Due) \o in \o BackToReady
           r == PushAll(ready, moved)
<1>2. /\ ready \in RingOf(Threads) /\ Contents(ready) \in Seq(Threads) /\ IsInjective(Contents(ready))
      /\ waiting \in RingOf(Threads) /\ Contents(waiting) \in Seq(Threads) /\ IsInjective(Contents(waiting))
  BY DEF IInv, TypeOK, QueueInv
<1>3. /\ left \in RingOf(Threads) /\ left.size = waiting.size - n
      /\ Contents(left) = SubSeq(Contents(waiting), n + 1, waiting.size)
      /\ Contents(left) \in Seq(Threads) /\ IsInjective(Contents(left))
      /\ in \in Seq(Threads) /\ IsInjective(in)
      /\ Range(in) \cap Range(Contents(left)) = {}
      /\ Range(in) \cup Range(Contents(left)) = Waiting
  BY <1>2, DropThreads DEF Waiting
<1>4. /\ ById(Due) \in Seq(Threads) /\ IsInjective(ById(Due)) /\ Range(ById(Due)) = Due
      /\ Due \subseteq sleeping
  <2>1. Due \in SUBSET Threads /\ Due \subseteq sleeping
    BY DEF Due, IInv, TypeOK
  <2>2. QED  BY <2>1, ByIdIsTheSet
<1>5. /\ Running \cap (sleeping \cup Ready \cup Waiting) = {}
      /\ sleeping \cap (Ready \cup Waiting) = {}
      /\ Ready \cap Waiting = {}
  BY DEF IInv, PlaceInv
<1> HIDE DEF in, left
<1>6. /\ ById(Due) \o in \in Seq(Threads) /\ IsInjective(ById(Due) \o in)
      /\ Range(ById(Due) \o in) = Due \cup Range(in)
  <2>1. Range(ById(Due)) \cap Range(in) = {}
    BY <1>3, <1>4, <1>5
  <2>2. QED  BY <1>3, <1>4, <2>1, ConcatInjective
<1>7. moved \in Seq(Threads) /\ IsInjective(moved)
      /\ Range(moved) = Due \cup Range(in) \cup Range(BackToReady)
  <2>1. Range(BackToReady) \subseteq Running
    BY Back
  <2>2. Range(ById(Due) \o in) \cap Range(BackToReady) = {}
    BY <1>3, <1>4, <1>5, <1>6, <2>1
  <2> DEFINE first == ById(Due) \o in
  <2>3. first \in Seq(Threads) /\ IsInjective(first) /\ Range(first) = Due \cup Range(in)
        /\ Range(first) \cap Range(BackToReady) = {}
    BY <1>6, <2>2
  <2>4. moved = first \o BackToReady
    OBVIOUS
  <2> HIDE DEF first, moved
  <2>5. QED  BY <2>3, <2>4, Back, ConcatInjective
<1> HIDE DEF moved
<1>8. /\ r \in RingOf(Threads) /\ Contents(r) \in Seq(Threads) /\ IsInjective(Contents(r))
      /\ Range(Contents(r)) = Ready \cup Due \cup Range(in) \cup Range(BackToReady)
  <2>1. Range(BackToReady) \subseteq Running
    BY Back
  <2>2. Range(Contents(ready)) \cap Range(moved) = {}
    BY <1>3, <1>4, <1>5, <1>7, <2>1 DEF Ready
  <2>3. QED  BY <1>2, <1>7, <2>2, PushThreads DEF Ready
<1>9. /\ waiting' \in RingOf(Threads) /\ Contents(waiting') \in Seq(Threads)
      /\ IsInjective(Contents(waiting'))
      /\ Contents(waiting') = Contents(left) \o BackToWaiting
      /\ Waiting' = Range(Contents(left)) \cup Range(BackToWaiting)
      /\ waiting'.size = left.size + Len(BackToWaiting)
  <2>1. waiting' = PushAll(left, BackToWaiting)
    BY <1>1 DEF left
  <2>2. Range(BackToWaiting) \subseteq Running
    BY Back
  <2>3. Range(Contents(left)) \cap Range(BackToWaiting) = {}
    BY <1>3, <1>5, <2>2
  <2>4. Waiting' = Range(Contents(waiting'))
    BY DEF Waiting
  <2>5. QED  BY <1>3, <2>1, <2>3, <2>4, Back, PushThreads
<1>10. Range(Contents(r)) \cap Waiting' = {}
  <2>1. Range(BackToReady) \subseteq Running /\ Range(BackToWaiting) \subseteq Running
        /\ Range(BackToReady) \cap Range(BackToWaiting) = {}
    BY Back
  <2> HIDE DEF r
  <2>2. QED  BY <1>3, <1>4, <1>5, <1>8, <1>9, <2>1
<1>11. Range(Contents(r)) \cup Waiting' = Ready \cup Waiting \cup Due \cup (Running \ Exiting)
  <2> HIDE DEF r
  <2>1. Range(BackToReady) \cup Range(BackToWaiting) = Running \ Exiting
    BY Back
  <2>2. QED  BY <1>3, <1>8, <1>9, <2>1
<1>12. \A t \in Waiting' : t \in Waiting \/ (t = current /\ jump = FromLock)
  BY <1>3, <1>9, Back
<1>13. waiting'.size > 0 => AtHead(waiting') \in Waiting' /\ ~LetsIn(AtHead(waiting'))
  <2> SUFFICES ASSUME waiting'.size > 0
               PROVE  AtHead(waiting') \in Waiting' /\ ~LetsIn(AtHead(waiting'))
    OBVIOUS
  <2> DEFINE c == Contents(waiting')
             a == Contents(left)
             w == Contents(waiting)
  <2>1. waiting'.size \in Nat /\ waiting.size \in Nat /\ n \in Nat /\ n <= waiting.size
        /\ Len(c) = waiting'.size /\ Len(a) = left.size /\ Len(w) = waiting.size
    <3>1. waiting'.size \in Nat /\ Len(c) = waiting'.size
      BY <1>9, RingFields, ContentsType
    <3>2. waiting.size \in Nat /\ Len(w) = waiting.size
      BY <1>2, RingFields, ContentsType
    <3>3. Len(a) = left.size
      BY <1>3, ContentsType
    <3>4. QED  BY <3>1, <3>2, <3>3
  <2>2. AtHead(waiting') = c[1]
    BY <1>9, HeadIsFirst
  <2> HIDE DEF c
  <2>3. c[1] \in Waiting'
    <3>1. Range(c) = {c[i] : i \in 1..Len(c)} /\ Waiting' = Range(c) /\ 1 \in 1..Len(c)
      <4>1. c \in Seq(Threads) /\ Waiting' = Range(c)
        BY <1>9 DEF c, Waiting
      <4>2. QED  BY <2>1, <4>1, InjectiveSeq
    <3>2. QED  BY <3>1
  <2>4. a = SubSeq(w, n + 1, waiting.size) /\ a \in Seq(Threads) /\ w \in Seq(Threads)
    BY <1>2, <1>3
  <2>5. c = a \o BackToWaiting /\ waiting'.size = left.size + Len(BackToWaiting)
    BY <1>9 DEF c
  <2> HIDE DEF a, w
  <2>6. CASE n < waiting.size
    <3>1. left.size > 0
      BY <1>3, <2>1, <2>6
    <3>2. c[1] = a[1]
      BY <2>1, <2>4, <2>5, <3>1, Back
    <3>3. a[1] = w[n + 1]
      BY <2>1, <2>4, <2>6
    <3>4. ~LetsIn(w[n + 1])
      BY <1>1, <2>6 DEF Admits, w
    <3>5. QED  BY <2>2, <2>3, <3>2, <3>3, <3>4
  <2>7. CASE n = waiting.size
    <3>1. left.size = 0
      BY <1>3, <2>1, <2>7
    <3>2. Len(BackToWaiting) > 0
      BY <2>1, <2>5, <3>1, Back
    <3>3. jump = FromLock /\ BackToWaiting = <<current>> /\ ~LetsIn(current)
      BY <3>2, Back
    <3>4. c[1] = current
      <4>1. a = <<>>
        BY <2>1, <2>4, <3>1
      <4>2. c = BackToWaiting
        BY <2>5, <4>1, Back
      <4>3. QED  BY <3>3, <4>2
    <3>5. QED  BY <2>2, <2>3, <3>3, <3>4
  <2>8. QED  BY <2>1, <2>6, <2>7
<1>14. Select(r)
  BY <1>1 DEF in, moved
<1> HIDE DEF r
<1>15. Passed(r)
  BY <1>8, <1>9, <1>10, <1>11, <1>12, <1>13, <1>14 DEF Passed
<1>16. QED  BY <1>15

(* The first in the queue runs; when there is none, idle, or nobody.       *)
LEMMA SchedulerChooses ==
    ASSUME IInv, Scheduler, NEW r, Passed(r)
    PROVE  /\ ready' \in RingOf(Threads)
           /\ Contents(ready') \in Seq(Threads)
           /\ IsInjective(Contents(ready'))
           /\ Running' \cup Ready' = Range(Contents(r))
           /\ Running' \cap Ready' = {}
           /\ current' \in Threads \cup {Idle, NoThread}
           /\ program' \in {"running", "returned"}
           /\ current' = NoThread <=> program' = "returned"
           /\ program' = "returned" => Range(Contents(r)) = {} /\ sleepingSize' = 0
<1>1. /\ r \in RingOf(Threads) /\ Contents(r) \in Seq(Threads) /\ IsInjective(Contents(r))
      /\ r.size \in Nat /\ Len(Contents(r)) = r.size
      /\ Range(Contents(r)) = {Contents(r)[i] : i \in 1..Len(Contents(r))}
  <2>1. r \in RingOf(Threads) /\ Contents(r) \in Seq(Threads) /\ IsInjective(Contents(r))
    BY DEF Passed
  <2>2. r.size \in Nat /\ Len(Contents(r)) = r.size
    BY <2>1, RingFields, ContentsType
  <2>3. Range(Contents(r)) = {Contents(r)[i] : i \in 1..Len(Contents(r))}
    BY <2>1, InjectiveSeq
  <2>4. QED  BY <2>1, <2>2, <2>3
<1>2. program = "running" /\ jump' = NoJump
  BY DEF Scheduler
<1>3. CASE r.size > 0
  <2>1. current' = AtHead(r) /\ ready' = Drop(r, 1) /\ program' = "running"
    BY <1>1, <1>2, <1>3 DEF Passed, Select
  <2>2. AtHead(r) = Contents(r)[1] /\ 1 \in 1..Len(Contents(r)) /\ 1 \in 0..r.size
    BY <1>1, <1>3, HeadIsFirst
  <2>3. AtHead(r) \in Threads
    BY <1>1, <2>2
  <2>4. /\ ready' \in RingOf(Threads) /\ Contents(ready') \in Seq(Threads)
        /\ IsInjective(Contents(ready'))
        /\ Range(SubSeq(Contents(r), 1, 1)) \cap Range(Contents(ready')) = {}
        /\ Range(SubSeq(Contents(r), 1, 1)) \cup Range(Contents(ready')) = Range(Contents(r))
    BY <1>1, <2>1, <2>2, DropThreads
  <2>5. Range(SubSeq(Contents(r), 1, 1)) = {AtHead(r)}
    <3> DEFINE c == Contents(r)
    <3>1. c \in Seq(Threads) /\ Len(c) >= 1 /\ c[1] = AtHead(r)
      BY <1>1, <1>3, <2>2
    <3> HIDE DEF c
    <3> DEFINE d == SubSeq(c, 1, 1)
    <3>2. d \in Seq(Threads) /\ Len(d) = 1 /\ d[1] = AtHead(r)
      BY <3>1
    <3> HIDE DEF d
    <3>3. Range(d) = {d[i] : i \in 1..Len(d)}
      BY <3>2, InjectiveSeq
    <3>4. Range(d) = {AtHead(r)}
      BY <3>2, <3>3
    <3>5. QED  BY <3>4 DEF c, d
  <2>6. Running' = {AtHead(r)}
    BY <1>2, <2>1, <2>3, Jumps DEF Running
  <2>7. current' # NoThread /\ program' # "returned"
    BY <2>1, <2>3, IdleIsNoThread
  <2>8. QED  BY <2>1, <2>3, <2>4, <2>5, <2>6, <2>7 DEF Ready
<1>4. CASE r.size = 0
  <2>1. /\ ready' = r
        /\ \/ current' = Idle /\ program' = "running"
           \/ current' = NoThread /\ program' = "returned" /\ sleepingSize' = 0
    BY <1>1, <1>2, <1>4 DEF Passed, Select
  <2>2. Running' = {}
    BY <2>1, IdleIsNoThread DEF Running
  <2>3. Range(Contents(r)) = {}
    BY <1>1, <1>4
  <2>4. Ready' = Range(Contents(r))
    BY <2>1 DEF Ready
  <2>5. QED  BY <1>1, <2>1, <2>2, <2>3, <2>4, IdleIsNoThread
<1>5. r.size > 0 \/ r.size = 0
  BY <1>1
<1>6. QED  BY <1>3, <1>4, <1>5

LEMMA SchedulerStep ==
    ASSUME IInv, Scheduler
    PROVE  IInv'
<1>1. PICK r : Passed(r)
  BY SchedulerPasses
<1>2. /\ jump # NoJump /\ jump' = NoJump /\ program = "running"
      /\ alarm' = TimeSlice /\ pending' = {}
      /\ sleeping' = sleeping \ Due
      /\ sleepingSize' = sleepingSize - Cardinality(Due)
      /\ at' = IF jump = FromExit THEN [at EXCEPT ![current] = "exited"] ELSE at
      /\ UNCHANGED <<tcb, rwlock, q_p, q_s, tstps>>
  BY DEF Scheduler, seatVars
<1>3. /\ Due \subseteq sleeping /\ sleeping \subseteq Threads
      /\ jump = FromExit => current \in Threads /\ Running = {current}
  BY Jumps DEF Due, IInv, TypeOK, JumpInv, Running
<1>4. /\ at' \in [Threads \cup {Idle} -> Places] /\ at'[Idle] = at[Idle]
      /\ \A u \in Threads : at'[u] = IF u \in Exiting THEN "exited" ELSE at[u]
      /\ \A u \in Exiting : at[u] = "leaving"
  <2>1. at \in [Threads \cup {Idle} -> Places]
    BY DEF IInv, TypeOK
  <2>2. CASE jump = FromExit
    <3>1. current \in Threads /\ at[current] = "leaving" /\ Exiting = {current}
      BY <1>3, <2>2 DEF IInv, JumpInv, Exiting
    <3>2. at' = [at EXCEPT ![current] = "exited"] /\ "exited" \in Places
      BY <1>2, <2>2 DEF Places
    <3>3. QED  BY <2>1, <3>1, <3>2, IdleIsNoThread
  <2>3. CASE jump # FromExit
    BY <1>2, <2>1, <2>3 DEF Exiting
  <2>4. QED  BY <2>2, <2>3
<1>5. /\ ready' \in RingOf(Threads) /\ Contents(ready') \in Seq(Threads)
      /\ IsInjective(Contents(ready'))
      /\ Running' \cup Ready' = Range(Contents(r))
      /\ Running' \cap Ready' = {}
      /\ current' \in Threads \cup {Idle, NoThread}
      /\ program' \in {"running", "returned"}
      /\ current' = NoThread <=> program' = "returned"
  BY <1>1, SchedulerChooses
<1>6. /\ waiting' \in RingOf(Threads) /\ Contents(waiting') \in Seq(Threads)
      /\ IsInjective(Contents(waiting'))
      /\ Range(Contents(r)) \cup Waiting' = Ready \cup Waiting \cup Due \cup (Running \ Exiting)
      /\ Range(Contents(r)) \cap Waiting' = {}
      /\ \A t \in Waiting' : t \in Waiting \/ (t = current /\ jump = FromLock)
  BY <1>1 DEF Passed
<1>7. /\ sleeping' \subseteq Threads /\ sleepingSize' = Cardinality(sleeping')
      /\ sleepingSize' \in 0..THREAD_MAX
  <2>1. IsFiniteSet(sleeping) /\ IsFiniteSet(Due) /\ IsFiniteSet(sleeping') /\ sleeping' \in SUBSET Threads
        /\ sleepingSize = Cardinality(sleeping)
    BY <1>2, <1>3, SleepersFit DEF IInv, PlaceInv
  <2>2. Cardinality(sleeping) \in Nat /\ Cardinality(Due) \in Nat /\ Cardinality(sleeping') \in Nat
    BY <2>1, FS_CardinalityType
  <2>3. Cardinality(sleeping' \cup Due) = Cardinality(sleeping') + Cardinality(Due) - Cardinality(sleeping' \cap Due)
    BY <2>1, FS_Union
  <2>4. /\ Cardinality(sleeping' \cup Due) = Cardinality(sleeping)
        /\ Cardinality(sleeping' \cap Due) = 0
    <3>1. sleeping' \cup Due = sleeping /\ sleeping' \cap Due = {}
      BY <1>2, <1>3
    <3>2. QED  BY <3>1, FS_EmptySet, Zenon
  <2>5. Cardinality(sleeping) = Cardinality(sleeping') + Cardinality(Due)
    BY <2>2, <2>3, <2>4
  <2>6. sleepingSize' = Cardinality(sleeping')
    BY <1>2, <2>1, <2>2, <2>5
  <2>7. QED  BY <2>1, <2>6, SleepersFit
<1>8. TypeOK'
  <2>1. tcb' \in [Threads -> Tcb] /\ rwlock' \in [read_count : Nat, write_count : 0..1]
        /\ q_p' \in Int /\ q_s' \in Int /\ tstps' \in 0..MaxTstp
    BY <1>2 DEF IInv, TypeOK
  <2>2. alarm' \in 0..TimeSlice
    BY <1>2, ProgramAssumption
  <2>3. QED  BY <1>2, <1>4, <1>5, <1>6, <1>7, <2>1, <2>2 DEF TypeOK
<1>9. QueueInv'
  BY <1>5, <1>6 DEF QueueInv
<1>10. PlaceInv'
  <2>1. Live' = Live \ Exiting
    <3>1. Exiting \subseteq Threads
      BY <1>3 DEF Exiting
    <3>2. QED  BY <1>4, <3>1 DEF Live
  <2>2. /\ Running \cup sleeping \cup Ready \cup Waiting = Live
        /\ Running \cap (sleeping \cup Ready \cup Waiting) = {}
        /\ sleeping \cap (Ready \cup Waiting) = {}
        /\ Ready \cap Waiting = {}
    BY DEF IInv, PlaceInv
  <2>3. Exiting \subseteq Running
    BY Back
  <2>4. Running' \cup sleeping' \cup Ready' \cup Waiting' = Live'
    BY <1>2, <1>3, <1>5, <1>6, <2>1, <2>2, <2>3
  <2>5. Running' \cap (sleeping' \cup Ready' \cup Waiting') = {}
    BY <1>2, <1>3, <1>5, <1>6, <2>2, <2>3
  <2>6. sleeping' \cap (Ready' \cup Waiting') = {}
    BY <1>2, <1>3, <1>5, <1>6, <2>2, <2>3
  <2>7. Ready' \cap Waiting' = {}
    BY <1>5, <1>6
  <2>8. QED  BY <1>7, <2>4, <2>5, <2>6, <2>7 DEF PlaceInv
<1>11. JumpInv'
  <2>1. \A u \in Threads : at'[u] # "leaving"
    <3>1. \A u \in Threads : at[u] = "leaving" => u \in Exiting
      BY DEF IInv, JumpInv, Exiting
    <3>2. QED  BY <1>4, <3>1
  <2>2. QED  BY <1>2, <1>5, <2>1, Jumps DEF JumpInv
<1>12. Waiting' \subseteq Threads
  BY <1>6, InjectiveSeq DEF Waiting
<1>13. RoutineInv'
  <2>1. at'[Idle] \in {"start", "yield"}
    BY <1>4 DEF IInv, RoutineInv
  <2>2. /\ \A t \in Fibonacci \cup Pm : at'[t] \in {"start", "yield", "leaving", "exited"}
        /\ \A t \in Enroll : at'[t] # "yield"
    BY <1>4, RoutinesAreDisjoint DEF IInv, RoutineInv
  <2>3. \A t \in sleeping' : at'[t] = "slept"
    BY <1>2, <1>3, <1>4 DEF IInv, RoutineInv
  <2>4. ASSUME NEW t \in Waiting'
        PROVE  AtLock(t)'
    <3>1. AtLock(t)
      BY <1>6 DEF IInv, RoutineInv, JumpInv
    <3>2. t \in Threads /\ at'[t] = at[t]
      BY <1>4, <1>12, <3>1 DEF AtLock
    <3>3. QED  BY <1>2, <3>1, <3>2 DEF AtLock
  <2>5. QED  BY <2>1, <2>2, <2>3, <2>4 DEF RoutineInv
<1>14. LockIsHonest'
  <2>1. Readers' = Readers /\ Writers' = Writers
    BY <1>4 DEF Readers, Writers
  <2>2. QED  BY <1>2, <2>1, LocksSame
<1>15. QED  BY <1>8, <1>9, <1>10, <1>11, <1>13, <1>14 DEF IInv

-----------------------------------------------------------------------------
(* Every step keeps the invariant.                                         *)
LEMMA RoutineStep ==
    ASSUME IInv, NEW t \in Threads, Routine(t)
    PROVE  IInv'
<1>1. CASE FibonacciTurn(t)
  <2>1. tcb[t] \in Tcb
    BY DEF IInv, TypeOK
  <2>2. t \in Fibonacci \cup Pm /\ NextFibonacci(tcb[t]) \in Tcb /\ Turn(t, NextFibonacci(tcb[t]))
    BY <1>1, <2>1, NextNumbers DEF FibonacciTurn
  <2>3. QED  BY <2>2, TurnStep
<1>2. CASE PmTurn(t)
  <2>1. tcb[t] \in Tcb
    BY DEF IInv, TypeOK
  <2>2. t \in Fibonacci \cup Pm /\ NextPm(tcb[t]) \in Tcb /\ Turn(t, NextPm(tcb[t]))
    BY <1>2, <2>1, NextNumbers DEF PmTurn
  <2>3. QED  BY <2>2, TurnStep
<1>3. CASE Sleep(t) \/ Awake(t)
  BY <1>3, SleepStep, AwakeStep
<1>4. CASE WaitToRead(t) \/ WaitToWrite(t)
  BY <1>4, WaitStep
<1>5. CASE ReadLock(t) \/ ReadUnlock(t)
  BY <1>5, ReadLockStep, ReadUnlockStep
<1>6. CASE TakeSeat(t) \/ Leave(t)
  BY <1>6, TakeSeatStep, LeaveStep
<1>7. QED  BY <1>1, <1>2, <1>3, <1>4, <1>5, <1>6 DEF Routine

LEMMA EveryStep ==
    ASSUME IInv, [Next]_vars
    PROVE  IInv'
<1>1. CASE Scheduler
  BY <1>1, SchedulerStep
<1>2. ASSUME NEW t \in Threads \cup {Idle}, YieldToSignal(t)
      PROVE  IInv'
  BY <1>2, YieldToSignalStep
<1>3. CASE IdleNap \/ IdleFalls
  BY <1>3, IdleStep
<1>4. ASSUME NEW t \in Threads, Routine(t)
      PROVE  IInv'
  BY <1>4, RoutineStep
<1>5. CASE Tstp \/ Terminated \/ UNCHANGED vars
  BY <1>5, OutsideStep DEF Terminated
<1>6. QED  BY <1>1, <1>2, <1>3, <1>4, <1>5 DEF Next, Process

(* IInv is an invariant of UserThreads.                                    *)
THEOREM Invariance == Spec => []IInv
<1>1. Init => IInv
  BY Initially
<1>2. IInv /\ [Next]_vars => IInv'
  BY EveryStep
<1>3. QED  BY <1>1, <1>2, PTL DEF Spec

(* TypeOK holds in every state.                                            *)
THEOREM TypeCorrect == Spec => []TypeOK
<1>1. IInv => TypeOK
  BY DEF IInv
<1>2. QED  BY <1>1, Invariance, PTL

(* LockIsHonest: rwlock counts the threads between lock and unlock, and a  *)
(* writer is alone, whenever the threads are switched.                     *)
THEOREM HonestLock == Spec => []LockIsHonest
<1>1. IInv => LockIsHonest
  BY DEF IInv
<1>2. QED  BY <1>1, Invariance, PTL

(* A thread is in a queue of threads once or not at all.                   *)
LEMMA OccursOnce ==
    ASSUME NEW q \in RingOf(Threads), Contents(q) \in Seq(Threads), IsInjective(Contents(q)),
           NEW t \in Threads
    PROVE  Occurrences(t, q) = IF t \in Range(Contents(q)) THEN 1 ELSE 0
<1> DEFINE c == Contents(q)
           K == {k \in 1..q.size : c[k] = t}
<1>1. Len(c) = q.size /\ c \in Seq(Threads) /\ IsInjective(c)
  BY ContentsType
<1> HIDE DEF c
<1>2. /\ Range(c) = {c[k] : k \in 1..q.size}
      /\ \A i, j \in 1..q.size : c[i] = c[j] => i = j
  BY <1>1, InjectiveSeq
<1>3. CASE t \in Range(c)
  <2>1. PICK k \in 1..q.size : c[k] = t
    BY <1>2, <1>3
  <2>2. K = {k}
    BY <1>2, <2>1
  <2> HIDE DEF K
  <2>3. Cardinality(K) = 1
    BY <2>2, FS_Singleton
  <2>4. QED  BY <1>3, <2>3 DEF Occurrences, K, c
<1>4. CASE t \notin Range(c)
  <2>1. K = {}
    BY <1>2, <1>4
  <2> HIDE DEF K
  <2>2. Cardinality(K) = 0
    BY <2>1, FS_EmptySet
  <2>3. QED  BY <1>4, <2>2 DEF Occurrences, K, c
<1>5. QED  BY <1>3, <1>4

(* OnePlace: a live thread runs, or is in one of the queues, once, or      *)
(* sleeps, and is in one place only; sleeping_set.size counts the sleepers.*)
THEOREM OnePlaceHolds == Spec => []OnePlace
<1>1. IInv => OnePlace
  <2> SUFFICES ASSUME IInv PROVE OnePlace
    OBVIOUS
  <2>1. ASSUME NEW t \in Threads
        PROVE  LET runs == IF current = t /\ jump # FromSleep THEN 1 ELSE 0
                   sleeps == IF t \in sleeping THEN 1 ELSE 0
               IN  runs + sleeps + Occurrences(t, ready) + Occurrences(t, waiting)
                      = IF at[t] = "exited" THEN 0 ELSE 1
    <3>1. /\ Occurrences(t, ready) = IF t \in Ready THEN 1 ELSE 0
          /\ Occurrences(t, waiting) = IF t \in Waiting THEN 1 ELSE 0
      BY OccursOnce DEF IInv, TypeOK, QueueInv, Ready, Waiting
    <3>2. t \in Running <=> current = t /\ jump # FromSleep
      BY DEF Running
    <3>3. t \in Live <=> at[t] # "exited"
      BY DEF Live
    <3>4. /\ t \in Live <=> t \in Running \/ t \in sleeping \/ t \in Ready \/ t \in Waiting
          /\ ~(t \in Running /\ (t \in sleeping \/ t \in Ready \/ t \in Waiting))
          /\ ~(t \in sleeping /\ (t \in Ready \/ t \in Waiting))
          /\ ~(t \in Ready /\ t \in Waiting)
      BY DEF IInv, PlaceInv
    <3>5. QED  BY <3>1, <3>2, <3>3, <3>4
  <2>2. QED  BY <2>1 DEF OnePlace, IInv, PlaceInv
<1>2. QED  BY <1>1, Invariance, PTL

-----------------------------------------------------------------------------
(* The end of the program, and who the scheduler leaves behind.            *)

(* Who waits at the head of waiting_queue after the scheduler has chosen   *)
(* waits for a thread that has the lock.                                   *)
LEMMA FirstIsBlocked ==
    ASSUME IInv, Scheduler
    PROVE  waiting'.size > 0 => Blocked(AtHead(waiting))' /\ (Readers \cup Writers)' # {}
<1> DEFINE h == AtHead(waiting')
<1> SUFFICES ASSUME waiting'.size > 0
             PROVE  Blocked(AtHead(waiting))' /\ (Readers \cup Writers)' # {}
  OBVIOUS
<1>1. h \in Waiting' /\ ~LetsIn(h)
  BY SchedulerPasses DEF Passed
<1>2. IInv'
  BY SchedulerStep
<1>3. /\ tcb' = tcb /\ rwlock' = rwlock
      /\ rwlock.read_count = 0 <=> Readers' = {}
      /\ rwlock.write_count = 0 <=> Writers' = {}
  <2>1. UNCHANGED <<tcb, rwlock>>
    BY DEF Scheduler
  <2>2. Readers' = Readers /\ Writers' = Writers
    <3>1. Cardinality(Readers)' = Cardinality(Readers)
      BY <1>2, <2>1, LockCounts DEF IInv, LockIsHonest
    <3>2. at' = IF jump = FromExit THEN [at EXCEPT ![current] = "exited"] ELSE at
      BY DEF Scheduler
    <3>3. jump = FromExit => current \in Threads /\ at[current] = "leaving"
      BY DEF IInv, JumpInv
    <3>4. \A u \in Threads : at'[u] = at[u] \/ (at[u] = "leaving" /\ at'[u] = "exited")
      BY <3>2, <3>3 DEF IInv, TypeOK
    <3>5. QED  BY <3>4 DEF Readers, Writers
  <2>3. QED  BY <2>1, <2>2, LockCounts
<1>4. \/ at'[h] = "readLock" /\ tcb'[h].waiting_for = 1
      \/ at'[h] = "writeLock" /\ tcb'[h].waiting_for = 2
  <2>1. \A u \in Waiting' : AtLock(u)'
    BY <1>2 DEF IInv, RoutineInv
  <2> HIDE DEF h
  <2>2. QED  BY <1>1, <2>1 DEF AtLock
<1>5. tcb[h].waiting_for = 1 \/ tcb[h].waiting_for = 2
  BY <1>3, <1>4
<1>6. CASE tcb[h].waiting_for = 1
  <2>1. Writers' # {}
    BY <1>1, <1>3, <1>6 DEF LetsIn
  <2>2. QED  BY <1>3, <1>6, <2>1 DEF Blocked
<1>7. CASE tcb[h].waiting_for = 2
  <2>1. (Writers \cup Readers)' # {}
    BY <1>1, <1>3, <1>7 DEF LetsIn
  <2>2. QED  BY <1>3, <1>7, <2>1 DEF Blocked
<1>8. QED  BY <1>5, <1>6, <1>7

(* NobodyIsLeftBehind: when the scheduler has chosen, no thread that has   *)
(* slept enough still sleeps, and the first waiting thread waits for a     *)
(* lock that others hold.                                                  *)
THEOREM NobodyLeftBehind == Spec => NobodyIsLeftBehind
<1>1. ASSUME IInv, Scheduler
      PROVE  /\ \A t \in sleeping' : tcb'[t].sleeping_time > 0
             /\ waiting'.size > 0 => Blocked(AtHead(waiting))'
  <2>1. ASSUME NEW t \in sleeping'
        PROVE  tcb'[t].sleeping_time > 0
    <3>1. t \in sleeping \ Due /\ tcb' = tcb
      BY <1>1 DEF Scheduler
    <3>2. tcb[t].sleeping_time # 0 /\ t \in Threads
      BY <1>1, <3>1 DEF Due, IsDue, IInv, TypeOK
    <3>3. tcb[t].sleeping_time \in Nat
      BY <1>1, <3>2 DEF IInv, TypeOK, Tcb
    <3>4. QED  BY <3>1, <3>2, <3>3
  <2>2. QED  BY <1>1, <2>1, FirstIsBlocked
<1>2. IInv /\ [Next]_vars =>
        [Scheduler => /\ \A t \in sleeping' : tcb'[t].sleeping_time > 0
                      /\ waiting'.size > 0 => Blocked(AtHead(waiting))']_vars
  BY <1>1
<1>3. QED  BY <1>2, Invariance, PTL DEF Spec, NobodyIsLeftBehind

(* ReturnsWhenDone: scheduler returns only when every thread has exited    *)
(* and nobody holds the lock.                                              *)
THEOREM ReturnsOnlyWhenDone == Spec => []ReturnsWhenDone
<1>1. Init => ReturnsWhenDone
  BY DEF Init, ReturnsWhenDone
<1>2. ASSUME IInv, IInv', ReturnsWhenDone, [Next]_vars
      PROVE  ReturnsWhenDone'
  <2> SUFFICES ASSUME program' = "returned"
               PROVE  /\ \A t \in Threads : at'[t] = "exited"
                      /\ rwlock' = [read_count |-> 0, write_count |-> 0]
    BY DEF ReturnsWhenDone
  <2>1. CASE program = "returned"
    <3>1. UNCHANGED vars
      BY <1>2, <2>1 DEF Next, Process, Scheduler, YieldToSignal, Runs, IdleNap, IdleFalls, GoesOn,
                        Routine, FibonacciTurn, PmTurn, Turn, Sleep, Awake, WaitToRead, ReadLock,
                        ReadLockThen, ReadUnlock, WaitToWrite, AtWriteLock, TakeSeat, Leave, Tstp,
                        Terminated
    <3>2. QED  BY <1>2, <2>1, <3>1 DEF vars, ReturnsWhenDone
  <2>2. CASE program # "returned" /\ ~Scheduler
    <3>1. program' = program \/ program' = "fallen"
      BY <1>2, <2>2 DEF Next, Process, YieldToSignal, IdleNap, IdleFalls,
                        Routine, FibonacciTurn, PmTurn, Turn, Sleep, Awake, WaitToRead, WaitForLock,
                        ReadLock, ReadLockThen, ReadUnlock, WaitToWrite, TakeSeat, Leave, Tstp,
                        Terminated, vars
    <3>2. QED  BY <2>2, <3>1
  <2>3. CASE Scheduler
    <3>1. PICK r : Passed(r)
      BY <1>2, <2>3, SchedulerPasses
    <3>2. Running' \cup Ready' = {} /\ sleepingSize' = 0
      BY <1>2, <2>3, <3>1, SchedulerChooses
    <3>3. sleeping' = {}
      <4>1. sleepingSize' = Cardinality(sleeping') /\ sleeping' \in SUBSET Threads
        BY <1>2 DEF IInv, PlaceInv, TypeOK
      <4>2. IsFiniteSet(sleeping')
        BY <4>1, SleepersFit
      <4>3. QED  BY <3>2, <4>1, <4>2, FS_EmptySet
    <3>4. Live' = Waiting'
      BY <1>2, <3>2, <3>3 DEF IInv, PlaceInv
    <3>5. Readers' = {} /\ Writers' = {}
      <4>1. ASSUME NEW u \in Readers' \cup Writers'
            PROVE  FALSE
        <5>1. u \in Threads /\ at'[u] \in {"reading", "enrolled"}
          BY DEF Readers, Writers
        <5>2. u \in Waiting'
          BY <3>4, <5>1 DEF Live
        <5>3. AtLock(u)'
          BY <1>2, <5>2 DEF IInv, RoutineInv
        <5>4. QED  BY <5>1, <5>3 DEF AtLock
      <4>2. QED  BY <4>1
    <3>6. waiting'.size = 0
      <4>1. ~(waiting'.size > 0)
        BY <1>2, <2>3, <3>5, FirstIsBlocked
      <4>2. waiting'.size \in Nat
        BY <1>2, RingFields DEF IInv, TypeOK
      <4>3. QED  BY <4>1, <4>2
    <3>7. Live' = {}
      <4> DEFINE c == Contents(waiting')
      <4>1. Len(c) = 0 /\ c \in Seq(Threads)
        BY <1>2, <3>6, ContentsType DEF IInv, TypeOK, QueueInv
      <4>2. Waiting' = Range(c)
        BY DEF Waiting
      <4> HIDE DEF c
      <4>3. Range(c) = {c[i] : i \in 1..Len(c)}
        BY <4>1, InjectiveSeq
      <4>4. QED  BY <3>4, <4>1, <4>2, <4>3
    <3>8. rwlock' = [read_count |-> 0, write_count |-> 0]
      <4>1. rwlock' \in [read_count : Nat, write_count : 0..1]
        BY <1>2 DEF IInv, TypeOK
      <4>2. rwlock'.read_count = 0 /\ rwlock'.write_count = 0
        BY <1>2, <3>5, FS_EmptySet DEF IInv, LockIsHonest
      <4>3. QED  BY <4>1, <4>2
    <3>9. QED  BY <3>7, <3>8 DEF Live
  <2>4. QED  BY <2>1, <2>2, <2>3
<1>3. IInv /\ IInv' /\ ReturnsWhenDone /\ [Next]_vars => ReturnsWhenDone'
  BY <1>2
<1>4. QED  BY <1>1, <1>3, Invariance, PTL DEF Spec

-----------------------------------------------------------------------------
(* Which step changes which fields of a tcb, and which takes a thread to   *)
(* the places between lock and unlock.                                     *)
KeepsNumbers(u) ==
    tcb'[u].i = tcb[u].i /\ tcb'[u].f_cur = tcb[u].f_cur /\ tcb'[u].f_prev = tcb[u].f_prev
KeepsSpots(u) == tcb'[u].q_p = tcb[u].q_p /\ tcb'[u].q_s = tcb[u].q_s
KeepsPreference(u) == tcb'[u].p_p = tcb[u].p_p /\ tcb'[u].p_s = tcb[u].p_s

LEMMA TurnKeeps ==
    ASSUME IInv, NEW t \in Threads, FibonacciTurn(t) \/ PmTurn(t), NEW u \in Threads
    PROVE  /\ KeepsNumbers(u) \/ u = t
           /\ KeepsSpots(u) /\ KeepsPreference(u)
<1>1. tcb[t] \in Tcb /\ tcb \in [Threads -> Tcb]
  BY DEF IInv, TypeOK
<1>2. ASSUME NEW next, tcb' = [tcb EXCEPT ![t] = next],
             NEW i, NEW f, NEW g, next = SetNumbers(tcb[t], i, f, g)
      PROVE  /\ KeepsNumbers(u) \/ u = t
             /\ KeepsSpots(u) /\ KeepsPreference(u)
  <2>1. CASE u # t
    BY <1>1, <1>2, <2>1 DEF KeepsNumbers, KeepsSpots, KeepsPreference
  <2>2. CASE u = t
    <3>1. /\ next.q_p = tcb[t].q_p /\ next.q_s = tcb[t].q_s
          /\ next.p_p = tcb[t].p_p /\ next.p_s = tcb[t].p_s
      BY <1>1, <1>2 DEF SetNumbers, Tcb
    <3>2. tcb'[t] = next
      BY <1>1, <1>2
    <3>3. QED  BY <2>2, <3>1, <3>2 DEF KeepsSpots, KeepsPreference
  <2>3. QED  BY <2>1, <2>2
<1>3. CASE FibonacciTurn(t)
  <2>1. tcb' = [tcb EXCEPT ![t] = NextFibonacci(tcb[t])]
    BY <1>3 DEF FibonacciTurn, Turn
  <2>2. QED  BY <1>1, <1>2, <2>1, NextFibonacciSets
<1>4. CASE PmTurn(t)
  <2>1. tcb' = [tcb EXCEPT ![t] = NextPm(tcb[t])]
    BY <1>4 DEF PmTurn, Turn
  <2>2. QED  BY <1>1, <1>2, <2>1, NextPmSets
<1>5. QED  BY <1>3, <1>4

LEMMA EnrollKeeps ==
    ASSUME IInv, NEW t \in Threads, NEW u \in Threads,
           \/ Sleep(t) \/ Awake(t) \/ WaitToRead(t) \/ ReadLock(t) \/ ReadUnlock(t)
           \/ WaitToWrite(t) \/ TakeSeat(t) \/ Leave(t)
    PROVE  /\ KeepsNumbers(u)
           /\ KeepsSpots(u) \/ (u = t /\ ReadLock(t))
           /\ KeepsPreference(u) \/ (u = t /\ ReadUnlock(t))
<1>1. tcb \in [Threads -> Tcb]
  BY DEF IInv, TypeOK
<1>2. ASSUME NEW v \in Threads, NEW c, tcb' = [tcb EXCEPT ![v] = c],
             \/ \E x : c = [tcb[v] EXCEPT !.sleeping_time = x]
             \/ \E x : c = [tcb[v] EXCEPT !.waiting_for = x]
      PROVE  KeepsNumbers(u) /\ KeepsSpots(u) /\ KeepsPreference(u)
  <2>1. tcb[v] \in Tcb
    BY <1>1
  <2>2. /\ c.i = tcb[v].i /\ c.f_cur = tcb[v].f_cur /\ c.f_prev = tcb[v].f_prev
        /\ c.q_p = tcb[v].q_p /\ c.q_s = tcb[v].q_s /\ c.p_p = tcb[v].p_p /\ c.p_s = tcb[v].p_s
    BY <1>2, <2>1 DEF Tcb
  <2>3. tcb'[u] = IF u = v THEN c ELSE tcb[u]
    BY <1>1, <1>2
  <2>4. QED  BY <2>2, <2>3 DEF KeepsNumbers, KeepsSpots, KeepsPreference
<1>3. ASSUME tcb' = tcb
      PROVE  KeepsNumbers(u) /\ KeepsSpots(u) /\ KeepsPreference(u)
  BY <1>3 DEF KeepsNumbers, KeepsSpots, KeepsPreference
<1>4. CASE Sleep(t)
  <2>1. tcb' = [tcb EXCEPT ![t] = [tcb[t] EXCEPT !.sleeping_time = Program[t].s]]
    BY <1>4 DEF Sleep
  <2>2. QED  BY <1>2, <2>1
<1>5. CASE Awake(t)
  <2>1. CASE Program[t].b \in sleeping
    <3>1. Program[t].b \in Threads
      BY <2>1 DEF IInv, TypeOK
    <3>2. tcb' = [tcb EXCEPT ![Program[t].b] = [tcb[Program[t].b] EXCEPT !.sleeping_time = 0]]
      BY <1>5, <2>1 DEF Awake
    <3>3. QED  BY <1>2, <3>1, <3>2
  <2>2. CASE Program[t].b \notin sleeping
    BY <1>3, <1>5, <2>2 DEF Awake
  <2>3. QED  BY <2>1, <2>2
<1>6. CASE WaitToRead(t) \/ WaitToWrite(t)
  <2>1. PICK kind : tcb' = [tcb EXCEPT ![t] = [tcb[t] EXCEPT !.waiting_for = kind]]
    BY <1>6 DEF WaitToRead, WaitToWrite, WaitForLock
  <2>2. QED  BY <1>2, <2>1
<1>7. CASE ReadLock(t)
  <2>1. tcb' = [tcb EXCEPT ![t] = [tcb[t] EXCEPT !.q_p = q_p, !.q_s = q_s]]
    BY <1>1, <1>7 DEF ReadLock, ReadLockThen
  <2>2. tcb'[u] = IF u = t THEN [tcb[t] EXCEPT !.q_p = q_p, !.q_s = q_s] ELSE tcb[u]
    BY <1>1, <2>1
  <2>3. QED  BY <1>1, <1>7, <2>2 DEF Tcb, KeepsNumbers, KeepsSpots, KeepsPreference
<1>8. CASE ReadUnlock(t)
  <2> DEFINE x == Program[t].dp * tcb[t].q_p
             y == Program[t].ds * tcb[t].q_s
  <2>1. tcb' = [tcb EXCEPT ![t] = [tcb[t] EXCEPT !.p_p = x, !.p_s = y]]
    BY <1>1, <1>8 DEF ReadUnlock
  <2> HIDE DEF x, y
  <2>2. tcb'[u] = IF u = t THEN [tcb[t] EXCEPT !.p_p = x, !.p_s = y] ELSE tcb[u]
    BY <1>1, <2>1
  <2>3. QED  BY <1>1, <1>8, <2>2 DEF Tcb, KeepsNumbers, KeepsSpots, KeepsPreference
<1>9. CASE TakeSeat(t) \/ Leave(t)
  BY <1>3, <1>9 DEF TakeSeat, Leave
<1>10. QED  BY <1>4, <1>5, <1>6, <1>7, <1>8, <1>9

LEMMA TcbFrame ==
    ASSUME IInv, [Next]_vars, NEW u \in Threads
    PROVE  /\ KeepsNumbers(u) \/ FibonacciTurn(u) \/ PmTurn(u)
           /\ KeepsSpots(u) \/ ReadLock(u)
           /\ KeepsPreference(u) \/ ReadUnlock(u)
<1>1. CASE Scheduler \/ IdleNap \/ IdleFalls \/ Tstp \/ Terminated \/ UNCHANGED vars
  <2>1. tcb' = tcb
    BY <1>1 DEF Scheduler, IdleNap, IdleFalls, Tstp, Terminated, vars
  <2>2. QED  BY <2>1 DEF KeepsNumbers, KeepsSpots, KeepsPreference
<1>2. ASSUME NEW t \in Threads \cup {Idle}, YieldToSignal(t)
      PROVE  KeepsNumbers(u) /\ KeepsSpots(u) /\ KeepsPreference(u)
  <2>1. tcb[u] \in Tcb
    BY DEF IInv, TypeOK
  <2>2. PICK x : tcb'[u] = tcb[u] \/ tcb'[u] = [tcb[u] EXCEPT !.sleeping_time = x]
    BY <1>2 DEF YieldToSignal
  <2>3. QED  BY <2>1, <2>2 DEF Tcb, KeepsNumbers, KeepsSpots, KeepsPreference
<1>3. ASSUME NEW t \in Threads, Routine(t)
      PROVE  /\ KeepsNumbers(u) \/ FibonacciTurn(u) \/ PmTurn(u)
             /\ KeepsSpots(u) \/ ReadLock(u)
             /\ KeepsPreference(u) \/ ReadUnlock(u)
  <2>1. CASE FibonacciTurn(t) \/ PmTurn(t)
    BY <2>1, TurnKeeps
  <2>2. CASE ~(FibonacciTurn(t) \/ PmTurn(t))
    BY <1>3, <2>2, EnrollKeeps DEF Routine
  <2>3. QED  BY <2>1, <2>2
<1>4. QED  BY <1>1, <1>2, <1>3 DEF Next, Process

Signed == {"enrolled", "leaving", "exited"}

LEMMA PlaceFrame ==
    ASSUME IInv, [Next]_vars, NEW u \in Threads
    PROVE  /\ at'[u] = "reading" => at[u] = "reading" \/ ReadLock(u)
           /\ u \in Enroll /\ at[u] \in Signed => at'[u] \in Signed
           /\ u \in Enroll /\ at'[u] \in Signed => at[u] \in Signed \/ TakeSeat(u)
<1> DEFINE Goal == /\ at'[u] = "reading" => at[u] = "reading" \/ ReadLock(u)
                   /\ u \in Enroll /\ at[u] \in Signed => at'[u] \in Signed
                   /\ u \in Enroll /\ at'[u] \in Signed => at[u] \in Signed \/ TakeSeat(u)
<1>1. at \in [Threads \cup {Idle} -> Places] /\ u # Idle
  BY IdleIsNoThread DEF IInv, TypeOK
<1>2. CASE Scheduler
  <2>1. at' = IF jump = FromExit THEN [at EXCEPT ![current] = "exited"] ELSE at
    BY <1>2 DEF Scheduler
  <2>2. jump = FromExit => current \in Threads /\ at[current] = "leaving"
    BY DEF IInv, JumpInv
  <2>3. at'[u] = at[u] \/ (at[u] = "leaving" /\ at'[u] = "exited")
    BY <1>1, <2>1, <2>2
  <2>4. QED  BY <2>3 DEF Signed
<1>3. CASE IdleFalls \/ Tstp \/ Terminated \/ UNCHANGED vars
  BY <1>3 DEF IdleFalls, Tstp, Terminated, vars
<1>4. CASE IdleNap
  BY <1>1, <1>4 DEF IdleNap
<1>5. ASSUME NEW t \in Threads \cup {Idle}, YieldToSignal(t)
      PROVE  Goal
  BY <1>5 DEF YieldToSignal
<1>6. ASSUME NEW t \in Threads, Routine(t)
      PROVE  Goal
  <2>1. ASSUME NEW place, at' = [at EXCEPT ![t] = place]
        PROVE  at'[u] = IF u = t THEN place ELSE at[u]
    BY <1>1, <2>1
  <2>2. CASE FibonacciTurn(t) \/ PmTurn(t)
    <3>1. t \notin Enroll /\ \E place \in {"yield", "leaving"} : at' = [at EXCEPT ![t] = place]
      BY <2>2, RoutinesAreDisjoint DEF FibonacciTurn, PmTurn, Turn
    <3>2. QED  BY <2>1, <3>1
  <2>3. CASE Sleep(t) \/ Awake(t) \/ WaitToRead(t) \/ WaitToWrite(t) \/ ReadUnlock(t)
    <3>1. at[t] \in {"start", "slept", "readLock", "reading", "choosing", "writeLock"}
      BY <2>3 DEF Sleep, Awake, WaitToRead, WaitToWrite, ReadUnlock, AtWriteLock, GoesOn
    <3>2. \E place \in {"slept", "readLock", "writeLock", "choosing"} : at' = [at EXCEPT ![t] = place]
      BY <2>3 DEF Sleep, Awake, WaitToRead, WaitToWrite, WaitForLock, ReadUnlock
    <3>3. QED  BY <2>1, <3>1, <3>2 DEF Signed
  <2>4. CASE ReadLock(t)
    <3>1. at[t] = "readLock" /\ at' = [at EXCEPT ![t] = "reading"]
      BY <2>4 DEF ReadLock, ReadLockThen, GoesOn
    <3>2. QED  BY <2>1, <2>4, <3>1 DEF Signed
  <2>5. CASE TakeSeat(t)
    <3>1. at' = [at EXCEPT ![t] = "enrolled"]
      BY <2>5 DEF TakeSeat
    <3>2. QED  BY <2>1, <2>5, <3>1 DEF Signed
  <2>6. CASE Leave(t)
    <3>1. at[t] = "enrolled" /\ at' = [at EXCEPT ![t] = "leaving"]
      BY <2>6 DEF Leave, GoesOn
    <3>2. QED  BY <2>1, <3>1 DEF Signed
  <2>7. QED  BY <1>6, <2>2, <2>3, <2>4, <2>5, <2>6 DEF Routine
<1>7. QED  BY <1>2, <1>3, <1>4, <1>5, <1>6 DEF Next, Process

LEMMA SeatFrame ==
    ASSUME [Next]_vars
    PROVE  UNCHANGED <<q_p, q_s>> \/ \E t \in Threads : TakeSeat(t)
<1>1. CASE Scheduler \/ IdleNap \/ IdleFalls \/ Tstp \/ Terminated \/ UNCHANGED vars
  BY <1>1 DEF Scheduler, IdleNap, IdleFalls, Tstp, Terminated, vars, seatVars
<1>2. ASSUME NEW t \in Threads \cup {Idle}, YieldToSignal(t)
      PROVE  UNCHANGED <<q_p, q_s>>
  BY <1>2 DEF YieldToSignal, seatVars
<1>3. ASSUME NEW t \in Threads, Routine(t), ~TakeSeat(t)
      PROVE  UNCHANGED <<q_p, q_s>>
  BY <1>3 DEF Routine, FibonacciTurn, PmTurn, Turn, Sleep, Awake, WaitToRead, WaitToWrite,
              WaitForLock, ReadLock, ReadLockThen, ReadUnlock, Leave, seatVars
<1>4. QED  BY <1>1, <1>2, <1>3 DEF Next, Process

-----------------------------------------------------------------------------
(* SnapshotHolds: what a thread has read under the read lock stays true    *)
(* until it unlocks, however often it is switched away from.               *)
THEOREM SnapshotStays == Spec => []SnapshotHolds
<1>1. Init => SnapshotHolds
  BY DEF Init, SnapshotHolds, Readers
<1>2. ASSUME IInv, IInv', SnapshotHolds, [Next]_vars
      PROVE  SnapshotHolds'
  <2>1. CASE \E t \in Threads : TakeSeat(t)
    <3>1. PICK t \in Threads : TakeSeat(t)
      BY <2>1
    <3>2. Writers' # {}
      <4>1. at' = [at EXCEPT ![t] = "enrolled"]
        BY <3>1 DEF TakeSeat
      <4>2. at'[t] = "enrolled"
        BY <4>1, <1>2 DEF IInv, TypeOK
      <4>3. QED  BY <4>2 DEF Writers
    <3>3. Readers' = {}
      BY <1>2, <3>2 DEF IInv, LockIsHonest
    <3>4. QED  BY <3>3 DEF SnapshotHolds
  <2>2. CASE UNCHANGED <<q_p, q_s>>
    <3>1. ASSUME NEW u \in Readers'
          PROVE  tcb'[u].q_p = q_p /\ tcb'[u].q_s = q_s
      <4>1. u \in Threads /\ at'[u] = "reading"
        BY DEF Readers
      <4>2. CASE ReadLock(u)
        <5>1. tcb' = [tcb EXCEPT ![u] = [tcb[u] EXCEPT !.q_p = q_p, !.q_s = q_s]]
          BY <1>2, <4>1, <4>2 DEF ReadLock, ReadLockThen, IInv, TypeOK
        <5>2. tcb'[u] = [tcb[u] EXCEPT !.q_p = q_p, !.q_s = q_s] /\ tcb[u] \in Tcb
          BY <1>2, <4>1, <5>1 DEF IInv, TypeOK
        <5>3. QED  BY <5>2 DEF Tcb
      <4>3. CASE ~ReadLock(u)
        <5>1. u \in Readers
          BY <1>2, <4>1, <4>3, PlaceFrame DEF Readers
        <5>2. KeepsSpots(u)
          BY <1>2, <4>1, <4>3, TcbFrame
        <5>3. QED  BY <1>2, <5>1, <5>2 DEF SnapshotHolds, KeepsSpots
      <4>4. QED  BY <4>2, <4>3
    <3>2. QED  BY <2>2, <3>1 DEF SnapshotHolds
  <2>3. QED  BY <1>2, <2>1, <2>2, SeatFrame
<1>3. IInv /\ IInv' /\ SnapshotHolds /\ [Next]_vars => SnapshotHolds'
  BY <1>2
<1>4. QED  BY <1>1, <1>3, Invariance, PTL DEF Spec

-----------------------------------------------------------------------------
(* The spots.                                                              *)

LEMMA EnrolledSet ==
    /\ Enrolled = {t \in Enroll : at[t] \in Signed}
    /\ Enrolled \in SUBSET Threads
    /\ IsFiniteSet(Enrolled)
    /\ Cardinality(Enrolled) \in Nat
<1>1. Enrolled = {t \in Enroll : at[t] \in Signed}
  BY DEF Enrolled, Signed
<1>2. Enrolled \in SUBSET Threads
  BY RoutinesAreDisjoint DEF Enrolled
<1>3. QED  BY <1>1, <1>2, SleepersFit, FS_CardinalityType

(* The thread that takes a spot becomes one of the enrolled, and no other  *)
(* step changes who is.                                                    *)
LEMMA OneEnrolls ==
    ASSUME IInv, NEW t \in Threads, TakeSeat(t)
    PROVE  /\ t \in Enroll /\ t \notin Enrolled
           /\ Enrolled' = Enrolled \cup {t}
           /\ Cardinality(Enrolled') = Cardinality(Enrolled) + 1
           /\ Cardinality(Enrolled') \in Nat
           /\ tcb' = tcb
<1>1. (GoesOn(t, "choosing") \/ GoesOn(t, "writeLock")) /\ at' = [at EXCEPT ![t] = "enrolled"]
      /\ tcb' = tcb
  BY DEF TakeSeat, AtWriteLock
<1>2. t \in Enroll /\ at[t] \in {"choosing", "writeLock"}
  BY <1>1, EnrollRuns
<1>3. at'[t] = "enrolled" /\ \A u \in Threads : u # t => at'[u] = at[u]
  BY <1>1 DEF IInv, TypeOK
<1>4. Enrolled' = Enrolled \cup {t} /\ t \notin Enrolled
  BY <1>2, <1>3, RoutinesAreDisjoint DEF Enrolled
<1>5. Cardinality(Enrolled') = Cardinality(Enrolled) + 1
  BY <1>4, EnrolledSet, FS_AddElement
<1>6. QED  BY <1>1, <1>2, <1>4, <1>5, EnrolledSet

LEMMA NobodyEnrolls ==
    ASSUME IInv, [Next]_vars, \A t \in Threads : ~TakeSeat(t)
    PROVE  Enrolled' = Enrolled /\ UNCHANGED <<q_p, q_s>>
<1>1. \A u \in Enroll : at'[u] \in Signed <=> at[u] \in Signed
  BY PlaceFrame, RoutinesAreDisjoint
<1>2. Enrolled' = Enrolled
  BY <1>1 DEF Enrolled, Signed
<1>3. QED  BY <1>2, SeatFrame

(* Who is enrolled has chosen already.                                     *)
LEMMA ChoiceIsMade ==
    ASSUME IInv, [Next]_vars, NEW t \in Enrolled
    PROVE  t \in Enrolled' /\ tcb'[t].p_p = tcb[t].p_p /\ tcb'[t].p_s = tcb[t].p_s
<1>1. t \in Threads /\ t \in Enroll /\ at[t] \in Signed
  BY EnrolledSet
<1>2. t \in Enrolled'
  BY <1>1, PlaceFrame DEF Enrolled, Signed
<1>3. ~ReadUnlock(t)
  BY <1>1 DEF ReadUnlock, GoesOn, Signed
<1>4. QED  BY <1>1, <1>2, <1>3, TcbFrame DEF KeepsPreference

(* A thread that takes a spot which is not there while it has a preference *)
(* finds no spot in the other class either.                                *)
LEMMA NoSpotLeft ==
    ASSUME IInv, NEW t \in Threads, TakeSeat(t), tcb[t].p_p # tcb[t].p_s
    PROVE  /\ q_p \in Int /\ q_s \in Int /\ q_p' \in Int /\ q_s' \in Int
           /\ q_p' + q_s' = q_p + q_s - 1
           /\ q_p' < 0 => q_p < 0 \/ q_p' + q_s' < 0
           /\ q_s' < 0 => q_s < 0 \/ q_p' + q_s' < 0
<1>1. q_p \in Int /\ q_s \in Int /\ tcb[t].p_p \in Int /\ tcb[t].p_s \in Int
  <2>1. tcb[t] \in Tcb
    BY DEF IInv, TypeOK
  <2>2. QED  BY <2>1 DEF IInv, TypeOK, Tcb
<1>2. tcb[t].p_p > tcb[t].p_s \/ tcb[t].p_p < tcb[t].p_s
  BY <1>1
<1>3. CASE EnrollsInP(t)
  <2>1. q_p' = q_p - 1 /\ q_s' = q_s
    BY <1>3 DEF TakeSeat
  <2>2. q_p > 0 \/ ~(q_s > 0)
    BY <1>3 DEF EnrollsInP
  <2>3. QED  BY <1>1, <2>1, <2>2
<1>4. CASE ~EnrollsInP(t)
  <2>1. q_s' = q_s - 1 /\ q_p' = q_p
    BY <1>4 DEF TakeSeat
  <2>2. ~(q_p > 0) \/ q_s > 0
    BY <1>2, <1>4 DEF EnrollsInP
  <2>3. QED  BY <1>1, <2>1, <2>2
<1>5. QED  BY <1>3, <1>4

LEMMA SpotsStep ==
    ASSUME IInv, SpotsInv, [Next]_vars
    PROVE  SpotsInv'
<1>1. q_p \in Int /\ q_s \in Int /\ Cardinality(Enrolled) \in Nat
  BY EnrolledSet DEF IInv, TypeOK
<1>2. CASE \E t \in Threads : TakeSeat(t)
  <2>1. PICK t \in Threads : TakeSeat(t)
    BY <1>2
  <2>2. Cardinality(Enrolled') = Cardinality(Enrolled) + 1 /\ Cardinality(Enrolled') \in Nat
    BY <2>1, OneEnrolls
  <2>3. q_p' + q_s' = q_p + q_s - 1
    <3>1. (q_p' = q_p - 1 /\ q_s' = q_s) \/ (q_s' = q_s - 1 /\ q_p' = q_p)
      BY <2>1 DEF TakeSeat
    <3>2. QED  BY <1>1, <3>1
  <2>4. q_p' \in Int /\ q_s' \in Int /\ SeatsP \in Int /\ SeatsS \in Int
    BY <2>1, TakeSeatStep, ProgramAssumption DEF IInv, TypeOK
  <2>5. q_p + q_s + Cardinality(Enrolled) = SeatsP + SeatsS
    BY DEF SpotsInv
  <2>6. q_p' + q_s' + Cardinality(Enrolled') = SeatsP + SeatsS
    <3> DEFINE n == Cardinality(Enrolled)
               m == Cardinality(Enrolled')
    <3>1. n \in Nat /\ m = n + 1 /\ q_p + q_s + n = SeatsP + SeatsS
      BY <1>1, <2>2, <2>5
    <3> HIDE DEF n, m
    <3>2. q_p' + q_s' + m = q_p + q_s - 1 + (n + 1)
      BY <2>3, <3>1
    <3>3. q_p + q_s - 1 + (n + 1) = q_p + q_s + n
      BY <1>1, <3>1
    <3>4. QED  BY <3>1, <3>2, <3>3 DEF m
  <2>7. QED  BY <2>6 DEF SpotsInv
<1>3. CASE \A t \in Threads : ~TakeSeat(t)
  BY <1>3, NobodyEnrolls DEF SpotsInv
<1>4. QED  BY <1>2, <1>3

(* Every spot that is gone went to a thread, whatever the preferences.     *)
THEOREM SpotsAreCounted == Spec => []SpotsInv
<1>1. ASSUME Init
      PROVE  SpotsInv
  <2>1. Enrolled = {}
    BY <1>1, RoutinesAreDisjoint DEF Init, Enrolled
  <2>2. Cardinality(Enrolled) = 0 /\ SeatsP \in Nat /\ SeatsS \in Nat
    BY <2>1, FS_EmptySet, ProgramAssumption
  <2>3. QED  BY <1>1, <2>2 DEF Init, SpotsInv
<1>2. IInv /\ SpotsInv /\ [Next]_vars => SpotsInv'
  BY SpotsStep
<1>3. QED  BY <1>1, <1>2, Invariance, PTL DEF Spec

(* OverbookedOnlyByTies: a class gets more threads than it has spots only  *)
(* for want of spots, or when a thread had no preference.                  *)
THEOREM OverbookedByTies == Spec => []OverbookedOnlyByTies
<1>1. Init => OverbookedOnlyByTies
  BY ProgramAssumption DEF Init, OverbookedOnlyByTies
<1>2. ASSUME IInv, IInv', SpotsInv, SpotsInv', OverbookedOnlyByTies, [Next]_vars
      PROVE  OverbookedOnlyByTies'
  <2> SUFFICES ASSUME q_p' < 0 \/ q_s' < 0,
                      \A t \in Enrolled' : tcb'[t].p_p # tcb'[t].p_s
               PROVE  Cardinality(Enrolled') > SeatsP + SeatsS
    BY DEF OverbookedOnlyByTies
  <2>1. /\ SeatsP \in Int /\ SeatsS \in Int
        /\ Cardinality(Enrolled) \in Nat /\ Cardinality(Enrolled') \in Nat
    <3>1. Enrolled' \in SUBSET Threads
      BY RoutinesAreDisjoint DEF Enrolled
    <3>2. Cardinality(Enrolled') \in Nat
      BY <3>1, SleepersFit, FS_CardinalityType
    <3>3. QED  BY <3>2, EnrolledSet, ProgramAssumption
  <2>2. \A t \in Enrolled : tcb[t].p_p # tcb[t].p_s
    BY <1>2, ChoiceIsMade
  <2>3. q_p < 0 \/ q_s < 0 => Cardinality(Enrolled) > SeatsP + SeatsS
    BY <1>2, <2>2 DEF OverbookedOnlyByTies
  <2>4. CASE \E t \in Threads : TakeSeat(t)
    <3>1. PICK t \in Threads : TakeSeat(t)
      BY <2>4
    <3>2. /\ Cardinality(Enrolled') = Cardinality(Enrolled) + 1
          /\ t \in Enrolled' /\ tcb' = tcb
      BY <1>2, <3>1, OneEnrolls
    <3>3. tcb[t].p_p # tcb[t].p_s
      BY <3>2
    <3>4. q_p < 0 \/ q_s < 0 \/ q_p' + q_s' < 0
      BY <1>2, <3>1, <3>3, NoSpotLeft
    <3>5. q_p' \in Int /\ q_s' \in Int
      BY <1>2 DEF IInv, TypeOK
    <3>6. CASE q_p < 0 \/ q_s < 0
      BY <2>1, <2>3, <3>2, <3>6
    <3>7. CASE q_p' + q_s' < 0
      <4>1. q_p' + q_s' + Cardinality(Enrolled') = SeatsP + SeatsS
        BY <1>2 DEF SpotsInv
      <4>2. QED  BY <2>1, <3>5, <3>7, <4>1
    <3>8. QED  BY <3>4, <3>6, <3>7
  <2>5. CASE \A t \in Threads : ~TakeSeat(t)
    <3>1. Enrolled' = Enrolled /\ UNCHANGED <<q_p, q_s>>
      BY <1>2, <2>5, NobodyEnrolls
    <3>2. QED  BY <2>3, <3>1
  <2>6. QED  BY <2>4, <2>5
<1>3. /\ IInv /\ IInv' /\ SpotsInv /\ SpotsInv' /\ OverbookedOnlyByTies /\ [Next]_vars
      => OverbookedOnlyByTies'
  BY <1>2
<1>4. QED  BY <1>1, <1>3, Invariance, SpotsAreCounted, PTL DEF Spec

-----------------------------------------------------------------------------
(* The numbers.                                                            *)

LEMMA FibonacciNumbers ==
    ASSUME IInv, NEW t \in Threads, FibonacciTurn(t), RightNumbers(t)
    PROVE  RightNumbers(t)'
<1> DEFINE c == tcb[t]
           d == tcb'[t]
<1>1. c \in Tcb /\ t \notin Pm /\ t \in Fibonacci
  BY RoutinesAreDisjoint DEF IInv, TypeOK, FibonacciTurn
<1>2. d = NextFibonacci(c)
  BY <1>1 DEF FibonacciTurn, Turn, IInv, TypeOK
<1>3. /\ c.i \in Nat /\ c.f_cur \in Int /\ c.f_prev \in Int
      /\ c.i > 0 => c.f_cur = Fib[c.i]
      /\ c.i >= 2 => c.f_prev = Fib[c.i - 1]
  <2>1. c.i \in Nat /\ c.f_cur \in Int /\ c.f_prev \in Int
    BY <1>1 DEF Tcb
  <2>2. QED  BY <1>1, <2>1 DEF RightNumbers
<1> HIDE DEF c
<1>4. /\ d.i = c.i + 1
      /\ c.i + 1 <= 2 => d.f_cur = 1 /\ d.f_prev = 1
      /\ c.i + 1 > 2 => d.f_cur = c.f_cur + c.f_prev /\ d.f_prev = c.f_cur
  <2>1. c.i + 1 \in Nat /\ c.f_cur + c.f_prev \in Int /\ 1 \in Int
    BY <1>3
  <2>2. d = IF c.i + 1 <= 2 THEN SetNumbers(c, c.i + 1, 1, 1)
            ELSE SetNumbers(c, c.i + 1, c.f_cur + c.f_prev, c.f_cur)
    BY <1>1, <1>2, NextFibonacciSets
  <2> HIDE DEF d
  <2>3. CASE c.i + 1 <= 2
    <3>1. d = SetNumbers(c, c.i + 1, 1, 1)
      BY <2>2, <2>3
    <3>2. d.i = c.i + 1 /\ d.f_cur = 1 /\ d.f_prev = 1
      BY <1>1, <2>1, <3>1, NumbersAreSet
    <3>3. QED  BY <2>3, <3>2, <1>3
  <2>4. CASE ~(c.i + 1 <= 2)
    <3>1. d = SetNumbers(c, c.i + 1, c.f_cur + c.f_prev, c.f_cur)
      BY <2>2, <2>4
    <3>2. d.i = c.i + 1 /\ d.f_cur = c.f_cur + c.f_prev /\ d.f_prev = c.f_cur
      BY <1>1, <1>3, <2>1, <3>1, NumbersAreSet
    <3>3. QED  BY <2>4, <3>2
  <2>5. QED  BY <2>3, <2>4
<1> HIDE DEF d
<1>5. d.f_cur = Fib[d.i] /\ (d.i >= 2 => d.f_prev = Fib[d.i - 1])
  <2>1. CASE c.i + 1 <= 2
    <3>1. Fib[c.i + 1] = 1 /\ Fib[c.i] = 1
      BY <1>3, <2>1, FibEquation
    <3>2. c.i + 1 - 1 = c.i
      BY <1>3
    <3>3. QED  BY <1>3, <1>4, <2>1, <3>1, <3>2
  <2>2. CASE c.i + 1 > 2
    <3>1. Fib[c.i + 1] = Fib[c.i + 1 - 1] + Fib[c.i + 1 - 2] /\ c.i + 1 - 1 = c.i /\ c.i + 1 - 2 = c.i - 1
      BY <1>3, <2>2, FibEquation
    <3>2. c.f_cur = Fib[c.i] /\ c.f_prev = Fib[c.i - 1]
      BY <1>3, <2>2
    <3>3. QED  BY <1>3, <1>4, <2>2, <3>1, <3>2
  <2>3. QED  BY <1>3, <2>1, <2>2
<1>6. QED  BY <1>1, <1>5 DEF RightNumbers, d

LEMMA PmNumbers ==
    ASSUME IInv, NEW t \in Threads, PmTurn(t), RightNumbers(t)
    PROVE  RightNumbers(t)'
<1> DEFINE c == tcb[t]
           d == tcb'[t]
           f == PmTerm(c.i + 1) + c.f_prev
<1>1. c \in Tcb /\ t \in Pm /\ t \notin Fibonacci
  BY RoutinesAreDisjoint DEF IInv, TypeOK, PmTurn
<1>2. d = NextPm(c)
  BY <1>1 DEF PmTurn, Turn, IInv, TypeOK
<1>3. c.i \in Nat /\ (c.i > 0 => c.f_prev = AlternatingSum(c.i))
  <2>1. c.i \in Nat
    BY <1>1 DEF Tcb
  <2>2. QED  BY <1>1, <2>1 DEF RightNumbers
<1> HIDE DEF c
<1>4. d.i = c.i + 1 /\ d.f_cur = d.f_prev /\ d.f_cur = IF c.i + 1 = 1 THEN 1 ELSE f
  <2>1. c.i + 1 \in Nat /\ f \in Int /\ 1 \in Int
    BY <1>1, NextPmSets
  <2>2. d = IF c.i + 1 = 1 THEN SetNumbers(c, c.i + 1, 1, 1) ELSE SetNumbers(c, c.i + 1, f, f)
    BY <1>1, <1>2, NextPmSets
  <2> HIDE DEF d, f
  <2>3. CASE c.i + 1 = 1
    <3>1. d = SetNumbers(c, c.i + 1, 1, 1)
      BY <2>2, <2>3
    <3>2. QED  BY <1>1, <2>1, <2>3, <3>1, NumbersAreSet
  <2>4. CASE c.i + 1 # 1
    <3>1. d = SetNumbers(c, c.i + 1, f, f)
      BY <2>2, <2>4
    <3>2. QED  BY <1>1, <2>1, <2>4, <3>1, NumbersAreSet
  <2>5. QED  BY <2>3, <2>4
<1>5. d.f_cur = AlternatingSum(d.i)
  <2>1. CASE c.i + 1 = 1
    BY <1>4, <2>1, <1>3, NextSum
  <2>2. CASE c.i + 1 # 1
    <3>1. f = AlternatingSum(c.i + 1)
      BY <1>3, <2>2, NextSum
    <3>2. QED  BY <1>4, <2>2, <3>1
  <2>3. QED  BY <2>1, <2>2
<1>6. QED  BY <1>1, <1>4, <1>5 DEF RightNumbers, d

(* NumbersAreRight: fibonacci prints the Fibonacci numbers and pm the      *)
(* alternating sums, however the threads take turns.                       *)
THEOREM NumbersStayRight == Spec => []NumbersAreRight
<1>1. Init => NumbersInv
  BY DEF Init, NumbersInv, RightNumbers
<1>2. ASSUME IInv, NumbersInv, [Next]_vars
      PROVE  NumbersInv'
  <2>1. ASSUME NEW t \in Threads
        PROVE  RightNumbers(t)'
    <3>1. CASE KeepsNumbers(t)
      BY <1>2, <3>1 DEF KeepsNumbers, NumbersInv, RightNumbers
    <3>2. CASE FibonacciTurn(t) \/ PmTurn(t)
      BY <1>2, <3>2, FibonacciNumbers, PmNumbers DEF NumbersInv
    <3>3. QED  BY <1>2, <3>1, <3>2, TcbFrame
  <2>2. QED  BY <2>1 DEF NumbersInv
<1>3. NumbersInv => NumbersAreRight
  BY DEF NumbersInv, RightNumbers, NumbersAreRight
<1>4. IInv /\ NumbersInv /\ [Next]_vars => NumbersInv'
  BY <1>2
<1>5. QED  BY <1>1, <1>3, <1>4, Invariance, PTL DEF Spec
=============================================================================
