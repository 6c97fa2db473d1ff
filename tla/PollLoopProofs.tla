---------------------------- MODULE PollLoopProofs ----------------------------
(***************************************************************************)
(* Proofs about PollLoop, for any number of connections and slots, any     *)
(* TIME_OUT and any width of an int that is large enough for it.           *)
(***************************************************************************)
EXTENDS PollLoopInvariant, NumberLemmas, FiniteSetTheorems, TLAPS

-----------------------------------------------------------------------------
(* Numbers.                                                                *)

LEMMA Bounds ==
    /\ TIME_OUT \in Nat /\ TIME_OUT > 0
    /\ MaxTurn \in Nat /\ MaxFailures \in Nat /\ Width \in Nat
    /\ Slack \in Nat
    /\ Old = TIME_OUT + Slack + 1
    /\ Width > 2 * (TIME_OUT + Slack)
    /\ MinInt \in Int /\ MaxInt \in Int
    /\ MaxInt - MinInt = Width - 1
    /\ MinInt + MaxInt = -1
    /\ 0 \in Ints
<1>1. TIME_OUT \in Nat /\ TIME_OUT > 0 /\ MaxTurn \in Nat /\ MaxFailures \in Nat /\ Width \in Nat
  BY LoopAssumption
<1>2. Slack \in Nat
  BY <1>1 DEF Slack
<1>3. Old = TIME_OUT + Slack + 1 /\ Width > 2 * (TIME_OUT + Slack)
  BY LoopAssumption DEF Old, Slack
<1>4. MinInt \in Int /\ MaxInt \in Int /\ MaxInt - MinInt = Width - 1 /\ MinInt + MaxInt = -1
  BY LoopAssumption DEF MinInt, MaxInt
<1>5. 0 \in Ints
  BY <1>1, <1>2, <1>3, <1>4 DEF Ints
<1>6. QED  BY <1>1, <1>2, <1>3, <1>4, <1>5

(* What ToInt does to a number that is a little too large.                 *)
LEMMA ToIntWraps ==
    ASSUME NEW n \in Int, MinInt <= n, n <= MaxInt + Width
    PROVE  /\ ToInt(n) \in Ints
           /\ ToInt(n) = n \/ ToInt(n) = n - Width
<1>1. n - MinInt \in Nat /\ n - MinInt < 2 * Width
  BY Bounds
<1>2. (n - MinInt) % Width = IF n - MinInt < Width THEN n - MinInt ELSE n - MinInt - Width
  BY <1>1, SmallRemainder, Bounds
<1>3. QED  BY <1>1, <1>2, Bounds DEF ToInt, Ints

(* The turns without visits so far, in time.                               *)
LEMMA TurnsWithoutVisits ==
    ASSUME TypeOK
    PROVE  /\ failed * MaxTurn \in Nat
           /\ (failed + 1) * MaxTurn = failed * MaxTurn + MaxTurn
           /\ (2 + failed) * MaxTurn = failed * MaxTurn + MaxTurn + MaxTurn
           /\ failed * MaxTurn + MaxTurn + MaxTurn <= Slack
<1>1. failed \in Nat /\ MaxFailures \in Nat /\ MaxTurn \in Nat /\ failed <= MaxFailures
  BY Bounds DEF TypeOK
<1>2. /\ failed * MaxTurn \in Nat
      /\ (failed + 1) * MaxTurn = failed * MaxTurn + MaxTurn
      /\ (2 + failed) * MaxTurn = failed * MaxTurn + MaxTurn + MaxTurn
  BY <1>1
<1>3. failed * MaxTurn <= MaxFailures * MaxTurn
  BY <1>1
<1>4. Slack = MaxFailures * MaxTurn + MaxTurn + MaxTurn
  BY <1>1 DEF Slack
<1>5. MaxFailures * MaxTurn \in Nat
  BY <1>1
<1> DEFINE f == failed * MaxTurn
           g == MaxFailures * MaxTurn
<1> HIDE DEF f, g
<1>6. f + MaxTurn + MaxTurn <= g + MaxTurn + MaxTurn
  <2>1. f \in Nat /\ g \in Nat /\ f <= g
    BY <1>2, <1>3, <1>5 DEF f, g
  <2>2. QED  BY <1>1, <2>1
<1>7. QED  BY <1>2, <1>4, <1>6 DEF f, g

LEMMA LateBounds ==
    ASSUME TypeOK, NEW i \in Slots
    PROVE  Late(i) \in Nat /\ turn <= Late(i) /\ Late(i) <= Slack
<1> DEFINE f == failed * MaxTurn
<1>1. f \in Nat /\ f + MaxTurn + MaxTurn <= Slack
  BY TurnsWithoutVisits
<1>2. Late(i) \in {turn, f + turn, f + MaxTurn + turn}
  BY DEF Late
<1>3. turn \in Nat /\ turn <= MaxTurn /\ MaxTurn \in Nat /\ Slack \in Nat
  BY Bounds DEF TypeOK
<1> HIDE DEF f
<1>4. QED  BY <1>1, <1>2, <1>3

-----------------------------------------------------------------------------
(* A connection that is not closed when it is visited is not over its      *)
(* deadline: unless it is at the edge, the clock cannot have passed the    *)
(* largest int since.                                                      *)
LEMMA NotPassedIsOnTime ==
    ASSUME TypeOK, SlotInv, ClockInv, LateInv, NEW i \in Slots,
           fds[i] # NoConn, ~AtTheEdge(fds[i]), ~Passed(i)
    PROVE  age[fds[i]] < TIME_OUT
<1>1. PICK c \in open : c = fds[i] /\ c \in Conns
  BY DEF SlotInv, TypeOK
<1> DEFINE deadline == remaining_time[c]
           a == age[c]
<1>2. deadline \in Ints /\ clock \in Ints /\ a \in Nat
  BY <1>1 DEF TypeOK
<1>3. a < TIME_OUT + Slack
  <2>1. a < TIME_OUT + Late(i)
    BY <1>1 DEF LateInv
  <2>2. QED  BY <1>2, <2>1, LateBounds, Bounds
<1>4. clock \in {deadline - TIME_OUT + a, deadline - TIME_OUT + a - Width,
                 deadline - TIME_OUT + a + Width}
  <2>1. a < Old
    BY <1>2, <1>3, Bounds
  <2>2. clock \in {Expected(c), Expected(c) - Width, Expected(c) + Width}
    BY <1>1, <2>1 DEF ClockInv
  <2>3. Expected(c) = deadline - TIME_OUT + a
    BY DEF Expected
  <2>4. deadline \in Int
    BY <1>2, Bounds DEF Ints
  <2> HIDE DEF deadline, a
  <2>5. QED  BY <1>2, <2>2, <2>3, <2>4, Bounds
<1>5. deadline <= MaxInt - Slack /\ clock < deadline
  BY <1>1, <1>2, Bounds DEF AtTheEdge, Passed, Ints
<1> HIDE DEF deadline, a
<1>6. a < TIME_OUT
  <2> SUFFICES ASSUME a >= TIME_OUT PROVE FALSE
    BY <1>2, Bounds
  <2>1. /\ deadline \in Int /\ clock \in Int /\ clock >= MinInt /\ deadline >= MinInt
        /\ clock <= MaxInt
    BY <1>2, Bounds DEF Ints
  <2>2. QED  BY <1>2, <1>3, <1>4, <1>5, <2>1, Bounds
<1>7. QED  BY <1>1, <1>6 DEF a

(* And one whose deadline did not wrap and has passed is not too young.    *)
LEMMA PassedIsOld ==
    ASSUME TypeOK, SlotInv, ClockInv, NEW i \in Slots,
           fds[i] # NoConn, Passed(i), remaining_time[fds[i]] >= MinInt + TIME_OUT
    PROVE  age[fds[i]] >= TIME_OUT
<1>1. PICK c \in open : c = fds[i] /\ c \in Conns
  BY DEF SlotInv, TypeOK
<1> DEFINE deadline == remaining_time[c]
           a == age[c]
<1>2. deadline \in Ints /\ clock \in Ints /\ a \in Nat
  BY <1>1 DEF TypeOK
<1>3. a < Old => clock \in {deadline - TIME_OUT + a, deadline - TIME_OUT + a - Width,
                            deadline - TIME_OUT + a + Width}
  <2>1. a < Old => clock \in {Expected(c), Expected(c) - Width, Expected(c) + Width}
    BY <1>1 DEF ClockInv
  <2>2. Expected(c) = deadline - TIME_OUT + a
    BY DEF Expected
  <2>3. deadline \in Int
    BY <1>2, Bounds DEF Ints
  <2> HIDE DEF deadline, a
  <2>4. QED  BY <1>2, <2>1, <2>2, <2>3, Bounds
<1>4. clock >= deadline /\ deadline >= MinInt + TIME_OUT
  BY <1>1 DEF Passed
<1> HIDE DEF deadline, a
<1>5. a >= TIME_OUT
  <2> SUFFICES ASSUME a < TIME_OUT PROVE FALSE
    BY <1>2, Bounds
  <2>1. /\ deadline \in Int /\ clock \in Int /\ clock >= MinInt /\ deadline <= MaxInt
        /\ clock <= MaxInt
    BY <1>2, Bounds DEF Ints
  <2>2. QED  BY <1>2, <1>3, <1>4, <2>1, Bounds
<1>6. QED  BY <1>1, <1>5 DEF a

-----------------------------------------------------------------------------
(* Slots.                                                                  *)

LEMMA NoConnIsNone == NoConn \notin Conns
BY LoopAssumption DEF NoConn

(* There is a free slot for every connection that is not open, since there *)
(* are as many slots as descriptors.                                       *)
LEMMA FreeSlot ==
    ASSUME TypeOK, SlotInv, NEW c \in Conns, c \notin open
    PROVE  \E i \in Slots : FirstFree(i)
<1>1. \E i \in Slots : fds[i] = NoConn
  <2> SUFFICES ASSUME \A i \in Slots : fds[i] # NoConn PROVE FALSE
    OBVIOUS
  <2>1. IsFiniteSet(open) /\ Cardinality(open) < Cardinality(Conns)
    <3>1. open \in SUBSET Conns /\ open # Conns
      BY DEF TypeOK
    <3>2. Cardinality(Conns) \in Nat
      BY LoopAssumption, FS_CardinalityType
    <3>3. IsFiniteSet(open) /\ Cardinality(open) <= Cardinality(Conns)
          /\ Cardinality(open) # Cardinality(Conns)
      BY <3>1, LoopAssumption, FS_Subset
    <3>4. Cardinality(open) \in Nat
      BY <3>3, FS_CardinalityType
    <3>5. QED  BY <3>2, <3>3, <3>4
  <2>2. IsFiniteSet(Slots) /\ Cardinality(Slots) = NumSlots
    <3>1. NumSlots \in Nat /\ NumSlots >= 1
      BY LoopAssumption
    <3>2. QED  BY <3>1, FS_Interval DEF Slots
  <2>3. Cardinality(open) < Cardinality(Slots)
    <3>1. Cardinality(open) \in Nat /\ Cardinality(Conns) \in Nat /\ NumSlots \in Nat
      BY <2>1, LoopAssumption, FS_CardinalityType
    <3>2. QED  BY <2>1, <2>2, <3>1, LoopAssumption
  <2>4. fds \in [Slots -> open]
    BY DEF TypeOK, SlotInv
  <2>5. \E i, k \in Slots : i # k /\ fds[i] = fds[k]
    BY <2>1, <2>2, <2>3, <2>4, FS_PigeonHole
  <2>6. QED  BY <2>5 DEF SlotInv
<1>2. PICK i \in {k \in Slots : fds[k] = NoConn} :
         \A k \in {l \in Slots : fds[l] = NoConn} : i <= k
  <2>1. {k \in Slots : fds[k] = NoConn} \in SUBSET Nat
    BY DEF Slots
  <2>2. QED  BY <1>1, <2>1, LeastNumber
<1>3. FirstFree(i)
  <2>1. ASSUME NEW k \in 1..i-1
        PROVE  fds[k] # NoConn
    <3>1. k \in Slots /\ ~(i <= k)
      BY LoopAssumption DEF Slots
    <3>2. QED  BY <1>2, <3>1
  <2>2. QED  BY <2>1 DEF FirstFree
<1>4. QED  BY <1>3

LEMMA OneFirstFree ==
    ASSUME NEW i \in Slots, NEW k \in Slots, FirstFree(i), FirstFree(k)
    PROVE  i = k
<1>1. i \in Nat /\ k \in Nat /\ i >= 1 /\ k >= 1
  BY DEF Slots
<1>2. ~(i < k)
  BY <1>1 DEF FirstFree
<1>3. ~(k < i)
  BY <1>1 DEF FirstFree
<1>4. QED  BY <1>1, <1>2, <1>3

LEMMA Initially == Init => IInv
<1> SUFFICES ASSUME Init PROVE IInv
  OBVIOUS
<1>1. 1 \in Slots
  BY LoopAssumption DEF Slots
<1>2. TypeOK
  <2>1. 0 \in 0..Old /\ 0 \in 0..MaxTurn /\ 0 \in 0..MaxFailures
    BY Bounds
  <2>2. fds \in [Slots -> Conns \cup {NoConn}] /\ revents \in [Slots -> BOOLEAN]
    BY DEF Init
  <2>3. remaining_time \in [Conns -> Ints] /\ age \in [Conns -> 0..Old]
    BY <2>1, Bounds DEF Init
  <2>4. QED  BY <1>1, <2>1, <2>2, <2>3 DEF Init, TypeOK
<1>3. SlotInv /\ FoundInv /\ ClockInv /\ LateInv
  BY DEF Init, SlotInv, FoundInv, ClockInv, LateInv
<1>4. QED  BY <1>2, <1>3 DEF IInv

-----------------------------------------------------------------------------
(* The outside and the steps that visit nobody.                            *)

(* Nothing but the time of the connections depends on the clock.           *)
LEMMA TickStep ==
    ASSUME IInv, Tick
    PROVE  IInv'
<1>1. /\ turn < MaxTurn /\ turn' = turn + 1 /\ at # "exited"
      /\ clock' = ToInt(clock + 1)
      /\ age' = [c \in Conns |-> IF c \in open /\ age[c] < Old THEN age[c] + 1 ELSE age[c]]
      /\ UNCHANGED <<fds, revents, listening, open, remaining_time, readable, at, slot, failed>>
  BY DEF Tick, slotVars, connVars, loopVars
<1>2. clock \in Int /\ MinInt <= clock /\ clock <= MaxInt
  BY Bounds DEF IInv, TypeOK, Ints
<1>3. clock' \in Ints /\ (clock' = clock + 1 \/ clock' = clock + 1 - Width)
  BY <1>1, <1>2, ToIntWraps, Bounds
<1>4. turn \in Nat /\ MaxTurn \in Nat /\ turn' \in 0..MaxTurn
  BY <1>1, Bounds DEF IInv, TypeOK
<1>5. ASSUME NEW c \in Conns
      PROVE  /\ age[c] \in 0..Old /\ age'[c] \in 0..Old
             /\ age'[c] <= age[c] + 1
             /\ c \in open /\ age'[c] < Old => age[c] < Old /\ age'[c] = age[c] + 1
  <2>1. age[c] \in 0..Old /\ Old \in Nat
    BY Bounds DEF IInv, TypeOK
  <2>2. age'[c] = IF c \in open /\ age[c] < Old THEN age[c] + 1 ELSE age[c]
    BY <1>1
  <2>3. QED  BY <2>1, <2>2
<1>6. TypeOK'
  <2>1. age' \in [Conns -> 0..Old]
    BY <1>1, <1>5
  <2>2. QED  BY <1>1, <1>3, <1>4, <2>1 DEF IInv, TypeOK
<1>7. SlotInv' /\ FoundInv'
  BY <1>1 DEF IInv, SlotInv, FoundInv, ToVisit
<1>8. ClockInv'
  <2> SUFFICES ASSUME NEW c \in open, age'[c] < Old
               PROVE  clock' \in {Expected(c)', Expected(c)' - Width, Expected(c)' + Width}
    BY <1>1 DEF ClockInv
  <2>1. c \in Conns
    BY DEF IInv, TypeOK
  <2>2. age[c] < Old /\ age'[c] = age[c] + 1 /\ age[c] \in Int
    BY <1>5, <2>1
  <2>3. clock \in {Expected(c), Expected(c) - Width, Expected(c) + Width}
    BY <2>2 DEF IInv, ClockInv
  <2>4. remaining_time[c] \in Ints
    BY <2>1 DEF IInv, TypeOK
  <2>5. remaining_time[c] \in Int /\ MinInt <= remaining_time[c] /\ remaining_time[c] <= MaxInt
    BY <2>4, Bounds DEF Ints
  <2>6. Expected(c)' = Expected(c) + 1 /\ Expected(c) \in Int
    BY <1>1, <2>2, <2>5, Bounds DEF Expected
  <2>7. Expected(c) < MaxInt + Width
    BY <2>2, <2>5, Bounds DEF Expected
  <2>8. clock' \in Int /\ MinInt <= clock' /\ clock' <= MaxInt
    BY <1>3, Bounds DEF Ints
  <2>9. clock = Expected(c) - Width => clock' = clock + 1
    BY <1>2, <1>3, <2>6, <2>7, <2>8, Bounds
  <2>10. CASE clock = Expected(c) - Width
    BY <2>6, <2>9, <2>10, Bounds
  <2>11. CASE clock = Expected(c) \/ clock = Expected(c) + Width
    BY <1>2, <1>3, <2>6, <2>11, Bounds
  <2>12. QED  BY <2>3, <2>10, <2>11
<1>9. LateInv'
  <2> SUFFICES ASSUME NEW i \in Slots, fds[i] # NoConn, ~AtTheEdge(fds[i])
               PROVE  age'[fds[i]] < TIME_OUT + Late(i)'
    BY <1>1 DEF LateInv, AtTheEdge
  <2>1. age[fds[i]] < TIME_OUT + Late(i) /\ fds[i] \in Conns
    BY DEF IInv, LateInv, TypeOK
  <2>2. Late(i)' = Late(i) + 1
    <3>1. failed * MaxTurn \in Nat /\ failed' * MaxTurn = failed * MaxTurn
      BY <1>1, TurnsWithoutVisits DEF IInv
    <3> DEFINE f == failed * MaxTurn
    <3> HIDE DEF f
    <3>2. Late(i) = CASE at = "visit" /\ i < slot -> turn
                      [] at = "poll" -> f + turn
                      [] OTHER -> f + MaxTurn + turn
      BY DEF Late, f
    <3>3. Late(i)' = CASE at = "visit" /\ i < slot -> turn + 1
                       [] at = "poll" -> f + (turn + 1)
                       [] OTHER -> f + MaxTurn + (turn + 1)
      BY <1>1, <3>1 DEF Late, f
    <3>4. f \in Nat
      BY <3>1 DEF f
    <3>5. QED  BY <1>4, <3>2, <3>3, <3>4
  <2>3. QED  BY <1>5, <2>1, <2>2, LateBounds, Bounds DEF IInv
<1>10. QED  BY <1>6, <1>7, <1>8, <1>9 DEF IInv

LEMMA ArriveStep ==
    ASSUME IInv, NEW c \in Conns, Arrive(c)
    PROVE  IInv'
<1>1. /\ readable' = readable \cup {c} /\ c \in open
      /\ UNCHANGED <<slotVars, connVars, loopVars, timeVars, failed>>
  BY DEF Arrive
<1>2. TypeOK' /\ SlotInv' /\ FoundInv'
  BY <1>1 DEF IInv, TypeOK, SlotInv, FoundInv, ToVisit, slotVars, connVars, loopVars, timeVars
<1>3. ClockInv' /\ LateInv'
  BY <1>1 DEF IInv, ClockInv, LateInv, Late, Expected, AtTheEdge, slotVars, connVars, loopVars, timeVars
<1>4. QED  BY <1>2, <1>3 DEF IInv

(* Slots are marked only where there is something to read, and what was    *)
(* late may be later by the turn that is over.                             *)
LEMMA PollStep ==
    ASSUME IInv, Poll
    PROVE  IInv'
<1>1. /\ at = "poll" /\ at' = "accept" /\ turn' = 0
      /\ revents' = [i \in Slots |-> fds[i] \in readable]
      /\ listening' \in BOOLEAN
      /\ UNCHANGED <<slot, fds, connVars, readable, clock, age, failed>>
  BY DEF Poll
<1>2. TypeOK'
  <2>1. 0 \in 0..MaxTurn
    BY Bounds
  <2>2. QED  BY <1>1, <2>1 DEF IInv, TypeOK, connVars
<1>3. SlotInv' /\ FoundInv' /\ ClockInv'
  BY <1>1 DEF IInv, SlotInv, FoundInv, ClockInv, Expected, connVars
<1>4. LateInv'
  <2> SUFFICES ASSUME NEW i \in Slots, fds[i] # NoConn, ~AtTheEdge(fds[i])
               PROVE  age[fds[i]] < TIME_OUT + Late(i)'
    BY <1>1 DEF LateInv, AtTheEdge, connVars
  <2>1. age[fds[i]] < TIME_OUT + Late(i) /\ age[fds[i]] \in Nat
    BY DEF IInv, LateInv, TypeOK
  <2> DEFINE f == failed * MaxTurn
  <2>2. f \in Nat
    BY TurnsWithoutVisits DEF IInv
  <2>3. Late(i) = f + turn /\ Late(i)' = f + MaxTurn + 0
    BY <1>1 DEF Late
  <2>4. turn \in Nat /\ turn <= MaxTurn
    BY Bounds DEF IInv, TypeOK
  <2> HIDE DEF f
  <2>5. QED  BY <2>1, <2>2, <2>3, <2>4, Bounds
<1>5. QED  BY <1>2, <1>3, <1>4 DEF IInv

(* The turn begins its visits with what it has.                            *)
LEMMA NobodyKnocksStep ==
    ASSUME IInv, NobodyKnocks
    PROVE  IInv'
<1>1. /\ at = "accept" /\ at' = "visit" /\ slot' = 1
      /\ UNCHANGED <<slotVars, connVars, readable, timeVars, failed>>
  BY DEF NobodyKnocks, StartVisits
<1>2. 1 \in Slots /\ \A i \in Slots : ~(i < 1)
  BY LoopAssumption DEF Slots
<1>3. TypeOK' /\ SlotInv' /\ FoundInv'
  BY <1>1, <1>2 DEF IInv, TypeOK, SlotInv, FoundInv, ToVisit, slotVars, connVars, timeVars
<1>4. ClockInv'
  BY <1>1 DEF IInv, ClockInv, Expected, slotVars, connVars, timeVars
<1>5. \A i \in Slots : Late(i)' = Late(i)
  BY <1>1, <1>2 DEF Late, timeVars
<1>6. LateInv'
  BY <1>1, <1>5 DEF IInv, LateInv, AtTheEdge, slotVars, connVars, timeVars
<1>7. QED  BY <1>3, <1>4, <1>6 DEF IInv

(* A turn without visits counts as one more.                               *)
LEMMA AcceptFailsStep ==
    ASSUME IInv, AcceptFails
    PROVE  IInv'
<1>1. /\ at = "accept" /\ at' = "poll" /\ failed < MaxFailures /\ failed' = failed + 1
      /\ UNCHANGED <<slot, slotVars, connVars, readable, timeVars>>
  BY DEF AcceptFails
<1>2. failed' \in 0..MaxFailures
  BY <1>1, Bounds DEF IInv, TypeOK
<1>3. TypeOK' /\ SlotInv' /\ FoundInv'
  BY <1>1, <1>2 DEF IInv, TypeOK, SlotInv, FoundInv, ToVisit, slotVars, connVars, timeVars
<1>4. ClockInv'
  BY <1>1 DEF IInv, ClockInv, Expected, slotVars, connVars, timeVars
<1>5. ASSUME NEW i \in Slots
      PROVE  Late(i)' = Late(i)
  <2>1. Late(i) = failed * MaxTurn + MaxTurn + turn
    BY <1>1 DEF Late
  <2>2. Late(i)' = (failed + 1) * MaxTurn + turn
    BY <1>1 DEF Late, timeVars
  <2>3. QED  BY <2>1, <2>2, TurnsWithoutVisits DEF IInv
<1>6. LateInv'
  BY <1>1, <1>5 DEF IInv, LateInv, AtTheEdge, slotVars, connVars, timeVars
<1>7. QED  BY <1>3, <1>4, <1>6 DEF IInv

LEMMA AcceptExitsStep ==
    ASSUME IInv, AcceptExits
    PROVE  IInv'
<1>1. /\ at = "accept" /\ at' = "exited"
      /\ UNCHANGED <<slot, slotVars, connVars, readable, timeVars, failed>>
  BY DEF AcceptExits
<1>2. TypeOK' /\ SlotInv' /\ FoundInv'
  BY <1>1 DEF IInv, TypeOK, SlotInv, FoundInv, ToVisit, slotVars, connVars, timeVars
<1>3. ClockInv'
  BY <1>1 DEF IInv, ClockInv, Expected, slotVars, connVars, timeVars
<1>4. \A i \in Slots : Late(i)' = Late(i)
  BY <1>1 DEF Late, timeVars
<1>5. LateInv'
  BY <1>1, <1>4 DEF IInv, LateInv, AtTheEdge, slotVars, connVars, timeVars
<1>6. QED  BY <1>2, <1>3, <1>5 DEF IInv

(* The new connection gets the first free slot, which poll cannot have     *)
(* marked, and its deadline.                                               *)
LEMMA AcceptStep ==
    ASSUME IInv, NEW c \in Conns, Accept(c)
    PROVE  IInv'
<1>1. /\ at = "accept" /\ at' = "visit" /\ slot' = 1
      /\ c \notin open /\ open' = open \cup {c}
      /\ listening' = FALSE
      /\ UNCHANGED <<revents, readable, clock, turn, failed>>
  BY DEF Accept, StartVisits
<1>2. 1 \in Slots /\ \A i \in Slots : ~(i < 1)
  BY LoopAssumption DEF Slots
<1>3. PICK n \in Slots : FirstFree(n)
  BY <1>1, FreeSlot DEF IInv
<1>4. fds[n] = NoConn /\ fds' \in [Slots -> Conns \cup {NoConn}]
      /\ fds'[n] = c /\ \A i \in Slots \ {n} : fds'[i] = fds[i]
  <2>1. fds' = [i \in Slots |-> IF FirstFree(i) THEN c ELSE fds[i]]
    BY DEF Accept
  <2>2. fds[n] = NoConn
    BY <1>3 DEF FirstFree
  <2>3. \A i \in Slots : FirstFree(i) => i = n
    BY <1>3, OneFirstFree
  <2>4. QED  BY <1>3, <2>1, <2>2, <2>3 DEF IInv, TypeOK
<1>5. /\ remaining_time' \in [Conns -> Ints]
      /\ remaining_time'[c] = clock + TIME_OUT \/ remaining_time'[c] = clock + TIME_OUT - Width
      /\ \A d \in Conns \ {c} : remaining_time'[d] = remaining_time[d]
  <2>1. clock \in Int /\ MinInt <= clock /\ clock <= MaxInt
    BY Bounds DEF IInv, TypeOK, Ints
  <2>2. /\ ToInt(clock + TIME_OUT) \in Ints
        /\ \/ ToInt(clock + TIME_OUT) = clock + TIME_OUT
           \/ ToInt(clock + TIME_OUT) = clock + TIME_OUT - Width
    BY <2>1, ToIntWraps, Bounds
  <2> DEFINE deadline == ToInt(clock + TIME_OUT)
  <2>3. remaining_time' = [remaining_time EXCEPT ![c] = deadline]
    BY DEF Accept
  <2>4. deadline \in Ints /\ (deadline = clock + TIME_OUT \/ deadline = clock + TIME_OUT - Width)
    BY <2>2
  <2> HIDE DEF deadline
  <2>5. QED  BY <2>3, <2>4 DEF IInv, TypeOK
<1>6. /\ age' \in [Conns -> 0..Old]
      /\ age'[c] = 0
      /\ \A d \in Conns \ {c} : age'[d] = age[d]
  <2>1. age' = [age EXCEPT ![c] = 0] /\ 0 \in 0..Old
    BY Bounds DEF Accept
  <2>2. QED  BY <2>1 DEF IInv, TypeOK
<1>7. TypeOK'
  <2>1. open' \subseteq Conns /\ readable' \subseteq open'
    BY <1>1 DEF IInv, TypeOK
  <2>2. QED  BY <1>1, <1>2, <1>4, <1>5, <1>6, <2>1 DEF IInv, TypeOK
<1>8. c # NoConn
  BY NoConnIsNone
<1>9. \A i \in Slots : fds[i] # c
  BY <1>1, <1>8 DEF IInv, SlotInv
<1>10. SlotInv'
  <2>1. \A i \in Slots : fds'[i] # NoConn => fds'[i] \in open'
    BY <1>1, <1>4 DEF IInv, SlotInv
  <2>2. \A d \in open' : \E i \in Slots : fds'[i] = d
    <3>1. ASSUME NEW d \in open
          PROVE  \E i \in Slots : fds'[i] = d
      <4>1. PICK i \in Slots : fds[i] = d
        BY DEF IInv, SlotInv
      <4>2. i # n
        BY <1>4, <4>1, NoConnIsNone DEF IInv, TypeOK
      <4>3. QED  BY <1>4, <4>1, <4>2
    <3>2. QED  BY <1>1, <1>4, <3>1
  <2>3. \A i, k \in Slots : fds'[i] = fds'[k] /\ fds'[i] # NoConn => i = k
    BY <1>4, <1>9 DEF IInv, SlotInv
  <2>4. QED  BY <2>1, <2>2, <2>3 DEF SlotInv
<1>11. FoundInv'
  <2> SUFFICES ASSUME NEW i \in Slots, revents[i] PROVE fds'[i] \in readable
    BY <1>1 DEF FoundInv
  <2>1. fds[i] \in readable
    BY <1>1 DEF IInv, FoundInv, ToVisit
  <2>2. i # n
    BY <1>4, <2>1, NoConnIsNone DEF IInv, TypeOK
  <2>3. QED  BY <1>4, <2>1, <2>2
<1>12. ClockInv'
  <2> SUFFICES ASSUME NEW d \in open', age'[d] < Old
               PROVE  clock \in {Expected(d)', Expected(d)' - Width, Expected(d)' + Width}
    BY <1>1 DEF ClockInv
  <2>1. CASE d = c
    <3>1. clock \in Int
      BY Bounds DEF IInv, TypeOK, Ints
    <3>2. Expected(d)' = remaining_time'[c] - TIME_OUT + 0
      BY <1>6, <2>1 DEF Expected
    <3>3. QED  BY <1>5, <3>1, <3>2, Bounds
  <2>2. CASE d # c
    <3>1. d \in open /\ d \in Conns
      BY <1>1, <2>2 DEF IInv, TypeOK
    <3>2. Expected(d)' = Expected(d) /\ age[d] < Old
      BY <1>5, <1>6, <2>2, <3>1 DEF Expected
    <3>3. QED  BY <3>1, <3>2 DEF IInv, ClockInv
  <2>3. QED  BY <2>1, <2>2
<1>13. LateInv'
  <2> SUFFICES ASSUME NEW i \in Slots, fds'[i] # NoConn,
                      ~(remaining_time'[fds'[i]] > MaxInt - Slack)
               PROVE  age'[fds'[i]] < TIME_OUT + Late(i)'
    BY DEF LateInv, AtTheEdge
  <2>1. Late(i)' = Late(i)
    BY <1>1, <1>2 DEF Late
  <2>2. CASE i = n
    <3>1. age'[fds'[i]] = 0
      BY <1>4, <1>6, <2>2
    <3>2. QED  BY <2>1, <3>1, LateBounds, Bounds DEF IInv
  <2>3. CASE i # n
    <3>1. fds'[i] = fds[i] /\ fds[i] # c /\ fds[i] \in Conns /\ fds[i] # NoConn
      BY <1>4, <1>9, <2>3 DEF IInv, TypeOK
    <3>2. age'[fds[i]] = age[fds[i]] /\ ~AtTheEdge(fds[i])
      BY <1>5, <1>6, <3>1 DEF AtTheEdge
    <3>3. QED  BY <2>1, <3>1, <3>2 DEF IInv, LateInv
  <2>4. QED  BY <2>2, <2>3
<1>14. QED  BY <1>7, <1>10, <1>11, <1>12, <1>13 DEF IInv

-----------------------------------------------------------------------------
(* The visits.                                                             *)

(* The slot that is visited has not to be visited any more in this turn.   *)
LEMMA GoOnMoves ==
    ASSUME TypeOK, NEW i \in Slots, At(i), GoOn(i), turn' = turn
    PROVE  /\ at' \in {"poll", "visit"} /\ slot' \in Slots /\ failed' \in 0..MaxFailures
           /\ \A k \in Slots : ToVisit(k)' => ToVisit(k) /\ k # i
           /\ \A k \in Slots \ {i} : Late(k)' = Late(k)
           /\ Late(i)' = turn
<1>1. at = "visit" /\ slot = i
  BY DEF At
<1>2. /\ NumSlots \in Nat /\ 1 <= NumSlots
      /\ \A k \in Slots : k \in Nat /\ 1 <= k /\ k <= NumSlots
      /\ \A k \in Nat : 1 <= k /\ k <= NumSlots => k \in Slots
  BY LoopAssumption DEF Slots
<1>3. turn \in Nat /\ MaxTurn \in Nat /\ 0 \in 0..MaxFailures
  BY Bounds DEF TypeOK
<1>4. CASE i = NumSlots
  <2>1. at' = "poll" /\ slot' = 1 /\ failed' = 0
    BY <1>4 DEF GoOn
  <2>2. \A k \in Slots : Late(k)' = turn
    <3>1. 0 * MaxTurn + turn = turn
      BY <1>3
    <3>2. QED  BY <2>1, <3>1 DEF Late
  <2>3. \A k \in Slots \ {i} : Late(k) = turn
    <3>1. \A k \in Slots \ {i} : k < slot
      BY <1>1, <1>2, <1>4
    <3>2. QED  BY <1>1, <3>1 DEF Late
  <2>4. QED  BY <1>2, <1>3, <2>1, <2>2, <2>3 DEF ToVisit
<1>5. CASE i # NumSlots
  <2>1. at' = "visit" /\ slot' = i + 1 /\ failed' = failed
    BY <1>1, <1>5 DEF GoOn
  <2>2. \A k \in Slots : k < i + 1 <=> k < i \/ k = i
    BY <1>2
  <2>3. \A k \in Slots \ {i} : Late(k)' = Late(k)
    BY <1>1, <2>1, <2>2 DEF Late
  <2>4. Late(i)' = turn
    BY <1>1, <2>1, <2>2 DEF Late
  <2>5. \A k \in Slots : k >= i + 1 => k >= i /\ k # i
    BY <1>2
  <2>6. slot' \in Slots
    BY <1>2, <1>5, <2>1
  <2>7. QED  BY <1>1, <2>1, <2>3, <2>4, <2>5, <2>6 DEF ToVisit, TypeOK
<1>6. QED  BY <1>4, <1>5

(* The connection of the slot stays, and what was to read may be read.     *)
LEMMA StayStep ==
    ASSUME IInv, NEW i \in Slots, At(i), GoOn(i),
           fds[i] # NoConn => ~Passed(i),
           readable' \in {readable, readable \ {fds[i]}},
           UNCHANGED <<fds, revents, listening, open, remaining_time, clock, turn, age>>
    PROVE  IInv'
<1>1. /\ at' \in {"poll", "visit"} /\ slot' \in Slots /\ failed' \in 0..MaxFailures
      /\ \A k \in Slots : ToVisit(k)' => ToVisit(k) /\ k # i
      /\ \A k \in Slots \ {i} : Late(k)' = Late(k)
      /\ Late(i)' = turn
  BY GoOnMoves DEF IInv
<1>2. TypeOK' /\ SlotInv'
  BY <1>1 DEF IInv, TypeOK, SlotInv
<1>3. ClockInv'
  BY DEF IInv, ClockInv, Expected
<1>4. FoundInv'
  <2> SUFFICES ASSUME NEW k \in Slots, ToVisit(k)', revents[k]
               PROVE  fds[k] \in readable'
    BY DEF FoundInv
  <2>1. fds[k] \in readable /\ k # i
    BY <1>1 DEF IInv, FoundInv
  <2>2. fds[k] # NoConn
    BY <2>1, NoConnIsNone DEF IInv, TypeOK
  <2>3. fds[k] # fds[i]
    BY <2>1, <2>2 DEF IInv, SlotInv
  <2>4. QED  BY <2>1, <2>3
<1>5. LateInv'
  <2> SUFFICES ASSUME NEW k \in Slots, fds[k] # NoConn, ~AtTheEdge(fds[k])
               PROVE  age[fds[k]] < TIME_OUT + Late(k)'
    BY DEF LateInv, AtTheEdge
  <2>1. CASE k = i
    <3>1. age[fds[i]] < TIME_OUT /\ age[fds[i]] \in Nat
      BY <2>1, NotPassedIsOnTime DEF IInv, TypeOK
    <3>2. turn \in Nat
      BY Bounds DEF IInv, TypeOK
    <3>3. QED  BY <1>1, <2>1, <3>1, <3>2, Bounds
  <2>2. CASE k # i
    BY <1>1, <2>2 DEF IInv, LateInv
  <2>3. QED  BY <2>1, <2>2
<1>6. QED  BY <1>2, <1>3, <1>4, <1>5 DEF IInv

(* The connection of the slot is closed, and its request cleared.          *)
LEMMA CloseStep ==
    ASSUME IInv, NEW i \in Slots, At(i), GoOn(i), fds[i] # NoConn, Close(i),
           UNCHANGED <<revents, listening, clock, turn>>
    PROVE  IInv'
<1>1. /\ at' \in {"poll", "visit"} /\ slot' \in Slots /\ failed' \in 0..MaxFailures
      /\ \A k \in Slots : ToVisit(k)' => ToVisit(k) /\ k # i
      /\ \A k \in Slots \ {i} : Late(k)' = Late(k)
  BY GoOnMoves DEF IInv
<1>2. PICK c \in open : c = fds[i] /\ c \in Conns /\ c # NoConn
  BY NoConnIsNone DEF IInv, SlotInv, TypeOK
<1>3. /\ open' = open \ {c} /\ readable' = readable \ {c}
      /\ fds' = [fds EXCEPT ![i] = NoConn]
      /\ remaining_time' = [d \in Conns |-> IF d = c THEN 0 ELSE remaining_time[d]]
      /\ age' = [d \in Conns |-> IF d = c THEN 0 ELSE age[d]]
  BY <1>2 DEF Close
<1>4. /\ fds' \in [Slots -> Conns \cup {NoConn}] /\ fds'[i] = NoConn
      /\ \A k \in Slots \ {i} : fds'[k] = fds[k]
  BY <1>3 DEF IInv, TypeOK
<1>5. \A k \in Slots \ {i} : fds[k] # c
  BY <1>2 DEF IInv, SlotInv
<1>6. TypeOK'
  <2>1. remaining_time' \in [Conns -> Ints] /\ age' \in [Conns -> 0..Old]
    <3>1. 0 \in Ints /\ 0 \in 0..Old
      BY Bounds
    <3>2. QED  BY <1>3, <3>1 DEF IInv, TypeOK
  <2>2. QED  BY <1>1, <1>3, <1>4, <2>1 DEF IInv, TypeOK
<1>7. SlotInv'
  <2>1. \A k \in Slots : fds'[k] # NoConn => fds'[k] \in open'
    BY <1>3, <1>4, <1>5 DEF IInv, SlotInv
  <2>2. ASSUME NEW d \in open'
        PROVE  \E k \in Slots : fds'[k] = d
    <3>1. PICK k \in Slots : fds[k] = d
      BY <1>3 DEF IInv, SlotInv
    <3>2. QED  BY <1>2, <1>3, <1>4, <3>1
  <2>3. \A k, l \in Slots : fds'[k] = fds'[l] /\ fds'[k] # NoConn => k = l
    BY <1>4 DEF IInv, SlotInv
  <2>4. QED  BY <2>1, <2>2, <2>3 DEF SlotInv
<1>8. FoundInv'
  <2> SUFFICES ASSUME NEW k \in Slots, ToVisit(k)', revents[k]
               PROVE  fds'[k] \in readable'
    BY DEF FoundInv
  <2>1. fds[k] \in readable /\ k # i
    BY <1>1 DEF IInv, FoundInv
  <2>2. QED  BY <1>3, <1>4, <1>5, <2>1
<1>9. ClockInv'
  <2> SUFFICES ASSUME NEW d \in open', age'[d] < Old
               PROVE  clock \in {Expected(d)', Expected(d)' - Width, Expected(d)' + Width}
    BY DEF ClockInv
  <2>1. d \in open /\ d \in Conns /\ d # c
    BY <1>3 DEF IInv, TypeOK
  <2>2. Expected(d)' = Expected(d) /\ age[d] < Old
    BY <1>3, <2>1 DEF Expected
  <2>3. QED  BY <2>1, <2>2 DEF IInv, ClockInv
<1>10. LateInv'
  <2> SUFFICES ASSUME NEW k \in Slots, fds'[k] # NoConn,
                      ~(remaining_time'[fds'[k]] > MaxInt - Slack)
               PROVE  age'[fds'[k]] < TIME_OUT + Late(k)'
    BY DEF LateInv, AtTheEdge
  <2>1. k # i /\ fds'[k] = fds[k] /\ fds[k] \in Conns /\ fds[k] # c
    BY <1>4, <1>5 DEF IInv, TypeOK
  <2>2. age'[fds[k]] = age[fds[k]] /\ ~AtTheEdge(fds[k])
    BY <1>3, <2>1 DEF AtTheEdge
  <2>3. QED  BY <1>1, <2>1, <2>2 DEF IInv, LateInv
<1>11. QED  BY <1>6, <1>7, <1>8, <1>9, <1>10 DEF IInv

LEMMA VisitStep ==
    ASSUME IInv, NEW i \in Slots, Visit(i)
    PROVE  IInv'
<1>1. CASE Skip(i)
  BY <1>1, StayStep DEF Skip, slotVars, connVars, timeVars
<1>2. CASE Quiet(i)
  BY <1>2, StayStep DEF Quiet, slotVars, connVars, timeVars
<1>3. CASE Serve(i)
  BY <1>3, StayStep DEF Serve, Reads, slotVars, connVars, timeVars
<1>4. CASE TimeOut(i)
  BY <1>4, CloseStep DEF TimeOut
<1>5. CASE Dismiss(i)
  BY <1>5, CloseStep DEF Dismiss, Reads
<1>6. QED  BY <1>1, <1>2, <1>3, <1>4, <1>5 DEF Visit

-----------------------------------------------------------------------------
LEMMA NextStep == IInv /\ [Next]_vars => IInv'
<1> SUFFICES ASSUME IInv, [Next]_vars PROVE IInv'
  OBVIOUS
<1>1. CASE UNCHANGED vars
  <2>1. TypeOK' /\ SlotInv' /\ FoundInv'
    BY <1>1 DEF vars, slotVars, connVars, loopVars, timeVars, IInv, TypeOK, SlotInv, FoundInv, ToVisit
  <2>2. ClockInv' /\ LateInv'
    BY <1>1 DEF vars, slotVars, connVars, loopVars, timeVars, IInv, ClockInv, LateInv, Late,
                Expected, AtTheEdge
  <2>3. QED  BY <2>1, <2>2 DEF IInv
<1>2. CASE Loop
  BY <1>2, PollStep, NobodyKnocksStep, AcceptStep, AcceptFailsStep, AcceptExitsStep, VisitStep
     DEF Loop
<1>3. QED  BY <1>1, <1>2, TickStep, ArriveStep DEF Next, Exited

LEMMA Invariance == Spec => []IInv
BY Initially, NextStep, PTL DEF Spec

(* However connections come and go, each has one slot, and no slot holds a *)
(* descriptor that is closed; there is a slot for every descriptor.        *)
THEOREM SlotsStayRight == Spec => []SlotsAreRight
<1>1. IInv => SlotsAreRight
  <2> SUFFICES ASSUME IInv, NEW c \in Conns
               PROVE  Cardinality({i \in Slots : fds[i] = c}) = IF c \in open THEN 1 ELSE 0
    BY DEF SlotsAreRight
  <2>1. CASE c \in open
    <3>1. PICK i \in Slots : fds[i] = c
      BY <2>1 DEF IInv, SlotInv
    <3>2. {k \in Slots : fds[k] = c} = {i}
      BY <3>1, NoConnIsNone DEF IInv, SlotInv
    <3>3. QED  BY <2>1, <3>2, FS_Singleton
  <2>2. CASE c \notin open
    <3>1. {k \in Slots : fds[k] = c} = {}
      BY <2>2, NoConnIsNone DEF IInv, SlotInv
    <3>2. QED  BY <2>2, <3>1, FS_EmptySet
  <2>3. QED  BY <2>1, <2>2
<1>2. QED  BY <1>1, Invariance, PTL

(* No read waits: what poll has found is still there when the loop comes   *)
(* to the slot, though other slots were emptied and filled in between.     *)
THEOREM NoReadWaits == Spec => []ReadDoesNotWait
<1>1. IInv => ReadDoesNotWait
  <2> SUFFICES ASSUME IInv, NEW i \in Slots, Reads(i) PROVE fds[i] \in readable
    BY DEF ReadDoesNotWait
  <2>1. ToVisit(i) /\ revents[i]
    BY DEF Reads, At, ToVisit, Slots
  <2>2. QED  BY <2>1 DEF IInv, FoundInv
<1>2. QED  BY <1>1, Invariance, PTL

(* The time of every connection is up less than two turns with visits      *)
(* after its deadline, for any speed of the loop, unless the deadline is   *)
(* as near to the largest int as the loop is slow.                         *)
THEOREM AllClosedInTime == Spec => []ClosedInTime
<1>1. IInv => ClosedInTime
  <2> SUFFICES ASSUME IInv, NEW c \in open, ~AtTheEdge(c)
               PROVE  age[c] < TIME_OUT + (2 + failed) * MaxTurn
    BY DEF ClosedInTime
  <2>1. PICK i \in Slots : fds[i] = c
    BY DEF IInv, SlotInv
  <2>2. c # NoConn /\ age[c] \in Nat
    BY NoConnIsNone DEF IInv, TypeOK
  <2>3. age[c] < TIME_OUT + Late(i)
    BY <2>1, <2>2 DEF IInv, LateInv
  <2>4. Late(i) \in Nat /\ Late(i) <= (2 + failed) * MaxTurn /\ (2 + failed) * MaxTurn \in Nat
    <3> DEFINE f == failed * MaxTurn
    <3>1. f \in Nat /\ (2 + failed) * MaxTurn = f + MaxTurn + MaxTurn
      BY TurnsWithoutVisits DEF IInv
    <3>2. Late(i) \in {turn, f + turn, f + MaxTurn + turn}
      BY DEF Late
    <3>3. turn \in Nat /\ turn <= MaxTurn /\ MaxTurn \in Nat
      BY Bounds DEF IInv, TypeOK
    <3> HIDE DEF f
    <3>4. QED  BY <3>1, <3>2, <3>3
  <2> DEFINE late == (2 + failed) * MaxTurn
  <2>5. late \in Nat /\ Late(i) <= late
    BY <2>4
  <2> HIDE DEF late
  <2>6. age[c] < TIME_OUT + late
    BY <2>2, <2>3, <2>4, <2>5, Bounds
  <2>7. QED  BY <2>6 DEF late
<1>2. QED  BY <1>1, Invariance, PTL

(* No connection is closed for its time before TIME_OUT, unless the clock  *)
(* passes the largest int between its beginning and its deadline.          *)
THEOREM NobodyClosedEarly == Spec => NotClosedEarly
<1>1. IInv /\ [Next]_vars =>
         [\A i \in Slots :
             TimeOut(i) /\ remaining_time[fds[i]] >= MinInt + TIME_OUT
                 => age[fds[i]] >= TIME_OUT]_vars
  BY PassedIsOld DEF IInv, TimeOut
<1>2. QED  BY <1>1, Invariance, PTL DEF Spec, NotClosedEarly
=============================================================================
