--------------------------- MODULE LineReaderProofs ---------------------------
(***************************************************************************)
(* Proofs about LineReader, for any bytes, any lines and any way in which  *)
(* the reads tear them.  Sequences are compared byte by byte.              *)
(***************************************************************************)
EXTENDS LineReaderInvariant, FiniteSetTheorems, SequenceTheorems, TLAPS

-----------------------------------------------------------------------------
(* Bytes.                                                                  *)

LEMMA AtMostThree ==
    ASSUME NEW a, NEW b, NEW c
    PROVE  Cardinality({a, b, c}) # 4
<1>1. IsFiniteSet({a}) /\ Cardinality({a}) = 1
  BY FS_Singleton
<1>2. {a, b} = {a} \cup {b} /\ {a, b, c} = {a, b} \cup {c}
  OBVIOUS
<1>3. IsFiniteSet({a, b}) /\ Cardinality({a, b}) \in {1, 2}
  BY <1>1, <1>2, FS_AddElement
<1>4. Cardinality({a, b, c}) \in {1, 2, 3}
  BY <1>2, <1>3, FS_AddElement
<1>5. QED  BY <1>4

LEMMA BytesDiffer ==
    /\ CR \notin Chars /\ LF \notin Chars /\ IAC \notin Chars /\ IP \notin Chars
    /\ CR # LF /\ CR # IAC /\ CR # IP /\ LF # IAC /\ LF # IP /\ IAC # IP
<1>1. CR = LF => {CR, LF, IAC, IP} = {LF, IAC, IP}
  OBVIOUS
<1>2. CR = IAC => {CR, LF, IAC, IP} = {LF, IAC, IP}
  OBVIOUS
<1>3. CR = IP => {CR, LF, IAC, IP} = {LF, IAC, IP}
  OBVIOUS
<1>4. LF = IAC => {CR, LF, IAC, IP} = {CR, IAC, IP}
  OBVIOUS
<1>5. LF = IP => {CR, LF, IAC, IP} = {CR, IAC, IP}
  OBVIOUS
<1>6. IAC = IP => {CR, LF, IAC, IP} = {CR, LF, IP}
  OBVIOUS
<1>7. QED
  BY <1>1, <1>2, <1>3, <1>4, <1>5, <1>6, AtMostThree, LineAssumption, Zenon

LEMMA LinesAreSequences == Lines \subseteq Seq(Chars)
<1> SUFFICES ASSUME NEW line \in Lines PROVE line \in Seq(Chars)
  OBVIOUS
<1>1. PICK m \in 0..MaxLength : line \in [1..m -> Chars]
  BY DEF Lines, BoundedSeq, SeqOf
<1>2. m \in Nat
  BY LineAssumption
<1>3. QED  BY <1>1, <1>2

LEMMA EndsOfLines ==
    ASSUME NEW end \in LineEnds
    PROVE  /\ end \in Seq(Bytes)
           /\ \/ end = <<LF>> /\ Len(end) = 1 /\ end[1] = LF
              \/ end = CRLF /\ Len(end) = 2 /\ end[1] = CR /\ end[2] = LF
<1>1. LF \in Bytes /\ CR \in Bytes
  BY DEF Bytes
<1>2. <<LF>> \in Seq(Bytes) /\ <<CR, LF>> \in Seq(Bytes)
  BY <1>1
<1>3. CASE end = <<LF>>
  <2>1. Len(<<LF>>) = 1 /\ <<LF>>[1] = LF
    OBVIOUS
  <2>2. end \in Seq(Bytes)
    BY <1>2, <1>3, Zenon
  <2>3. end = <<LF>> /\ Len(end) = 1 /\ end[1] = LF
    BY <1>3, <2>1, Zenon
  <2>4. QED  BY <2>2, <2>3, Zenon
<1>4. CASE end = CRLF
  BY <1>2, <1>4 DEF CRLF
<1>5. QED  BY <1>3, <1>4 DEF LineEnds

(* A line with its end.                                                    *)
LEMMA SentBytes ==
    ASSUME NEW line \in Seq(Chars), NEW end \in LineEnds
    PROVE  /\ line \o end \in Seq(Bytes)
           /\ Len(line) \in Nat
           /\ Len(line \o end) = Len(line) + Len(end)
           /\ \A i \in 1..Len(line) : (line \o end)[i] = line[i] /\ line[i] \in Chars
           /\ (line \o end)[Len(line \o end)] = LF
           /\ end = CRLF => (line \o end)[Len(line) + 1] = CR
           /\ \A i \in 1..Len(line \o end) - 1 : (line \o end)[i] \in Bytes \ {LF, IAC, IP}
           /\ \A i \in 1..Len(line \o end) : (line \o end)[i] \notin Telnet
<1> DEFINE sent == line \o end
<1>1. line \in Seq(Bytes) /\ end \in Seq(Bytes) /\ Len(line) \in Nat
  BY EndsOfLines, SeqMonotonic, LenProperties DEF Bytes
<1>2. \A i \in 1..Len(line) : line[i] \in Chars
  BY ElementOfSeq
<1>3. /\ sent \in Seq(Bytes) /\ Len(sent) = Len(line) + Len(end)
      /\ \A i \in 1..Len(line) + Len(end) :
            sent[i] = IF i <= Len(line) THEN line[i] ELSE end[i - Len(line)]
  BY <1>1, ConcatProperties
<1> HIDE DEF sent
<1>4. CASE end = <<LF>> /\ Len(end) = 1 /\ end[1] = LF
  <2>1. sent[Len(line) + 1] = LF /\ Len(sent) = Len(line) + 1
    BY <1>1, <1>3, <1>4
  <2>2. \A i \in 1..Len(line) : sent[i] = line[i]
    BY <1>1, <1>3, <1>4
  <2>3. end # CRLF
    BY <1>4 DEF CRLF
  <2>4. \A i \in 1..Len(sent) : i \in 1..Len(line) \/ i = Len(sent)
    BY <1>1, <2>1
  <2>5. \A i \in 1..Len(sent) - 1 : i \in 1..Len(line)
    BY <1>1, <2>1
  <2>6. QED
    BY <1>1, <1>2, <1>3, <2>1, <2>2, <2>3, <2>4, <2>5, BytesDiffer DEF Bytes, Telnet, sent
<1>5. CASE end = CRLF /\ Len(end) = 2 /\ end[1] = CR /\ end[2] = LF
  <2>1. sent[Len(line) + 1] = CR /\ sent[Len(line) + 2] = LF /\ Len(sent) = Len(line) + 2
    BY <1>1, <1>3, <1>5
  <2>2. \A i \in 1..Len(line) : sent[i] = line[i]
    BY <1>1, <1>3, <1>5
  <2>4. \A i \in 1..Len(sent) : i \in 1..Len(line) \/ i = Len(line) + 1 \/ i = Len(sent)
    BY <1>1, <2>1
  <2>5. \A i \in 1..Len(sent) - 1 : i \in 1..Len(line) \/ i = Len(line) + 1
    BY <1>1, <2>1
  <2>6. QED
    BY <1>1, <1>2, <1>3, <2>1, <2>2, <2>4, <2>5, BytesDiffer DEF Bytes, Telnet, sent
<1>6. QED  BY <1>4, <1>5, EndsOfLines

-----------------------------------------------------------------------------
(* What read returns.                                                      *)

LEMMA ChunkIsPrefix ==
    ASSUME wire \in Seq(Bytes), NEW chunk, Receive(chunk)
    PROVE  /\ isOpen
           /\ \E m \in 1..Len(wire) :
                 /\ Len(chunk) = m
                 /\ \A i \in 1..m : chunk[i] = wire[i]
                 /\ Len(wire') = Len(wire) - m
                 /\ \A i \in 1..Len(wire) - m : wire'[i] = wire[i + m]
           /\ chunk \in Seq(Bytes) /\ wire' \in Seq(Bytes)
<1>1. PICK m \in 1..Len(wire) : chunk = SubSeq(wire, 1, m)
  BY DEF Receive, Chunks
<1>2. Len(wire) \in Nat /\ m \in Nat /\ m <= Len(wire) /\ m >= 1
  BY LenProperties
<1>3. \A i \in 1..Len(wire) : wire[i] \in Bytes
  BY ElementOfSeq
<1>4. chunk \in Seq(Bytes) /\ Len(chunk) = m /\ \A i \in 1..m : chunk[i] = wire[i]
  <2>1. \A i \in 1..m : wire[i] \in Bytes
    BY <1>2, <1>3
  <2>2. /\ SubSeq(wire, 1, m) \in Seq(Bytes)
        /\ Len(SubSeq(wire, 1, m)) = IF 1 <= m THEN m - 1 + 1 ELSE 0
        /\ \A i \in 1..m - 1 + 1 : SubSeq(wire, 1, m)[i] = wire[1 + i - 1]
    BY <1>2, <2>1, SubSeqProperties
  <2>3. QED  BY <1>1, <1>2, <2>2
<1>5. wire' = SubSeq(wire, m + 1, Len(wire))
  BY <1>4 DEF Receive
<1>6. /\ wire' \in Seq(Bytes) /\ Len(wire') = Len(wire) - m
      /\ \A i \in 1..Len(wire) - m : wire'[i] = wire[i + m]
  <2>1. \A i \in m+1..Len(wire) : wire[i] \in Bytes
    BY <1>2, <1>3
  <2>2. /\ SubSeq(wire, m + 1, Len(wire)) \in Seq(Bytes)
        /\ Len(SubSeq(wire, m + 1, Len(wire))) =
              IF m + 1 <= Len(wire) THEN Len(wire) - (m + 1) + 1 ELSE 0
        /\ \A i \in 1..Len(wire) - (m + 1) + 1 :
              SubSeq(wire, m + 1, Len(wire))[i] = wire[m + 1 + i - 1]
    BY <1>2, <2>1, SubSeqProperties
  <2>3. \A i \in 1..Len(wire) - m : wire[m + 1 + i - 1] = wire[i + m]
    BY <1>2
  <2>4. QED  BY <1>2, <1>5, <2>2, <2>3
<1>7. QED  BY <1>4, <1>6 DEF Receive

LEMMA PlacesOfLF ==
    ASSUME NEW s \in Seq(Bytes)
    PROVE  Places(s, <<LF>>) = {k \in 1..Len(s) : s[k] = LF}
<1>1. Len(s) \in Nat /\ Len(<<LF>>) = 1 /\ 1..(Len(s) - 1 + 1) = 1..Len(s)
  BY LenProperties
<1>2. ASSUME NEW k \in 1..Len(s)
      PROVE  SubSeq(s, k, k + 1 - 1) = <<LF>> <=> s[k] = LF
  <2>1. k + 1 - 1 = k /\ k \in Int
    BY <1>1
  <2>2. \A i \in k..k : s[i] \in Bytes
    BY <1>1, ElementOfSeq
  <2>3. /\ SubSeq(s, k, k) \in Seq(Bytes)
        /\ Len(SubSeq(s, k, k)) = IF k <= k THEN k - k + 1 ELSE 0
        /\ \A i \in 1..k - k + 1 : SubSeq(s, k, k)[i] = s[k + i - 1]
    BY <2>1, <2>2, SubSeqProperties
  <2>4. Len(SubSeq(s, k, k)) = 1 /\ SubSeq(s, k, k)[1] = s[k]
    BY <2>1, <2>3
  <2>5. SubSeq(s, k, k) = <<s[k]>>
    <3>1. <<s[k]>> \in Seq(Bytes) /\ Len(<<s[k]>>) = 1
      BY <2>1, <2>2
    <3>2. \A i \in 1..1 : SubSeq(s, k, k)[i] = <<s[k]>>[i]
      BY <2>4
    <3>3. QED  BY <2>3, <2>4, <3>1, <3>2, SeqEqual
  <2>6. QED  BY <2>1, <2>5
<1>3. QED  BY <1>1, <1>2 DEF Places

LEMMA PlacesOfCRLF ==
    ASSUME NEW s \in Seq(Bytes)
    PROVE  Places(s, CRLF) = {k \in 1..Len(s) - 1 : s[k] = CR /\ s[k + 1] = LF}
<1>1. Len(s) \in Nat /\ Len(CRLF) = 2 /\ 1..(Len(s) - 2 + 1) = 1..Len(s) - 1
  BY LenProperties DEF CRLF
<1>2. ASSUME NEW k \in 1..Len(s) - 1
      PROVE  SubSeq(s, k, k + 2 - 1) = CRLF <=> s[k] = CR /\ s[k + 1] = LF
  <2>1. k + 2 - 1 = k + 1 /\ k \in Int /\ k + 1 \in Int
    BY <1>1
  <2>2. \A i \in k..k + 1 : s[i] \in Bytes
    <3>1. \A i \in k..k + 1 : i \in 1..Len(s)
      BY <1>1
    <3>2. QED  BY <3>1, ElementOfSeq
  <2>3. /\ SubSeq(s, k, k + 1) \in Seq(Bytes)
        /\ Len(SubSeq(s, k, k + 1)) = IF k <= k + 1 THEN k + 1 - k + 1 ELSE 0
        /\ \A i \in 1..k + 1 - k + 1 : SubSeq(s, k, k + 1)[i] = s[k + i - 1]
    BY <2>1, <2>2, SubSeqProperties
  <2>4. /\ Len(SubSeq(s, k, k + 1)) = 2
        /\ SubSeq(s, k, k + 1)[1] = s[k]
        /\ SubSeq(s, k, k + 1)[2] = s[k + 1]
    <3>1. k + 1 - k + 1 = 2 /\ k + 1 - 1 = k /\ k + 2 - 1 = k + 1 /\ k <= k + 1
      BY <2>1
    <3>2. 1 \in 1..2 /\ 2 \in 1..2
      OBVIOUS
    <3>3. QED  BY <2>3, <3>1, <3>2
  <2>5. SubSeq(s, k, k + 1) = <<s[k], s[k + 1]>>
    <3>1. <<s[k], s[k + 1]>> \in Seq(Bytes) /\ Len(<<s[k], s[k + 1]>>) = 2
      BY <2>1, <2>2
    <3>2. \A i \in 1..2 : SubSeq(s, k, k + 1)[i] = <<s[k], s[k + 1]>>[i]
      BY <2>4
    <3>3. QED  BY <2>3, <2>4, <3>1, <3>2, SeqEqual
  <2>6. QED  BY <2>1, <2>5 DEF CRLF
<1>3. QED  BY <1>1, <1>2 DEF Places

(* What is dropped begins with IAC.                                        *)
LEMMA DroppedBeginsWithIAC ==
    ASSUME NEW s \in Seq(Bytes), IsPrefix(IAC_IP, s)
    PROVE  Len(s) >= 2 /\ s[1] = IAC
<1>1. Len(IAC_IP) = 2 /\ Len(s) \in Nat /\ Len(s) >= 2
  BY LenProperties DEF IsPrefix, IAC_IP
<1>2. SubSeq(IAC_IP, 1, 2) = SubSeq(s, 1, 2)
  BY <1>1 DEF IsPrefix
<1>3. SubSeq(IAC_IP, 1, 2) = IAC_IP
  <2>1. IAC_IP \in Seq(Telnet)
    BY DEF IAC_IP, Telnet
  <2>2. QED  BY <1>1, <2>1, SubSeqFull
<1>4. SubSeq(s, 1, 2)[1] = s[1]
  <2>1. \A i \in 1..2 : s[i] \in Bytes
    BY <1>1, ElementOfSeq
  <2>2. \A i \in 1..2 - 1 + 1 : SubSeq(s, 1, 2)[i] = s[1 + i - 1]
    BY <2>1, SubSeqProperties
  <2>3. QED  BY <2>2
<1>5. QED  BY <1>1, <1>2, <1>3, <1>4 DEF IAC_IP

(* A sequence whose bytes are the last ones of another is a suffix of it.  *)
LEMMA SuffixByBytes ==
    ASSUME NEW s \in Seq(Bytes), NEW t \in Seq(Bytes), Len(s) <= Len(t),
           \A i \in 1..Len(s) : s[i] = t[Len(t) - Len(s) + i]
    PROVE  IsSuffix(s, t)
<1> DEFINE a == Reverse(s)
           b == Reverse(t)
           m == Len(s)
           n == Len(t)
<1>1. m \in Nat /\ n \in Nat /\ m <= n
  BY LenProperties
<1>2. /\ a \in Seq(Bytes) /\ Len(a) = m /\ \A i \in 1..m : a[i] = s[m - i + 1]
      /\ b \in Seq(Bytes) /\ Len(b) = n /\ \A i \in 1..n : b[i] = t[n - i + 1]
  <2>1. \A i \in 1..m : m - i + 1 \in 1..m
    BY <1>1
  <2>2. \A i \in 1..n : n - i + 1 \in 1..n
    BY <1>1
  <2>3. a \in [1..m -> Bytes] /\ b \in [1..n -> Bytes]
    BY <2>1, <2>2, ElementOfSeq DEF Reverse
  <2>4. QED  BY <1>1, <2>3 DEF Reverse
<1>3. SubSeq(a, 1, m) = a
  BY <1>2, SubSeqFull
<1>4. /\ SubSeq(b, 1, m) \in Seq(Bytes)
      /\ Len(SubSeq(b, 1, m)) = m
      /\ \A i \in 1..m : SubSeq(b, 1, m)[i] = b[i]
  <2>1. \A i \in 1..m : b[i] \in Bytes
    BY <1>1, <1>2, ElementOfSeq
  <2> HIDE DEF a, b, m, n
  <2>2. /\ SubSeq(b, 1, m) \in Seq(Bytes)
        /\ Len(SubSeq(b, 1, m)) = IF 1 <= m THEN m - 1 + 1 ELSE 0
        /\ \A i \in 1..m - 1 + 1 : SubSeq(b, 1, m)[i] = b[1 + i - 1]
    BY <1>1, <2>1, SubSeqProperties
  <2>3. QED  BY <1>1, <2>2
<1>5. \A i \in 1..m : a[i] = b[i]
  <2> TAKE i \in 1..m
  <2>1. a[i] = s[m - i + 1] /\ b[i] = t[n - i + 1] /\ m - i + 1 \in 1..m
    BY <1>1, <1>2
  <2>2. n - m + (m - i + 1) = n - i + 1
    BY <1>1
  <2>3. QED  BY <2>1, <2>2
<1> HIDE DEF a, b, m, n
<1>6. SubSeq(b, 1, m) = a
  BY <1>2, <1>4, <1>5, SeqEqual
<1>7. QED  BY <1>1, <1>2, <1>3, <1>6 DEF IsSuffix, IsPrefix, a, b

LEMMA Joined ==
    ASSUME NEW s \in Seq(Bytes), NEW t \in Seq(Bytes)
    PROVE  /\ s \o t \in Seq(Bytes)
           /\ Len(s) \in Nat /\ Len(t) \in Nat /\ Len(s \o t) = Len(s) + Len(t)
           /\ \A i \in 1..Len(s) : (s \o t)[i] = s[i]
           /\ \A i \in Len(s)+1..Len(s) + Len(t) : (s \o t)[i] = t[i - Len(s)]
<1>1. /\ s \o t \in Seq(Bytes) /\ Len(s \o t) = Len(s) + Len(t)
      /\ \A i \in 1..Len(s) + Len(t) :
            (s \o t)[i] = IF i <= Len(s) THEN s[i] ELSE t[i - Len(s)]
  BY ConcatProperties
<1>2. Len(s) \in Nat /\ Len(t) \in Nat
  BY LenProperties
<1>3. QED  BY <1>1, <1>2

(* What holds of the lines that were handled stays true when more lines    *)
(* are sent, ctrl+C is pressed or the connection is closed.                *)
LEMMA WholeStays ==
    ASSUME WholeInv, handled' = handled,
           \A k \in 1..Len(handled) : asked'[k] = asked[k],
           presses > 0 => presses' > 0,
           presses' = 0 => presses = 0,
           ~isOpen => ~isOpen'
    PROVE  WholeInv'
<1> SUFFICES ASSUME NEW k \in 1..Len(handled) PROVE Whole(k)'
  BY DEF WholeInv
<1>1. Whole(k) /\ asked'[k] = asked[k] /\ handled'[k] = handled[k]
  BY DEF WholeInv
<1>2. Clean(handled[k])' <=> Clean(handled[k])
  BY DEF Clean
<1>3. CASE handled[k] = asked[k]
  BY <1>1, <1>3 DEF Whole
<1>4. CASE presses > 0 /\ Clean(handled[k]) /\ IsSuffix(handled[k], asked[k])
  BY <1>1, <1>2, <1>4 DEF Whole
<1>5. CASE /\ ~Clean(handled[k]) /\ k = Len(handled) /\ ~isOpen
           /\ presses = 0 => handled[k] = asked[k] \o <<CR>>
  <2>1. ~Clean(handled[k])' /\ k = Len(handled') /\ ~isOpen'
    BY <1>2, <1>5
  <2>2. presses' = 0 => handled'[k] = asked'[k] \o <<CR>>
    BY <1>1, <1>5
  <2>3. QED  BY <2>1, <2>2 DEF Whole
<1>6. QED  BY <1>1, <1>3, <1>4, <1>5 DEF Whole

-----------------------------------------------------------------------------
(* The client's actions.                                                   *)

LEMMA Initially == Init => IInv
<1> SUFFICES ASSUME Init PROVE IInv
  OBVIOUS
<1>1. Len(asked) = 0 /\ Len(handled) = 0 /\ ~isOpen /\ client = "gone"
  BY DEF Init
<1>2. TypeOK
  <2>1. isOpen \in BOOLEAN /\ client \in {"idle", "waiting", "gone"} /\ presses \in Nat
    BY DEF Init
  <2>2. buf \in Seq(Bytes) /\ wire \in Seq(Bytes)
    BY DEF Init
  <2>3. asked \in Seq(Seq(Chars)) /\ handled \in Seq(Seq(Bytes))
    BY DEF Init
  <2>4. QED  BY <2>1, <2>2, <2>3 DEF TypeOK
<1>3. CountInv
  BY <1>1 DEF Init, CountInv
<1>4. IdleInv /\ EndlessInv /\ PendingInv
  BY <1>1 DEF IdleInv, EndlessInv, PendingInv
<1>5. WholeInv
  BY <1>1 DEF WholeInv
<1>6. QED  BY <1>2, <1>3, <1>4, <1>5 DEF IInv

LEMMA Counts ==
    ASSUME TypeOK
    PROVE  Len(asked) \in Nat /\ Len(handled) \in Nat /\ Len(wire) \in Nat /\ Len(buf) \in Nat
BY LenProperties DEF TypeOK

(* A buffer with nothing but what ctrl+C has left is empty or not allowed. *)
LEMMA CleanOfTelnet ==
    ASSUME NEW s \in Seq(Bytes), AllIn(s, Telnet), Clean(s)
    PROVE  Len(s) = 0 /\ s = <<>>
<1>1. Len(s) \in Nat /\ DOMAIN s = 1..Len(s)
  BY LenProperties
<1>2. Len(s) = 0
  <2> SUFFICES ASSUME Len(s) # 0 PROVE FALSE
    OBVIOUS
  <2>1. 1 \in 1..Len(s)
    BY <1>1
  <2>2. s[1] \in Telnet /\ s[1] \in Chars
    BY <1>1, <2>1 DEF AllIn, Clean
  <2>3. QED  BY <2>2, BytesDiffer DEF Telnet
<1>3. QED  BY <1>2, EmptySeq

LEMMA AskStep ==
    ASSUME IInv, NEW line \in Lines, NEW end \in LineEnds, Ask(line, end)
    PROVE  IInv'
<1> USE DEF IInv
<1>1. /\ Len(asked) \in Nat /\ Len(handled) \in Nat /\ Len(wire) \in Nat
      /\ line \in Seq(Chars) /\ line \in Seq(Bytes) /\ end \in Seq(Bytes)
      /\ wire \in Seq(Bytes) /\ buf \in Seq(Bytes) /\ asked \in Seq(Seq(Chars))
      /\ presses \in Nat
  BY Counts, LinesAreSequences, EndsOfLines, SeqMonotonic DEF TypeOK, Bytes
<1>2. /\ client = "idle" /\ client' = "waiting"
      /\ asked' = Append(asked, line) /\ wire' = wire \o line \o end
      /\ isOpen' = isOpen /\ buf' = buf /\ presses' = presses /\ handled' = handled
  BY DEF Ask
<1>3. isOpen /\ Len(asked) = Len(handled)
  BY <1>2 DEF CountInv
<1>4. /\ asked' \in Seq(Seq(Chars)) /\ Len(asked') = Len(asked) + 1
      /\ asked'[Len(asked) + 1] = line
      /\ \A k \in 1..Len(asked) : asked'[k] = asked[k]
  BY <1>1, <1>2, AppendProperties
<1> DEFINE sent == line \o end
           l == Len(sent)
<1>0. PICK w \in Nat : w = Len(wire)
  BY <1>1
<1>5. /\ sent \in Seq(Bytes) /\ l \in Nat /\ l >= 1
  <2>1. sent \in Seq(Bytes) /\ Len(line) \in Nat /\ l = Len(line) + Len(end)
    BY <1>1, SentBytes
  <2>2. Len(end) \in {1, 2}
    BY EndsOfLines
  <2>3. QED  BY <2>1, <2>2
<1>6. /\ wire' \in Seq(Bytes) /\ Len(wire') = w + l
      /\ \A i \in 1..w : wire'[i] = wire[i]
      /\ \A i \in w+1..w + l : wire'[i] = sent[i - w]
  <2>1. wire' = wire \o sent
    <3>1. (wire \o line) \o end = wire \o (line \o end)
      BY <1>1, ConcatAssociative
    <3>2. wire' = (wire \o line) \o end
      BY <1>2
    <3>3. QED  BY <3>1, <3>2, Zenon DEF sent
  <2>2. QED  BY <1>0, <1>1, <1>5, <2>1, Joined
<1> HIDE DEF sent
<1>7. TypeOK'
  BY <1>2, <1>4, <1>6 DEF TypeOK
<1>8. CountInv'
  BY <1>1, <1>2, <1>3, <1>4 DEF CountInv
<1>9. IdleInv' /\ EndlessInv'
  BY <1>1, <1>2, <1>3, <1>4 DEF IdleInv, EndlessInv
<1>10. PendingInv'
  <2>1. Sent(end)' = sent
    BY <1>1, <1>4 DEF Sent, sent
  <2>2. \A i \in 1..w : wire'[i] \in Telnet
    BY <1>0, <1>2, <1>6 DEF IdleInv, AllIn
  <2>3. presses = 0 => w = 0 /\ Len(buf) = 0
    BY <1>0, <1>2, EmptySeq DEF IdleInv
  <2>4. Comes(sent, w + l, -w)'
    <3>1. -w = Len(sent) - (w + l)
      BY <1>1, <1>5
    <3>2. ASSUME NEW i \in 1..w + l
          PROVE  IF i + -w >= 1 THEN wire'[i] = sent[i + -w] ELSE wire'[i] \in Telnet
      <4>1. CASE i <= w
        <5>1. ~(i + -w >= 1) /\ i \in 1..w
          BY <1>1, <1>5, <4>1
        <5>2. QED  BY <2>2, <5>1
      <4>2. CASE i > w
        <5>1. i + -w >= 1 /\ i + -w = i - w /\ i \in w+1..w + l
          BY <1>1, <1>5, <4>2
        <5>2. QED  BY <1>6, <5>1
      <4>3. QED  BY <1>1, <1>5, <4>1, <4>2
    <3>3. w + l + 1..Len(wire') = {}
      BY <1>0, <1>1, <1>5, <1>6
    <3>4. presses' = 0 => -w >= 0 /\ w + l = Len(wire')
      BY <1>2, <1>6, <2>3
    <3>5. QED  BY <3>1, <3>2, <3>3, <3>4 DEF Comes
  <2>5. Kept(sent, -w)'
    <3> SUFFICES ASSUME Clean(buf) \/ presses = 0
                 PROVE  /\ Len(buf) = 0
                        /\ presses = 0 => Len(buf) = -w
      BY <1>2 DEF Kept, Clean
    <3>1. Len(buf) = 0
      <4>1. CASE Clean(buf)
        BY <1>1, <1>2, <4>1, CleanOfTelnet DEF IdleInv
      <4>2. QED  BY <2>3, <4>1
    <3>2. QED  BY <2>3, <3>1
  <2>6. w + l \in 1..Len(wire') /\ -w \in Int
    BY <1>0, <1>1, <1>5, <1>6
  <2>7. Comes(Sent(end), w + l, -w)' /\ Kept(Sent(end), -w)'
    BY <2>1, <2>4, <2>5 DEF Comes, Kept
  <2>8. QED  BY <2>6, <2>7 DEF PendingInv
<1>11. WholeInv'
  BY <1>2, <1>3, <1>4, WholeStays
<1>12. QED  BY <1>7, <1>8, <1>9, <1>10, <1>11

LEMMA PressStep == ASSUME IInv, PressCtrlC PROVE IInv'
<1> USE DEF IInv
<1>1. /\ Len(asked) \in Nat /\ Len(handled) \in Nat /\ Len(wire) \in Nat
      /\ wire \in Seq(Bytes) /\ presses \in Nat
  BY Counts DEF TypeOK
<1>2. /\ client # "gone" /\ client' = client
      /\ presses' = presses + 1 /\ presses' # 0 /\ presses' \in Nat
      /\ asked' = asked /\ isOpen' = isOpen /\ buf' = buf /\ handled' = handled
  BY <1>1 DEF PressCtrlC
<1>3. isOpen
  BY <1>2 DEF CountInv
<1>4. IAC_IP \in Seq(Bytes) /\ Len(IAC_IP) = 2 /\ IAC_IP[1] \in Telnet /\ IAC_IP[2] \in Telnet
  BY DEF IAC_IP, Bytes, Telnet
<1>0. PICK w \in Nat : w = Len(wire)
  BY <1>1
<1>5. /\ wire' \in Seq(Bytes) /\ Len(wire') = w + 2
      /\ \A i \in 1..w : wire'[i] = wire[i]
      /\ \A i \in w+1..w + 2 : wire'[i] \in Telnet
  <2>1. /\ wire' \in Seq(Bytes) /\ Len(wire') = w + 2
        /\ \A i \in 1..w : wire'[i] = wire[i]
        /\ \A i \in w+1..w + 2 : wire'[i] = IAC_IP[i - w]
    <3>1. wire' = wire \o IAC_IP
      BY DEF PressCtrlC
    <3>2. /\ wire \o IAC_IP \in Seq(Bytes)
          /\ Len(wire \o IAC_IP) = Len(wire) + Len(IAC_IP)
          /\ \A i \in 1..Len(wire) : (wire \o IAC_IP)[i] = wire[i]
          /\ \A i \in Len(wire)+1..Len(wire) + Len(IAC_IP) :
                (wire \o IAC_IP)[i] = IAC_IP[i - Len(wire)]
      BY <1>1, <1>4, Joined
    <3>3. QED  BY <1>0, <1>4, <3>1, <3>2
  <2>2. \A i \in w+1..w + 2 : i - w = 1 \/ i - w = 2
    OBVIOUS
  <2>3. QED  BY <1>4, <2>1, <2>2
<1>6. \A i \in 1..w + 2 : i \in 1..w \/ i \in w+1..w + 2
  OBVIOUS
<1>7. TypeOK'
  BY <1>2, <1>5 DEF TypeOK
<1>8. CountInv'
  BY <1>2 DEF CountInv
<1>9. IdleInv'
  BY <1>0, <1>2, <1>5, <1>6 DEF IdleInv, AllIn
<1>10. EndlessInv'
  <2> SUFFICES ASSUME Len(asked) = Len(handled), NEW i \in 1..w + 2
               PROVE  wire'[i] \in Bytes \ {LF}
    BY <1>2, <1>5 DEF EndlessInv, AllIn
  <2>1. CASE i \in 1..w
    BY <1>0, <1>3, <1>5, <2>1 DEF EndlessInv, AllIn
  <2>2. CASE i \in w+1..w + 2
    BY <1>5, <2>2, BytesDiffer DEF Telnet, Bytes
  <2>3. QED  BY <1>6, <2>1, <2>2
<1>11. PendingInv'
  <2> SUFFICES ASSUME Len(asked) = Len(handled) + 1
               PROVE  \E end \in LineEnds, p \in 1..Len(wire'), n \in Int :
                         Comes(Sent(end), p, n)' /\ Kept(Sent(end), n)'
    BY <1>2 DEF PendingInv
  <2>1. PICK end \in LineEnds, p \in 1..Len(wire), n \in Int :
           Comes(Sent(end), p, n) /\ Kept(Sent(end), n)
    BY <1>3 DEF PendingInv
  <2>2. p \in 1..w /\ p \in 1..Len(wire')
    BY <1>0, <1>5, <2>1
  <2>3. Sent(end)' = Sent(end)
    BY <1>2 DEF Sent
  <2>4. Comes(Sent(end), p, n)'
    <3>1. n = Len(Sent(end)) - p
      BY <2>1 DEF Comes
    <3>2. \A i \in 1..p : IF i + n >= 1 THEN wire'[i] = Sent(end)[i + n] ELSE wire'[i] \in Telnet
      <4> TAKE i \in 1..p
      <4>1. wire'[i] = wire[i]
        BY <1>5, <2>2
      <4>2. QED  BY <2>1, <4>1 DEF Comes
    <3>3. \A i \in p+1..Len(wire') : wire'[i] \in Telnet
      <4> TAKE i \in p+1..Len(wire')
      <4>1. CASE i \in p+1..w
        <5>1. wire'[i] = wire[i]
          BY <1>5, <2>2, <4>1
        <5>2. QED  BY <1>0, <2>1, <4>1, <5>1 DEF Comes
      <4>2. CASE i \in w+1..w + 2
        BY <1>5, <4>2
      <4>3. QED  BY <1>5, <2>2, <4>1, <4>2
    <3>4. QED  BY <1>2, <2>3, <3>1, <3>2, <3>3 DEF Comes
  <2>5. Kept(Sent(end), n)'
    BY <1>2, <2>1, <2>3 DEF Kept, Clean
  <2>6. QED  BY <2>1, <2>2, <2>4, <2>5
<1>12. WholeInv'
  BY <1>2, WholeStays
<1>13. QED  BY <1>7, <1>8, <1>9, <1>10, <1>11, <1>12

LEMMA LeaveStep == ASSUME IInv, NEW part \in Lines, Leave(part) PROVE IInv'
<1> USE DEF IInv
<1>1. /\ Len(asked) \in Nat /\ Len(handled) \in Nat /\ wire \in Seq(Bytes)
      /\ part \in Seq(Chars) /\ part \in Seq(Bytes)
  BY Counts, LinesAreSequences, SeqMonotonic DEF TypeOK, Bytes
<1>2. /\ client' = "gone" /\ wire' = wire \o part
      /\ asked' = asked /\ isOpen' = isOpen /\ buf' = buf /\ handled' = handled
      /\ presses' = presses
  BY DEF Leave
<1>3. isOpen /\ Len(asked) <= Len(handled) + 1 /\ Len(handled) <= Len(asked)
  BY DEF Leave, CountInv
<1>4. wire' \in Seq(Bytes)
  BY <1>1, <1>2, Joined
<1>5. TypeOK'
  BY <1>2, <1>4 DEF TypeOK
<1>6. CountInv' /\ IdleInv'
  BY <1>2, <1>3 DEF CountInv, IdleInv
<1>7. WholeInv'
  BY <1>2, WholeStays
<1>8. EndlessInv' /\ PendingInv'
  <2>1. CASE client = "idle"
    <3>1. Len(asked) = Len(handled)
      BY <1>3, <2>1 DEF CountInv
    <3>2. AllIn(wire', Bytes \ {LF})
      <4>1. \A i \in 1..Len(wire) : wire[i] \in Bytes \ {LF}
        BY <1>3, <3>1 DEF EndlessInv, AllIn
      <4>2. \A i \in 1..Len(part) : part[i] \in Bytes \ {LF}
        BY <1>1, ElementOfSeq, BytesDiffer DEF Bytes
      <4>3. /\ Len(wire) \in Nat /\ Len(part) \in Nat /\ Len(wire') = Len(wire) + Len(part)
            /\ \A i \in 1..Len(wire) : wire'[i] = wire[i]
            /\ \A i \in Len(wire)+1..Len(wire) + Len(part) : wire'[i] = part[i - Len(wire)]
        BY <1>1, <1>2, Joined
      <4> SUFFICES ASSUME NEW i \in 1..Len(wire') PROVE wire'[i] \in Bytes \ {LF}
        BY DEF AllIn
      <4>4. CASE i <= Len(wire)
        BY <4>1, <4>3, <4>4
      <4>5. CASE i > Len(wire)
        <5>1. i \in Len(wire)+1..Len(wire) + Len(part) /\ i - Len(wire) \in 1..Len(part)
          BY <4>3, <4>5
        <5>2. QED  BY <4>2, <4>3, <5>1
      <4>6. QED  BY <4>3, <4>4, <4>5
    <3>3. QED  BY <1>1, <1>2, <3>1, <3>2 DEF EndlessInv, PendingInv
  <2>2. CASE client = "waiting" /\ part = <<>>
    <3>1. Len(asked) = Len(handled) + 1
      BY <1>3, <2>2 DEF CountInv
    <3>2. wire' = wire
      BY <1>1, <1>2, <2>2, ConcatEmptySeq
    <3>3. EndlessInv'
      BY <1>1, <1>2, <3>1 DEF EndlessInv
    <3>4. PendingInv'
      <4>1. PICK end \in LineEnds, p \in 1..Len(wire), n \in Int :
               Comes(Sent(end), p, n) /\ Kept(Sent(end), n)
        BY <1>3, <3>1 DEF PendingInv
      <4>2. Sent(end)' = Sent(end)
        BY <1>2 DEF Sent
      <4>3. Comes(Sent(end), p, n)'
        BY <1>2, <3>2, <4>1, <4>2 DEF Comes
      <4>4. Kept(Sent(end), n)'
        BY <1>2, <4>1, <4>2 DEF Kept, Clean
      <4>5. p \in 1..Len(wire')
        BY <3>2, <4>1
      <4>6. QED  BY <4>1, <4>3, <4>4, <4>5 DEF PendingInv
    <3>5. QED  BY <3>3, <3>4
  <2>3. QED  BY <2>1, <2>2 DEF Leave
<1>9. QED  BY <1>5, <1>6, <1>7, <1>8

LEMMA AcceptStep == ASSUME IInv, Accept PROVE IInv'
<1> USE DEF IInv
<1>1. /\ isOpen' = TRUE /\ wire' = <<>> /\ client' = "idle" /\ presses' = 0
      /\ asked' = <<>> /\ handled' = <<>> /\ buf' = <<>>
  BY DEF Accept, CountInv
<1>2. Len(asked') = 0 /\ Len(handled') = 0 /\ Len(wire') = 0 /\ Len(buf') = 0
  BY <1>1
<1>3. TypeOK'
  <2>1. isOpen' \in BOOLEAN /\ client' \in {"idle", "waiting", "gone"} /\ presses' \in Nat
    BY <1>1
  <2>2. buf' \in Seq(Bytes) /\ wire' \in Seq(Bytes)
    BY <1>1
  <2>3. asked' \in Seq(Seq(Chars)) /\ handled' \in Seq(Seq(Bytes))
    BY <1>1
  <2>4. QED  BY <2>1, <2>2, <2>3 DEF TypeOK
<1>4. CountInv'
  BY <1>1, <1>2 DEF CountInv
<1>5. IdleInv' /\ EndlessInv'
  BY <1>1, <1>2 DEF IdleInv, EndlessInv, AllIn
<1>6. PendingInv' /\ WholeInv'
  BY <1>2 DEF PendingInv, WholeInv
<1>7. QED  BY <1>3, <1>4, <1>5, <1>6

LEMMA TimeOutStep == ASSUME IInv, TimeOut PROVE IInv'
<1> USE DEF IInv
<1>1. /\ isOpen' = FALSE /\ client' = "gone" /\ buf' = <<>> /\ wire' = wire
      /\ presses' = presses /\ asked' = asked /\ handled' = handled
  BY DEF TimeOut, Close
<1>2. TypeOK'
  <2>1. buf' \in Seq(Bytes)
    BY <1>1
  <2>2. QED  BY <1>1, <2>1 DEF TypeOK
<1>3. CountInv'
  BY <1>1 DEF CountInv
<1>4. IdleInv' /\ EndlessInv' /\ PendingInv'
  BY <1>1 DEF IdleInv, EndlessInv, PendingInv
<1>5. WholeInv'
  BY <1>1, WholeStays
<1>6. QED  BY <1>2, <1>3, <1>4, <1>5

-----------------------------------------------------------------------------
(* The server's reads.                                                     *)

(* The line that is not handled yet, and the only LF on the wire.          *)
LEMMA PendingLine ==
    ASSUME IInv, isOpen, Len(asked) = Len(handled) + 1
    PROVE  \E line \in Seq(Chars), end \in LineEnds, sent \in Seq(Bytes),
              p \in 1..Len(wire), n \in Int :
              /\ line = asked[Len(asked)] /\ sent = line \o end /\ sent = Sent(end)
              /\ Comes(sent, p, n) /\ Kept(sent, n)
              /\ wire[p] = LF
              /\ \A i \in 1..Len(wire) : i # p => wire[i] # LF
<1>1. /\ Len(asked) \in Nat /\ Len(handled) \in Nat /\ Len(wire) \in Nat
      /\ asked \in Seq(Seq(Chars))
  BY Counts DEF TypeOK, IInv
<1>2. PICK end \in LineEnds, p \in 1..Len(wire), n \in Int :
         Comes(Sent(end), p, n) /\ Kept(Sent(end), n)
  BY DEF PendingInv, IInv
<1>3. Len(asked) \in 1..Len(asked)
  BY <1>1
<1>4. PICK line \in Seq(Chars) : line = asked[Len(asked)]
  BY <1>1, <1>3, ElementOfSeq
<1>5. PICK sent \in Seq(Bytes) : sent = line \o end
  BY SentBytes
<1>6. sent = Sent(end)
  BY <1>4, <1>5 DEF Sent
<1>7. Comes(sent, p, n) /\ Kept(sent, n)
  BY <1>2, <1>6
<1>8. /\ Len(sent) \in Nat /\ Len(sent) >= 1 /\ sent[Len(sent)] = LF
      /\ \A i \in 1..Len(sent) - 1 : sent[i] # LF
  <2>1. /\ Len(line) \in Nat /\ Len(sent) = Len(line) + Len(end)
        /\ sent[Len(sent)] = LF
        /\ \A i \in 1..Len(sent) - 1 : sent[i] \in Bytes \ {LF, IAC, IP}
    BY <1>5, SentBytes
  <2>2. PICK k \in {1, 2} : k = Len(end)
    BY EndsOfLines
  <2>3. Len(sent) = Len(line) + k /\ Len(line) \in Nat
    BY <2>1, <2>2
  <2>4. Len(sent) \in Nat /\ Len(sent) >= 1
    BY <2>3
  <2>5. \A i \in 1..Len(sent) - 1 : sent[i] # LF
    BY <2>1
  <2>6. QED  BY <2>1, <2>4, <2>5
<1>9. n = Len(sent) - p /\ p \in Nat /\ p >= 1 /\ p <= Len(wire)
  BY <1>1, <1>2, <1>7 DEF Comes
<1>10. wire[p] = LF
  <2>1. p \in 1..p /\ p + n >= 1 /\ p + n = Len(sent)
    BY <1>8, <1>9
  <2>2. wire[p] = sent[p + n]
    BY <1>7, <2>1 DEF Comes
  <2>3. QED  BY <1>8, <2>1, <2>2
<1>11. ASSUME NEW i \in 1..Len(wire), i # p PROVE wire[i] # LF
  <2>1. CASE i < p
    <3>1. i \in 1..p
      BY <1>1, <1>9, <2>1
    <3>2. CASE i + n >= 1
      <4>1. wire[i] = sent[i + n]
        BY <1>7, <3>1, <3>2 DEF Comes
      <4>2. i + n \in 1..Len(sent) - 1
        BY <1>1, <1>8, <1>9, <2>1, <3>2
      <4>3. QED  BY <1>8, <4>1, <4>2
    <3>3. CASE ~(i + n >= 1)
      <4>1. wire[i] \in Telnet
        BY <1>7, <3>1, <3>3 DEF Comes
      <4>2. QED  BY <4>1, BytesDiffer DEF Telnet
    <3>4. QED  BY <3>2, <3>3
  <2>2. CASE i > p
    <3>1. i \in p+1..Len(wire)
      BY <1>1, <1>9, <2>2
    <3>2. wire[i] \in Telnet
      BY <1>7, <3>1 DEF Comes
    <3>3. QED  BY <3>2, BytesDiffer DEF Telnet
  <2>3. QED  BY <1>1, <1>9, <1>11, <2>1, <2>2
<1>12. QED  BY <1>2, <1>4, <1>5, <1>6, <1>7, <1>10, <1>11

LEMMA NoEnd ==
    ASSUME NEW s \in Seq(Bytes), Ends(s) = {}
    PROVE  \A i \in 1..Len(s) : s[i] # LF
<1>1. Places(s, <<LF>>) = {}
  BY DEF Ends
<1>2. QED  BY <1>1, PlacesOfLF

LEMMA OneEnd ==
    ASSUME NEW s \in Seq(Bytes), NEW e \in Ends(s)
    PROVE  /\ e \in 1..Len(s)
           /\ \/ s[e] = LF /\ \A i \in 1..Len(s) - 1 : ~(s[i] = CR /\ s[i + 1] = LF)
              \/ e + 1 \in 1..Len(s) /\ s[e] = CR /\ s[e + 1] = LF
<1>1. Len(s) \in Nat
  BY LenProperties
<1>2. CASE Places(s, CRLF) # {}
  <2>1. e \in {k \in 1..Len(s) - 1 : s[k] = CR /\ s[k + 1] = LF}
    BY <1>2, PlacesOfCRLF DEF Ends
  <2>2. QED  BY <1>1, <2>1
<1>3. CASE Places(s, CRLF) = {}
  <2>1. e \in {k \in 1..Len(s) : s[k] = LF}
    BY <1>3, PlacesOfLF DEF Ends
  <2>2. {k \in 1..Len(s) - 1 : s[k] = CR /\ s[k + 1] = LF} = {}
    BY <1>3, PlacesOfCRLF
  <2>3. \A i \in 1..Len(s) - 1 : ~(s[i] = CR /\ s[i + 1] = LF)
    BY <2>2
  <2>4. e \in 1..Len(s) /\ s[e] = LF
    BY <2>1
  <2>5. QED  BY <2>3, <2>4, Zenon
<1>4. QED  BY <1>2, <1>3

(* The bytes of a read that is kept are added to those that were kept.     *)
LEMMA CleanJoined ==
    ASSUME NEW s \in Seq(Bytes), NEW t \in Seq(Bytes), Clean(s \o t)
    PROVE  /\ Clean(s) /\ Clean(t)
           /\ \A i \in 1..Len(t) : t[i] \in Chars
<1>1. /\ s \o t \in Seq(Bytes)
      /\ Len(s) \in Nat /\ Len(t) \in Nat /\ Len(s \o t) = Len(s) + Len(t)
      /\ \A i \in 1..Len(s) : (s \o t)[i] = s[i]
      /\ \A i \in Len(s)+1..Len(s) + Len(t) : (s \o t)[i] = t[i - Len(s)]
  BY Joined
<1>2. /\ DOMAIN s = 1..Len(s) /\ DOMAIN t = 1..Len(t)
      /\ DOMAIN (s \o t) = 1..Len(s) + Len(t)
  BY <1>1, LenProperties
<1>3. \A i \in 1..Len(s) : s[i] \in Chars
  <2> TAKE i \in 1..Len(s)
  <2>1. i \in 1..Len(s) + Len(t)
    BY <1>1
  <2>2. QED  BY <1>1, <1>2, <2>1 DEF Clean
<1>4. \A i \in 1..Len(t) : t[i] \in Chars
  <2> TAKE i \in 1..Len(t)
  <2>1. Len(s) + i \in 1..Len(s) + Len(t) /\ Len(s) + i \in Len(s)+1..Len(s) + Len(t)
    BY <1>1
  <2>2. (s \o t)[Len(s) + i] \in Chars
    BY <1>2, <2>1 DEF Clean
  <2>3. (s \o t)[Len(s) + i] = t[Len(s) + i - Len(s)] /\ Len(s) + i - Len(s) = i
    BY <1>1, <2>1
  <2>4. QED  BY <2>2, <2>3
<1>5. QED  BY <1>2, <1>3, <1>4 DEF Clean

(* No end of a line is in what was read: what is left of the line comes    *)
(* after it.                                                               *)
LEMMA PartOfPending ==
    ASSUME IInv, NEW chunk, ReadPart(chunk), Len(asked) = Len(handled) + 1
    PROVE  PendingInv'
<1>1. /\ wire \in Seq(Bytes) /\ buf \in Seq(Bytes) /\ presses \in Nat
      /\ Len(wire) \in Nat /\ Len(buf) \in Nat
  BY Counts DEF IInv, TypeOK
<1>2. /\ isOpen /\ Ends(chunk) = {} /\ Receive(chunk)
      /\ buf' = IF IsPrefix(IAC_IP, chunk) THEN buf ELSE buf \o chunk
      /\ isOpen' = isOpen /\ presses' = presses /\ asked' = asked /\ handled' = handled
  BY DEF ReadPart, Receive, clientVars
<1>3. PICK m \in 1..Len(wire) :
         /\ Len(chunk) = m
         /\ \A i \in 1..m : chunk[i] = wire[i]
         /\ Len(wire') = Len(wire) - m
         /\ \A i \in 1..Len(wire) - m : wire'[i] = wire[i + m]
  BY <1>1, <1>2, ChunkIsPrefix
<1>4. chunk \in Seq(Bytes) /\ m \in Nat /\ m >= 1
  BY <1>1, <1>2, ChunkIsPrefix
<1>5. PICK line \in Seq(Chars), end \in LineEnds, sent \in Seq(Bytes),
           p \in 1..Len(wire), n \in Int :
         /\ line = asked[Len(asked)] /\ sent = line \o end /\ sent = Sent(end)
         /\ Comes(sent, p, n) /\ Kept(sent, n)
         /\ wire[p] = LF
         /\ \A i \in 1..Len(wire) : i # p => wire[i] # LF
  BY <1>2, PendingLine
<1>6. Sent(end)' = sent
  BY <1>2, <1>5 DEF Sent
<1>7. /\ Len(sent) \in Nat /\ n = Len(sent) - p /\ p \in Nat /\ p <= Len(wire)
      /\ \A i \in 1..Len(sent) : sent[i] \notin Telnet
  <2>1. \A i \in 1..Len(line \o end) : (line \o end)[i] \notin Telnet
    BY SentBytes
  <2>2. \A i \in 1..Len(sent) : sent[i] \notin Telnet
    BY <1>5, <2>1
  <2>3. n = Len(sent) - p
    BY <1>5 DEF Comes
  <2>4. QED  BY <1>1, <2>2, <2>3, LenProperties
<1>8. m < p
  <2>1. m >= p => p \in 1..m
    BY <1>4, <1>7
  <2>2. chunk[p] # LF \/ ~(p \in 1..m)
    BY <1>2, <1>3, <1>4, NoEnd
  <2>3. QED  BY <1>3, <1>4, <1>5, <1>7, <2>1, <2>2
<1>9. Comes(sent, p - m, n + m)'
  <2>1. n + m = Len(sent) - (p - m)
    BY <1>4, <1>7
  <2>2. ASSUME NEW i \in 1..p - m
        PROVE  IF i + (n + m) >= 1 THEN wire'[i] = sent[i + (n + m)] ELSE wire'[i] \in Telnet
    <3>1. i + m \in 1..p /\ i \in 1..Len(wire) - m /\ i + (n + m) = (i + m) + n
      BY <1>1, <1>4, <1>7
    <3>2. IF (i + m) + n >= 1 THEN wire[i + m] = sent[(i + m) + n] ELSE wire[i + m] \in Telnet
      BY <1>5, <3>1 DEF Comes
    <3>3. QED  BY <1>3, <3>1, <3>2
  <2>3. ASSUME NEW i \in p - m + 1..Len(wire')
        PROVE  wire'[i] \in Telnet
    <3>1. i + m \in p+1..Len(wire) /\ i \in 1..Len(wire) - m
      BY <1>1, <1>3, <1>4, <1>7, <1>8
    <3>2. QED  BY <1>3, <1>5, <3>1 DEF Comes
  <2>4. presses' = 0 => n + m >= 0 /\ p - m = Len(wire')
    <3>1. presses = 0 => n >= 0 /\ p = Len(wire)
      BY <1>5 DEF Comes
    <3>2. QED  BY <1>1, <1>2, <1>3, <1>4, <3>1
  <2>5. QED  BY <2>1, <2>2, <2>3, <2>4 DEF Comes
<1>10. Kept(sent, n + m)'
  <2>1. 1 \in 1..p /\ 1 \in 1..m
    BY <1>4, <1>7
  <2>2. IF 1 + n >= 1 THEN wire[1] = sent[1 + n] ELSE wire[1] \in Telnet
    BY <1>5, <2>1 DEF Comes
  <2>3. 1 + n >= 1 => 1 + n \in 1..Len(sent)
    BY <1>4, <1>7, <1>8
  <2>4. presses = 0 => n >= 0
    BY <1>5 DEF Comes
  <2>5. CASE IsPrefix(IAC_IP, chunk)
    <3>1. chunk[1] = IAC
      BY <1>4, <2>5, DroppedBeginsWithIAC
    <3>2. wire[1] \in Telnet
      BY <1>3, <2>1, <3>1 DEF Telnet
    <3>3. n < 0
      BY <1>7, <2>2, <2>3, <3>2
    <3>4. presses # 0
      BY <2>4, <3>3
    <3> SUFFICES ASSUME Clean(buf)
                 PROVE  Len(buf) = 0
      BY <1>1, <1>2, <2>5, <3>4 DEF Kept, Clean
    <3>5. Len(buf) = 0 \/ Len(buf) <= n
      BY <1>5 DEF Kept
    <3>6. QED  BY <1>1, <3>3, <3>5
  <2>6. CASE ~IsPrefix(IAC_IP, chunk)
    <3>1. buf' = buf \o chunk
      BY <1>2, <2>6
    <3>2. /\ Len(buf') = Len(buf) + m
          /\ \A i \in 1..Len(buf) : buf'[i] = buf[i]
          /\ \A i \in Len(buf)+1..Len(buf) + m : buf'[i] = chunk[i - Len(buf)]
      BY <1>1, <1>3, <1>4, <3>1, Joined
    <3> SUFFICES ASSUME Clean(buf)' \/ presses' = 0
                 PROVE  /\ Len(buf') = 0 \/ Len(buf') <= n + m
                        /\ \A i \in 1..Len(buf') : buf'[i] = sent[n + m - Len(buf') + i]
                        /\ presses' = 0 => Len(buf') = n + m
      BY DEF Kept
    <3>3. presses = 0 \/ (Clean(buf) /\ \A i \in 1..m : chunk[i] \in Chars)
      <4>1. CASE Clean(buf)'
        <5>1. Clean(buf \o chunk)
          BY <3>1, <4>1 DEF Clean
        <5>2. QED  BY <1>1, <1>3, <1>4, <5>1, CleanJoined
      <4>2. QED  BY <1>2, <4>1
    <3>4. n >= 0
      <4>1. CASE \A i \in 1..m : chunk[i] \in Chars
        <5>1. wire[1] \in Chars
          BY <1>3, <2>1, <4>1
        <5>2. wire[1] \notin Telnet
          BY <5>1, BytesDiffer DEF Telnet
        <5>3. QED  BY <2>2, <5>2
      <4>2. QED  BY <2>4, <3>3, <4>1
    <3>5. /\ Len(buf) <= n
          /\ \A i \in 1..Len(buf) : buf[i] = sent[n - Len(buf) + i]
          /\ presses = 0 => Len(buf) = n
      BY <1>5, <3>3, <3>4 DEF Kept
    <3>6. Len(buf') <= n + m /\ (presses = 0 => Len(buf') = n + m)
      <4>1. Len(buf) <= n /\ Len(buf') = Len(buf) + m
        BY <3>2, <3>5
      <4>2. Len(buf') <= n + m
        BY <1>1, <1>4, <4>1
      <4>3. QED  BY <3>5, <4>1, <4>2
    <3>7. ASSUME NEW i \in 1..Len(buf')
          PROVE  buf'[i] = sent[n + m - Len(buf') + i]
      <4>1. n + m - Len(buf') + i = n - Len(buf) + i
        BY <1>1, <1>4, <3>2
      <4>2. CASE i <= Len(buf)
        <5>1. i \in 1..Len(buf)
          BY <1>1, <1>4, <3>2, <4>2
        <5>2. QED  BY <3>2, <3>5, <4>1, <5>1
      <4>3. CASE i > Len(buf)
        <5>1. /\ i \in Len(buf)+1..Len(buf) + m
              /\ i - Len(buf) \in 1..m /\ i - Len(buf) \in 1..p
              /\ i - Len(buf) + n >= 1
              /\ i - Len(buf) + n = n - Len(buf) + i
          BY <1>1, <1>4, <1>7, <1>8, <3>2, <3>4, <4>3
        <5>2. buf'[i] = wire[i - Len(buf)]
          BY <1>3, <3>2, <5>1
        <5>3. wire[i - Len(buf)] = sent[i - Len(buf) + n]
          BY <1>5, <5>1 DEF Comes
        <5>4. QED  BY <4>1, <5>1, <5>2, <5>3
      <4>4. QED  BY <1>1, <1>4, <3>2, <4>2, <4>3
    <3>8. QED  BY <1>2, <3>6, <3>7
  <2>7. QED  BY <2>5, <2>6
<1>11. p - m \in 1..Len(wire') /\ n + m \in Int
  BY <1>1, <1>3, <1>4, <1>7, <1>8
<1>12. Comes(Sent(end), p - m, n + m)' /\ Kept(Sent(end), n + m)'
  BY <1>6, <1>9, <1>10 DEF Comes, Kept
<1>13. QED  BY <1>11, <1>12 DEF PendingInv

LEMMA ReadPartStep == ASSUME IInv, NEW chunk, ReadPart(chunk) PROVE IInv'
<1>1. /\ wire \in Seq(Bytes) /\ buf \in Seq(Bytes) /\ Len(wire) \in Nat
      /\ Len(asked) \in Nat /\ Len(handled) \in Nat
  BY Counts DEF IInv, TypeOK
<1>2. /\ isOpen /\ Receive(chunk)
      /\ buf' = IF IsPrefix(IAC_IP, chunk) THEN buf ELSE buf \o chunk
      /\ isOpen' = isOpen /\ presses' = presses /\ asked' = asked /\ handled' = handled
      /\ client' = client
  BY DEF ReadPart, Receive, clientVars
<1>3. PICK m \in 1..Len(wire) :
         /\ Len(chunk) = m
         /\ \A i \in 1..m : chunk[i] = wire[i]
         /\ Len(wire') = Len(wire) - m
         /\ \A i \in 1..Len(wire) - m : wire'[i] = wire[i + m]
  BY <1>1, <1>2, ChunkIsPrefix
<1>4. /\ chunk \in Seq(Bytes) /\ wire' \in Seq(Bytes)
      /\ m \in Nat /\ m >= 1 /\ m <= Len(wire)
  BY <1>1, <1>2, <1>3, ChunkIsPrefix
<1>5. TypeOK'
  <2>1. buf' \in Seq(Bytes)
    BY <1>1, <1>2, <1>4, Joined
  <2>2. QED  BY <1>2, <1>4, <2>1 DEF IInv, TypeOK
<1>6. CountInv'
  BY <1>2 DEF IInv, CountInv
<1>7. \A i \in 1..Len(wire') : i + m \in 1..Len(wire) /\ wire'[i] = wire[i + m]
  BY <1>1, <1>3, <1>4
<1>8. IdleInv'
  <2> SUFFICES ASSUME client = "idle"
               PROVE  /\ AllIn(buf', Telnet) /\ AllIn(wire', Telnet)
                      /\ presses # 0
    BY <1>2 DEF IdleInv, AllIn
  <2>1. AllIn(buf, Telnet) /\ AllIn(wire, Telnet) /\ (presses = 0 => wire = <<>>)
    BY DEF IInv, IdleInv
  <2>2. AllIn(wire', Telnet)
    BY <1>7, <2>1 DEF AllIn
  <2>3. presses # 0
    <3>1. wire # <<>>
      BY <1>1, <1>4, EmptySeq
    <3>2. QED  BY <2>1, <3>1
  <2>4. AllIn(buf', Telnet)
    <3>1. CASE buf' = buf
      BY <2>1, <3>1
    <3>2. CASE buf' = buf \o chunk
      <4>1. /\ Len(buf) \in Nat /\ Len(buf') = Len(buf) + m
            /\ \A i \in 1..Len(buf) : buf'[i] = buf[i]
            /\ \A i \in Len(buf)+1..Len(buf) + m : buf'[i] = chunk[i - Len(buf)]
        BY <1>1, <1>3, <1>4, <3>2, Joined
      <4>2. \A i \in 1..m : chunk[i] \in Telnet
        BY <1>1, <1>3, <1>4, <2>1 DEF AllIn
      <4> SUFFICES ASSUME NEW i \in 1..Len(buf') PROVE buf'[i] \in Telnet
        BY DEF AllIn
      <4>3. CASE i <= Len(buf)
        BY <2>1, <4>1, <4>3 DEF AllIn
      <4>4. CASE i > Len(buf)
        <5>1. i \in Len(buf)+1..Len(buf) + m /\ i - Len(buf) \in 1..m
          BY <1>4, <4>1, <4>4
        <5>2. QED  BY <4>1, <4>2, <5>1
      <4>5. QED  BY <1>4, <4>1, <4>3, <4>4
    <3>3. QED  BY <1>2, <3>1, <3>2
  <2>5. QED  BY <2>2, <2>3, <2>4
<1>9. EndlessInv'
  <2> SUFFICES ASSUME Len(asked) = Len(handled) PROVE AllIn(wire', Bytes \ {LF})
    BY <1>2 DEF EndlessInv, AllIn
  <2>1. AllIn(wire, Bytes \ {LF})
    BY <1>2 DEF IInv, EndlessInv
  <2>2. QED  BY <1>7, <2>1 DEF AllIn
<1>10. PendingInv'
  <2>1. CASE Len(asked) = Len(handled) + 1
    BY <2>1, PartOfPending
  <2>2. CASE Len(asked) # Len(handled) + 1
    BY <1>2, <2>2 DEF PendingInv
  <2>3. QED  BY <2>1, <2>2
<1>11. WholeInv'
  BY <1>2, WholeStays DEF IInv
<1>12. QED  BY <1>5, <1>6, <1>8, <1>9, <1>10, <1>11 DEF IInv

(* What is made of the bytes that were kept and the q next ones, when the  *)
(* last of these is the last of the line.                                  *)
LEMMA Aligned ==
    ASSUME NEW whole \in Seq(Bytes), NEW line \in Seq(Bytes),
           NEW b \in Nat, NEW q \in Nat, NEW n \in Int,
           Len(line) = b + q, Len(whole) = n + q, b <= n,
           \A i \in 1..b + q : line[i] = whole[n - b + i]
    PROVE  /\ IsSuffix(line, whole)
           /\ b = n => line = whole
<1>1. IsSuffix(line, whole)
  <2>1. Len(line) <= Len(whole)
    OBVIOUS
  <2>2. \A i \in 1..Len(line) : line[i] = whole[Len(whole) - Len(line) + i]
    <3> TAKE i \in 1..Len(line)
    <3>1. Len(whole) - Len(line) + i = n - b + i /\ i \in 1..b + q
      OBVIOUS
    <3>2. QED  BY <3>1
  <2>3. QED  BY <2>1, <2>2, SuffixByBytes
<1>2. ASSUME b = n PROVE line = whole
  <2>1. Len(line) = Len(whole)
    BY <1>2
  <2>2. \A i \in 1..Len(line) : line[i] = whole[i]
    <3> TAKE i \in 1..Len(line)
    <3>1. n - b + i = i /\ i \in 1..b + q
      BY <1>2
    <3>2. QED  BY <3>1
  <2>3. QED  BY <2>1, <2>2, SeqEqual
<1>3. QED  BY <1>1, <1>2

(* A line that is allowed is the one that was asked, or the end of it, and *)
(* one that is not is, without ctrl+C, the one that was asked with its CR. *)
LEMMA LineIsWhole ==
    ASSUME IInv, NEW chunk, NEW e \in Ends(chunk), NEW read \in Seq(Bytes),
           Receive(chunk), Len(asked) = Len(handled) + 1,
           read = buf \o SubSeq(chunk, 1, e - 1),
           Clean(read) \/ presses = 0
    PROVE  \/ read = asked[Len(asked)]
           \/ presses > 0 /\ IsSuffix(read, asked[Len(asked)])
           \/ presses = 0 /\ ~Clean(read) /\ read = asked[Len(asked)] \o <<CR>>
<1>1. /\ wire \in Seq(Bytes) /\ buf \in Seq(Bytes) /\ Len(wire) \in Nat
      /\ Len(asked) \in Nat /\ presses \in Nat /\ isOpen
  BY Counts DEF IInv, TypeOK, Receive
<1>2. PICK m \in 1..Len(wire) : Len(chunk) = m /\ \A i \in 1..m : chunk[i] = wire[i]
  BY <1>1, ChunkIsPrefix
<1>3. chunk \in Seq(Bytes) /\ m \in Nat /\ m >= 1 /\ m <= Len(wire)
  BY <1>1, <1>2, ChunkIsPrefix
<1>4. PICK line \in Seq(Chars), end \in LineEnds, sent \in Seq(Bytes),
           p \in 1..Len(wire), n \in Int :
         /\ line = asked[Len(asked)] /\ sent = line \o end
         /\ Comes(sent, p, n) /\ Kept(sent, n)
         /\ wire[p] = LF
         /\ \A i \in 1..Len(wire) : i # p => wire[i] # LF
  BY <1>1, PendingLine
<1>5. PICK l \in Nat : l = Len(line)
  BY <1>4, LenProperties
<1>6. PICK b \in Nat : b = Len(buf)
  BY <1>1, LenProperties
<1>7. p \in Nat /\ p >= 1 /\ p <= Len(wire) /\ line \in Seq(Bytes)
  BY <1>1, SeqMonotonic DEF Bytes
<1>8. /\ Len(sent) = l + Len(end)
      /\ \A i \in 1..l : sent[i] = line[i] /\ line[i] \in Chars
      /\ end = CRLF => sent[l + 1] = CR
  BY <1>4, <1>5, SentBytes
<1>9. n = Len(sent) - p /\ (presses = 0 => n >= 0)
  BY <1>4 DEF Comes
<1>10. \A i \in 1..p : /\ i + n >= 1 => wire[i] = sent[i + n]
                       /\ i + n < 1 => wire[i] \in Telnet
  <2> TAKE i \in 1..p
  <2>1. IF i + n >= 1 THEN wire[i] = sent[i + n] ELSE wire[i] \in Telnet
    BY <1>4 DEF Comes
  <2>2. CASE i + n >= 1
    BY <1>7, <2>1, <2>2
  <2>3. CASE ~(i + n >= 1)
    BY <1>7, <2>1, <2>3
  <2>4. QED  BY <2>2, <2>3
<1>11. e \in Nat /\ e >= 1 /\ e <= m
  BY <1>2, <1>3, OneEnd
<1>12. PICK q \in Nat : q = e - 1
  BY <1>11
<1>13. PICK part \in Seq(Bytes) :
          /\ part = SubSeq(chunk, 1, e - 1) /\ Len(part) = q
          /\ \A i \in 1..q : part[i] = wire[i]
  <2>1. \A i \in 1..q : chunk[i] \in Bytes
    BY <1>2, <1>3, <1>11, <1>12, ElementOfSeq
  <2>2. /\ SubSeq(chunk, 1, q) \in Seq(Bytes)
        /\ Len(SubSeq(chunk, 1, q)) = IF 1 <= q THEN q - 1 + 1 ELSE 0
        /\ \A i \in 1..q - 1 + 1 : SubSeq(chunk, 1, q)[i] = chunk[1 + i - 1]
    BY <1>12, <2>1, SubSeqProperties
  <2>3. Len(SubSeq(chunk, 1, q)) = q
    BY <1>12, <2>2
  <2>4. \A i \in 1..q : SubSeq(chunk, 1, q)[i] = wire[i]
    <3> TAKE i \in 1..q
    <3>1. i \in 1..q - 1 + 1 /\ 1 + i - 1 = i /\ i \in 1..m
      BY <1>3, <1>11, <1>12
    <3>2. QED  BY <1>2, <2>2, <3>1
  <2>5. QED  BY <1>12, <2>2, <2>3, <2>4
<1>14. PICK got \in Seq(Bytes) :
          /\ got = buf \o part /\ Len(got) = b + q
          /\ \A i \in 1..b : got[i] = buf[i]
          /\ \A i \in b+1..b + q : got[i] = part[i - b]
  <2>1. /\ buf \o part \in Seq(Bytes) /\ Len(buf \o part) = Len(buf) + Len(part)
        /\ \A i \in 1..Len(buf) : (buf \o part)[i] = buf[i]
        /\ \A i \in Len(buf)+1..Len(buf) + Len(part) : (buf \o part)[i] = part[i - Len(buf)]
    BY <1>1, Joined
  <2>2. Len(buf) = b /\ Len(part) = q
    BY <1>6, <1>13
  <2>3. QED  BY <2>1, <2>2
<1>15. presses = 0 \/ (Clean(buf) /\ \A i \in 1..q : wire[i] \in Chars)
  <2>1. CASE Clean(read)
    <3>1. Clean(buf \o part)
      BY <1>13, <2>1
    <3>2. Clean(buf) /\ \A i \in 1..q : part[i] \in Chars
      BY <1>1, <1>13, <3>1, CleanJoined
    <3>3. QED  BY <1>13, <3>2
  <2>2. QED  BY <2>1
<1>16. /\ b = 0 \/ b <= n
       /\ \A i \in 1..b : buf[i] = sent[n - b + i]
       /\ presses = 0 => b = n
  BY <1>4, <1>6, <1>15 DEF Kept
<1>17. \/ e = p /\ \A i \in 1..m - 1 : ~(wire[i] = CR /\ wire[i + 1] = LF)
       \/ e + 1 = p /\ wire[e] = CR
  <2>1. CASE chunk[e] = LF /\ \A i \in 1..m - 1 : ~(chunk[i] = CR /\ chunk[i + 1] = LF)
    <3>1. e = p
      <4>1. e \in 1..m /\ e \in 1..Len(wire)
        BY <1>1, <1>3, <1>11
      <4>2. wire[e] = LF
        BY <1>2, <2>1, <4>1
      <4>3. QED  BY <1>4, <4>1, <4>2
    <3>2. \A i \in 1..m - 1 : i \in 1..m /\ i + 1 \in 1..m
      BY <1>3
    <3>3. QED  BY <1>2, <2>1, <3>1, <3>2
  <2>2. CASE e + 1 \in 1..m /\ chunk[e] = CR /\ chunk[e + 1] = LF
    <3>1. wire[e + 1] = LF /\ wire[e] = CR /\ e + 1 \in 1..Len(wire)
      BY <1>2, <1>3, <1>11, <2>2
    <3>2. QED  BY <1>4, <3>1
  <2>3. QED  BY <1>2, <1>3, <2>1, <2>2, OneEnd
<1> SUFFICES \/ got = line \/ (presses > 0 /\ IsSuffix(got, line))
             \/ presses = 0 /\ ~Clean(got) /\ got = line \o <<CR>>
  BY <1>4, <1>13, <1>14
<1>18. ASSUME n + q = l, q < p
       PROVE  got = line \/ (presses > 0 /\ IsSuffix(got, line))
  <2>1. n >= 0
    <3>1. CASE q = 0
      BY <1>18, <3>1
    <3>2. CASE q # 0
      <4>1. 1 \in 1..q /\ 1 \in 1..p
        BY <1>7, <3>2
      <4>2. presses = 0 \/ wire[1] \notin Telnet
        BY <1>15, <4>1, BytesDiffer DEF Telnet
      <4>3. QED  BY <1>9, <1>10, <4>1, <4>2
    <3>3. QED  BY <3>1, <3>2
  <2>2. b <= n
    BY <1>16, <2>1
  <2>3. \A i \in 1..b + q : got[i] = line[n - b + i]
    <3> TAKE i \in 1..b + q
    <3>1. n - b + i \in 1..l
      BY <1>18, <2>2
    <3>2. sent[n - b + i] = line[n - b + i]
      BY <1>8, <3>1
    <3>3. CASE i <= b
      <4>1. i \in 1..b
        BY <3>3
      <4>2. QED  BY <1>14, <1>16, <3>2, <4>1
    <3>4. CASE i > b
      <4>1. /\ i \in b+1..b + q /\ i - b \in 1..q /\ i - b \in 1..p
            /\ i - b + n >= 1 /\ i - b + n = n - b + i
        BY <1>7, <1>18, <2>1, <3>4
      <4>2. got[i] = wire[i - b]
        BY <1>13, <1>14, <4>1
      <4>3. wire[i - b] = sent[i - b + n]
        BY <1>10, <4>1
      <4>4. QED  BY <3>2, <4>1, <4>2, <4>3
    <3>5. QED  BY <3>3, <3>4
  <2>4. Len(line) = n + q
    BY <1>5, <1>18
  <2>5. IsSuffix(got, line) /\ (b = n => got = line)
    BY <1>7, <1>14, <2>2, <2>3, <2>4, Aligned
  <2>6. presses = 0 \/ presses > 0
    BY <1>1
  <2>7. QED  BY <1>16, <2>5, <2>6
<1>19. CASE end = <<LF>> /\ Len(end) = 1 /\ end[1] = LF
  <2>1. n = l + 1 - p
    BY <1>8, <1>9, <1>19
  <2>2. e = p
    <3> SUFFICES ASSUME e + 1 = p, wire[e] = CR PROVE FALSE
      BY <1>17
    <3>1. e \in 1..p /\ e + n = l
      BY <1>7, <1>11, <2>1
    <3>2. CASE l >= 1
      <4>1. wire[e] = sent[l] /\ sent[l] \in Chars
        <5>1. e + n >= 1 /\ l \in 1..l
          BY <3>1, <3>2
        <5>2. wire[e] = sent[e + n]
          BY <1>10, <3>1, <5>1
        <5>3. QED  BY <1>8, <3>1, <5>1, <5>2
      <4>2. QED  BY <4>1, BytesDiffer
    <3>3. CASE l < 1
      <4>1. wire[e] \in Telnet
        BY <1>10, <3>1, <3>3
      <4>2. QED  BY <4>1, BytesDiffer DEF Telnet
    <3>4. QED  BY <3>2, <3>3
  <2>3. n + q = l /\ q < p
    BY <1>7, <1>12, <2>1, <2>2
  <2>4. QED  BY <1>18, <2>3
<1>20. CASE end = CRLF /\ Len(end) = 2 /\ end[1] = CR /\ end[2] = LF
  <2>1. n = l + 2 - p
    BY <1>8, <1>9, <1>20
  <2>2. CASE p >= 2
    <3>1. p - 1 \in 1..p /\ (p - 1) + n = l + 1 /\ l + 1 >= 1
      BY <1>7, <2>1, <2>2
    <3>2. wire[p - 1] = CR
      BY <1>8, <1>10, <1>20, <3>1
    <3>3. e + 1 = p
      <4> SUFFICES ASSUME e = p, \A i \in 1..m - 1 : ~(wire[i] = CR /\ wire[i + 1] = LF)
                   PROVE  FALSE
        BY <1>17
      <4>1. p - 1 \in 1..m - 1 /\ (p - 1) + 1 = p
        BY <1>3, <1>7, <1>11, <2>2
      <4>2. QED  BY <1>4, <3>2, <4>1
    <3>4. n + q = l /\ q < p
      BY <1>7, <1>11, <1>12, <2>1, <3>3
    <3>5. QED  BY <1>18, <3>4
  <2>3. CASE p = 1
    <3>1. e = 1 /\ q = 0 /\ n = l + 1
      BY <1>11, <1>12, <1>17, <2>1, <2>3
    <3>2. CASE presses = 0
      <4>1. b = l + 1 /\ \A i \in 1..b : got[i] = sent[i]
        <5>1. b = n /\ \A i \in 1..b : n - b + i = i
          BY <1>16, <3>2
        <5>2. QED  BY <1>14, <1>16, <3>1, <5>1
      <4>2. Len(got) = l + 1 /\ got[l + 1] = CR /\ \A i \in 1..l : got[i] = line[i]
        <5>1. l + 1 \in 1..b /\ \A i \in 1..l : i \in 1..b
          BY <4>1
        <5>2. Len(got) = l + 1
          BY <1>14, <3>1, <4>1
        <5>3. got[l + 1] = sent[l + 1] /\ \A i \in 1..l : got[i] = sent[i]
          BY <4>1, <5>1
        <5>4. QED  BY <1>8, <1>20, <5>2, <5>3
      <4>3. ~Clean(got)
        <5>1. l + 1 \in DOMAIN got
          BY <1>14, <4>2, LenProperties
        <5>2. QED  BY <4>2, <5>1, BytesDiffer DEF Clean
      <4>4. got = line \o <<CR>>
        <5>1. <<CR>> \in Seq(Bytes) /\ Len(<<CR>>) = 1 /\ <<CR>>[1] = CR
          BY DEF Bytes
        <5>2. /\ line \o <<CR>> \in Seq(Bytes) /\ Len(line \o <<CR>>) = l + 1
              /\ \A i \in 1..l : (line \o <<CR>>)[i] = line[i]
              /\ (line \o <<CR>>)[l + 1] = CR
          <6>1. /\ line \o <<CR>> \in Seq(Bytes)
                /\ Len(line \o <<CR>>) = Len(line) + Len(<<CR>>)
                /\ \A i \in 1..Len(line) : (line \o <<CR>>)[i] = line[i]
                /\ \A i \in Len(line)+1..Len(line) + Len(<<CR>>) :
                      (line \o <<CR>>)[i] = <<CR>>[i - Len(line)]
            BY <1>7, <5>1, Joined
          <6>2. l + 1 \in l+1..l + 1 /\ l + 1 - l = 1
            OBVIOUS
          <6>3. QED  BY <1>5, <5>1, <6>1, <6>2
        <5>3. \A i \in 1..l + 1 : got[i] = (line \o <<CR>>)[i]
          <6>1. \A i \in 1..l + 1 : i \in 1..l \/ i = l + 1
            OBVIOUS
          <6>2. QED  BY <4>2, <5>2, <6>1
        <5>4. QED  BY <1>14, <4>2, <5>2, <5>3, SeqEqual
      <4>5. QED  BY <3>2, <4>3, <4>4
    <3>3. CASE presses # 0
      <4>1. b = 0
        <5> SUFFICES ASSUME b >= 1 PROVE FALSE
          OBVIOUS
        <5>1. b \in 1..b /\ n - b + b = l + 1
          BY <3>1
        <5>2. buf[b] = CR
          BY <1>8, <1>16, <1>20, <5>1
        <5>3. b \in DOMAIN buf
          BY <1>1, <1>6, <5>1, LenProperties
        <5>4. QED  BY <1>15, <3>3, <5>2, <5>3, BytesDiffer DEF Clean
      <4>2. Len(got) = 0 /\ presses > 0
        BY <1>1, <1>14, <3>1, <3>3, <4>1
      <4>3. IsSuffix(got, line)
        <5>1. Len(got) <= Len(line) /\ \A i \in 1..Len(got) : got[i] = line[Len(line) - Len(got) + i]
          BY <1>5, <4>2
        <5>2. QED  BY <1>7, <1>14, <5>1, SuffixByBytes
      <4>4. QED  BY <4>2, <4>3
    <3>4. QED  BY <3>2, <3>3
  <2>4. p >= 2 \/ p = 1
    BY <1>7
  <2>5. QED  BY <2>2, <2>3, <2>4, Zenon
<1>21. QED  BY <1>4, <1>19, <1>20, EndsOfLines

LEMMA ReadLineStep == ASSUME IInv, NEW chunk, ReadLine(chunk) PROVE IInv'
<1>1. /\ wire \in Seq(Bytes) /\ buf \in Seq(Bytes) /\ Len(wire) \in Nat
      /\ Len(asked) \in Nat /\ Len(handled) \in Nat /\ handled \in Seq(Seq(Bytes))
      /\ asked \in Seq(Seq(Chars)) /\ client \in {"idle", "waiting", "gone"}
  BY Counts DEF IInv, TypeOK
<1>2. /\ isOpen /\ Receive(chunk) /\ presses' = presses /\ asked' = asked
  BY DEF ReadLine, Receive
<1>3. PICK e \in Ends(chunk) :
         /\ handled' = Append(handled, buf \o SubSeq(chunk, 1, e - 1))
         /\ \/ Close
            \/ /\ Clean(buf \o SubSeq(chunk, 1, e - 1))
               /\ buf' = <<>>
               /\ client' = IF client = "waiting" THEN "idle" ELSE client
               /\ isOpen' = isOpen
  BY DEF ReadLine, BufferAfter
<1>4. PICK m \in 1..Len(wire) :
         /\ Len(chunk) = m
         /\ \A i \in 1..m : chunk[i] = wire[i]
         /\ Len(wire') = Len(wire) - m
         /\ \A i \in 1..Len(wire) - m : wire'[i] = wire[i + m]
  BY <1>1, <1>2, ChunkIsPrefix
<1>5. /\ chunk \in Seq(Bytes) /\ wire' \in Seq(Bytes)
      /\ m \in Nat /\ m >= 1 /\ m <= Len(wire)
  BY <1>1, <1>2, <1>4, ChunkIsPrefix
<1>6. PICK f \in 1..m : wire[f] = LF
  <2>1. \E f \in 1..Len(chunk) : chunk[f] = LF
    BY <1>5, OneEnd
  <2>2. QED  BY <1>4, <2>1
<1>7. f \in 1..Len(wire)
  BY <1>1, <1>5
<1>8. Len(asked) = Len(handled) + 1
  <2>1. Len(asked) # Len(handled)
    BY <1>2, <1>6, <1>7 DEF IInv, EndlessInv, AllIn
  <2>2. Len(handled) <= Len(asked) /\ Len(asked) <= Len(handled) + 1
    BY <1>2 DEF IInv, CountInv
  <2>3. QED  BY <1>1, <2>1, <2>2
<1>9. client # "idle"
  BY <1>1, <1>2, <1>8 DEF IInv, CountInv
<1>10. PICK line \in Seq(Chars), end \in LineEnds, sent \in Seq(Bytes),
            p \in 1..Len(wire), n \in Int :
         /\ Comes(sent, p, n)
         /\ \A i \in 1..Len(wire) : i # p => wire[i] # LF
  BY <1>2, <1>8, PendingLine
<1>11. p = f /\ p <= m /\ p \in Nat
  BY <1>5, <1>6, <1>7, <1>10
<1>12. AllIn(wire', Telnet) /\ (presses = 0 => Len(wire') = 0)
  <2>1. \A i \in p+1..Len(wire) : wire[i] \in Telnet
    BY <1>10 DEF Comes
  <2>2. ASSUME NEW i \in 1..Len(wire') PROVE wire'[i] \in Telnet
    <3>1. i \in 1..Len(wire) - m /\ i + m \in p+1..Len(wire)
      BY <1>1, <1>4, <1>5, <1>11
    <3>2. QED  BY <1>4, <2>1, <3>1
  <2>3. presses = 0 => p = Len(wire)
    BY <1>10 DEF Comes
  <2>4. presses = 0 => Len(wire') = 0
    BY <1>1, <1>4, <1>5, <1>11, <2>3
  <2>5. QED  BY <2>2, <2>4 DEF AllIn
<1>13. PICK got \in Seq(Bytes) : got = buf \o SubSeq(chunk, 1, e - 1)
  <2>1. e \in Nat /\ e >= 1 /\ e <= m
    BY <1>4, <1>5, OneEnd
  <2>2. \A i \in 1..e - 1 : i \in 1..Len(chunk)
    BY <1>4, <1>5, <2>1
  <2>3. \A i \in 1..e - 1 : chunk[i] \in Bytes
    BY <1>5, <2>2, ElementOfSeq
  <2>4. SubSeq(chunk, 1, e - 1) \in Seq(Bytes)
    BY <2>1, <2>3, SubSeqProperties
  <2>5. QED  BY <1>1, <2>4, Joined
<1>14. /\ handled' \in Seq(Seq(Bytes)) /\ Len(handled') = Len(asked)
       /\ handled'[Len(asked)] = got
       /\ \A k \in 1..Len(handled) : handled'[k] = handled[k]
  <2>1. /\ Append(handled, got) \in Seq(Seq(Bytes))
        /\ Len(Append(handled, got)) = Len(handled) + 1
        /\ Append(handled, got)[Len(handled) + 1] = got
        /\ \A k \in 1..Len(handled) : Append(handled, got)[k] = handled[k]
    BY <1>1, AppendProperties
  <2>2. handled' = Append(handled, got)
    BY <1>3, <1>13
  <2>3. QED  BY <1>8, <2>1, <2>2
<1>15. buf' = <<>> /\ Len(buf') = 0 /\ buf' \in Seq(Bytes)
  <2>1. buf' = <<>>
    BY <1>3 DEF Close
  <2>2. QED  BY <2>1
<1>16. /\ isOpen' \in BOOLEAN /\ client' \in {"idle", "gone"}
       /\ ~isOpen' => client' = "gone"
  <2>1. CASE Close
    BY <2>1 DEF Close
  <2>2. CASE /\ client' = IF client = "waiting" THEN "idle" ELSE client
             /\ isOpen' = isOpen
    BY <1>1, <1>2, <1>9, <2>2
  <2>3. QED  BY <1>3, <2>1, <2>2
<1>17. TypeOK'
  BY <1>2, <1>5, <1>14, <1>15, <1>16 DEF IInv, TypeOK
<1>18. CountInv'
  BY <1>1, <1>2, <1>14, <1>15, <1>16 DEF CountInv
<1>19. IdleInv'
  <2>1. presses' = 0 => wire' = <<>>
    BY <1>2, <1>5, <1>12, EmptySeq
  <2>2. AllIn(buf', Telnet)
    BY <1>15 DEF AllIn
  <2>3. QED  BY <1>12, <1>15, <2>1, <2>2 DEF IdleInv, AllIn
<1>20. EndlessInv' /\ PendingInv'
  <2>1. Telnet \subseteq Bytes \ {LF}
    BY BytesDiffer DEF Telnet, Bytes
  <2>2. EndlessInv'
    BY <1>12, <2>1 DEF EndlessInv, AllIn
  <2>3. PendingInv'
    BY <1>1, <1>2, <1>14 DEF PendingInv
  <2>4. QED  BY <2>2, <2>3
<1>21. WholeInv'
  <2> SUFFICES ASSUME NEW k \in 1..Len(asked) PROVE Whole(k)'
    BY <1>14 DEF WholeInv
  <2>1. CASE k = Len(asked)
    <3>1. handled'[k] = got /\ asked'[k] = asked[Len(asked)] /\ k = Len(handled')
      BY <1>2, <1>14, <2>1
    <3>2. Clean(handled[k])' <=> Clean(got)
      BY <3>1 DEF Clean
    <3>3. ~Clean(got) => ~isOpen'
      BY <1>3, <1>13 DEF Close
    <3>4. Clean(got) \/ presses = 0 =>
             \/ got = asked[Len(asked)]
             \/ presses > 0 /\ IsSuffix(got, asked[Len(asked)])
             \/ presses = 0 /\ ~Clean(got) /\ got = asked[Len(asked)] \o <<CR>>
      BY <1>2, <1>8, <1>13, LineIsWhole
    <3>5. CASE presses = 0
      <4>1. ~(presses > 0)
        BY <3>5
      <4>2. QED  BY <1>2, <3>1, <3>2, <3>3, <3>4, <3>5, <4>1 DEF Whole
    <3>6. CASE presses # 0
      BY <1>2, <3>1, <3>2, <3>3, <3>4, <3>6 DEF Whole
    <3>7. QED  BY <3>5, <3>6
  <2>2. CASE k # Len(asked)
    <3>1. k \in 1..Len(handled) /\ handled'[k] = handled[k]
      <4>1. k \in 1..Len(handled)
        BY <1>1, <1>8, <2>2
      <4>2. QED  BY <1>14, <4>1
    <3>2. Whole(k)
      BY <3>1 DEF IInv, WholeInv
    <3>3. Clean(handled[k])' <=> Clean(handled[k])
      BY <3>1 DEF Clean
    <3>4. QED  BY <1>2, <3>1, <3>2, <3>3 DEF Whole
  <2>3. QED  BY <2>1, <2>2
<1>22. QED  BY <1>17, <1>18, <1>19, <1>20, <1>21 DEF IInv

-----------------------------------------------------------------------------
(* The invariant.                                                          *)

LEMMA Stutter == ASSUME IInv, UNCHANGED vars PROVE IInv'
<1>1. /\ isOpen' = isOpen /\ buf' = buf /\ wire' = wire /\ client' = client
      /\ presses' = presses /\ asked' = asked /\ handled' = handled
  BY DEF vars, clientVars
<1>2. TypeOK' /\ CountInv' /\ IdleInv' /\ EndlessInv'
  BY <1>1 DEF IInv, TypeOK, CountInv, IdleInv, EndlessInv, AllIn
<1>3. PendingInv'
  <2>1. \A end : Sent(end)' = Sent(end)
    BY <1>1 DEF Sent
  <2>2. ASSUME isOpen, Len(asked) = Len(handled) + 1 PROVE PendingInv'
    <3>1. PICK end \in LineEnds, p \in 1..Len(wire), n \in Int :
             Comes(Sent(end), p, n) /\ Kept(Sent(end), n)
      BY <2>2 DEF IInv, PendingInv
    <3>2. Comes(Sent(end), p, n)' /\ Kept(Sent(end), n)'
      BY <1>1, <2>1, <3>1 DEF Comes, Kept, Clean
    <3>3. p \in 1..Len(wire')
      BY <1>1
    <3>4. QED  BY <3>2, <3>3 DEF PendingInv
  <2>3. QED  BY <1>1, <2>2 DEF PendingInv
<1>4. WholeInv'
  BY <1>1, WholeStays DEF IInv
<1>5. QED  BY <1>2, <1>3, <1>4 DEF IInv

LEMMA NextStep == IInv /\ [Next]_vars => IInv'
<1> SUFFICES ASSUME IInv, [Next]_vars PROVE IInv'
  OBVIOUS
<1>1. CASE \E line \in Lines, end \in LineEnds : Ask(line, end)
  BY <1>1, AskStep
<1>2. CASE PressCtrlC
  BY <1>2, PressStep
<1>3. CASE \E part \in Lines : Leave(part)
  BY <1>3, LeaveStep
<1>4. CASE Accept
  BY <1>4, AcceptStep
<1>5. CASE TimeOut
  BY <1>5, TimeOutStep
<1>6. CASE Serve
  <2>1. PICK chunk \in Chunks : ReadPart(chunk) \/ ReadLine(chunk)
    BY <1>6 DEF Serve
  <2>2. QED  BY <2>1, ReadPartStep, ReadLineStep
<1>7. CASE UNCHANGED vars
  BY <1>7, Stutter
<1>8. QED  BY <1>1, <1>2, <1>3, <1>4, <1>5, <1>6, <1>7 DEF Next

LEMMA Invariance == Spec => []IInv
<1>1. QED  BY Initially, NextStep, PTL DEF Spec

(* handle_read's lines: whatever the bytes are, however many lines of      *)
(* whatever length are sent, ended with LF or CR LF, and wherever the      *)
(* reads cut them, a line that is handled is the one that was sent in its  *)
(* turn, with two exceptions: when ctrl+C was pressed it may be the end of *)
(* it or have another byte in it, and a line that was cut between its CR   *)
(* and its LF has its CR.  A line that is not allowed is the last one, and *)
(* its connection is closed.                                               *)
THEOREM HandledWhole == Spec => []LinesAreWhole
<1>1. IInv => LinesAreWhole
  <2> SUFFICES ASSUME IInv PROVE LinesAreWhole
    OBVIOUS
  <2>1. DOMAIN handled = 1..Len(handled)
    BY LenProperties DEF IInv, TypeOK
  <2>2. Len(handled) <= Len(asked)
    BY DEF IInv, CountInv
  <2>3. \A k \in 1..Len(handled) : Whole(k)
    BY DEF IInv, WholeInv
  <2>4. QED  BY <2>1, <2>2, <2>3 DEF LinesAreWhole
<1>2. QED  BY <1>1, Invariance, PTL

(* The buffer of a request, which main keeps when the answer is written    *)
(* and when the descriptor is given to another connection: a client that   *)
(* has no line under way finds it empty.                                   *)
THEOREM StartsEmpty == Spec => []NothingIsLeft
<1>1. IInv => NothingIsLeft
  BY DEF IInv, IdleInv, NothingIsLeft
<1>2. QED  BY <1>1, Invariance, PTL
=============================================================================
