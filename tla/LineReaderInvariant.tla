------------------------- MODULE LineReaderInvariant -------------------------
(***************************************************************************)
(* The inductive invariant of LineReader.                                  *)
(***************************************************************************)
EXTENDS LineReader

Bytes == Chars \cup {CR, LF, IAC, IP}
Telnet == {IAC, IP}

TypeOK ==
    /\ isOpen \in BOOLEAN
    /\ buf \in Seq(Bytes)
    /\ wire \in Seq(Bytes)
    /\ client \in {"idle", "waiting", "gone"}
    /\ presses \in Nat
    /\ asked \in Seq(Seq(Chars))
    /\ handled \in Seq(Seq(Bytes))

(* A connection is closed with an empty buffer; a client that waits has    *)
(* one line that is not handled yet, and one that has left at most one.    *)
CountInv ==
    /\ ~isOpen => client = "gone" /\ buf = <<>>
    /\ Len(handled) <= Len(asked)
    /\ isOpen => /\ client = "idle" => Len(asked) = Len(handled)
                 /\ client = "waiting" => Len(asked) = Len(handled) + 1
                 /\ Len(asked) <= Len(handled) + 1

AllIn(s, S) == \A i \in 1..Len(s) : s[i] \in S

(* Between two lines there is nothing but what ctrl+C has left.            *)
IdleInv ==
    client = "idle" =>
        /\ AllIn(buf, Telnet) /\ AllIn(wire, Telnet)
        /\ presses = 0 => buf = <<>> /\ wire = <<>>

(* When no line is left, no end of a line is on the wire.                  *)
EndlessInv == isOpen /\ Len(asked) = Len(handled) => AllIn(wire, Bytes \ {LF})

(* The last line with its end comes on the wire up to its p-th byte, with  *)
(* nothing else behind it, or before it when none of it is read, than what *)
(* ctrl+C has left.  The first n bytes of it, when n > 0, have been read.  *)
Sent(end) == asked[Len(asked)] \o end

Comes(sent, p, n) ==
    /\ n = Len(sent) - p
    /\ \A i \in 1..p : IF i + n >= 1 THEN wire[i] = sent[i + n] ELSE wire[i] \in Telnet
    /\ \A i \in p+1..Len(wire) : wire[i] \in Telnet
    /\ presses = 0 => n >= 0 /\ p = Len(wire)

(* A buffer that is still allowed has the last bytes that were read, and   *)
(* all of them unless ctrl+C has taken the first with it.  Without ctrl+C  *)
(* it has all of them in any case, and a CR may be among them.             *)
Kept(sent, n) ==
    Clean(buf) \/ presses = 0 =>
        /\ Len(buf) = 0 \/ Len(buf) <= n
        /\ \A i \in 1..Len(buf) : buf[i] = sent[n - Len(buf) + i]
        /\ presses = 0 => Len(buf) = n

PendingInv ==
    isOpen /\ Len(asked) = Len(handled) + 1 =>
        \E end \in LineEnds, p \in 1..Len(wire), n \in Int :
            Comes(Sent(end), p, n) /\ Kept(Sent(end), n)

WholeInv == \A k \in 1..Len(handled) : Whole(k)

IInv ==
    /\ TypeOK
    /\ CountInv
    /\ IdleInv
    /\ EndlessInv
    /\ PendingInv
    /\ WholeInv
=============================================================================
