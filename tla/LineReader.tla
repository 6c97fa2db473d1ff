------------------------------ MODULE LineReader ------------------------------
(***************************************************************************)
(* How handle_read of hw1's server.c makes lines out of what it reads from *)
(* a connection, and what main keeps in between: one entry of requestP,    *)
(* for the connections that get its descriptor one after the other.        *)
(*                                                                         *)
(* A client sends a line and waits for the answer, as a person at a        *)
(* terminal does.  TCP keeps the order of the bytes, but a read may find   *)
(* any part of what was sent.  What a line means is in TrainBooking and    *)
(* TrainListing, when it is read in PollLoop.                              *)
(***************************************************************************)
EXTENDS Integers, SequencesExt

CONSTANTS
    Chars,          \* what valid lines are made of
    CR, LF,
    IAC, IP,        \* a telnet client sends the two when its user presses ctrl+C
    MaxLength,      \* bound: characters in a line; less than MAX_MSG_LEN
    MaxLines,       \* bound: lines sent on a connection
    MaxPresses      \* bound: how often ctrl+C is pressed on a connection

ASSUME LineAssumption ==
    /\ {CR, LF, IAC, IP} \cap Chars = {}
    /\ Cardinality({CR, LF, IAC, IP}) = 4
    /\ MaxLength \in Nat
    /\ MaxLines \in Nat
    /\ MaxPresses \in Nat

CRLF == <<CR, LF>>
IAC_IP == <<IAC, IP>>

Lines == BoundedSeq(Chars, MaxLength)
LineEnds == {<<LF>>, CRLF}

VARIABLES
    isOpen,     \* conn_fd # -1
    buf,        \* the first buf_len bytes of buf
    wire,       \* what the client has sent and no read has returned
    client,     \* "idle", "waiting" for an answer, or "gone"
    presses,    \* how often it has pressed ctrl+C
    asked,      \* history: the lines it has sent
    handled     \* history: the lines that were handled for it

clientVars == <<client, presses, asked>>
vars == <<isOpen, buf, wire, clientVars, handled>>

Init ==
    /\ isOpen = FALSE
    /\ buf = <<>>
    /\ wire = <<>>
    /\ client = "gone"
    /\ presses = 0
    /\ asked = <<>>
    /\ handled = <<>>

-----------------------------------------------------------------------------
(* The client.                                                             *)

Ask(line, end) ==
    /\ client = "idle"
    /\ Len(asked) < MaxLines
    /\ asked' = Append(asked, line)
    /\ wire' = wire \o line \o end
    /\ client' = "waiting"
    /\ UNCHANGED <<isOpen, buf, presses, handled>>

PressCtrlC ==
    /\ client # "gone"
    /\ presses < MaxPresses
    /\ presses' = presses + 1
    /\ wire' = wire \o IAC_IP
    /\ UNCHANGED <<isOpen, buf, client, asked, handled>>

(* It may leave in the middle of a line, or without the answer.            *)
Leave(part) ==
    /\ \/ client = "idle"
       \/ client = "waiting" /\ part = <<>>
    /\ client' = "gone"
    /\ wire' = wire \o part
    /\ UNCHANGED <<isOpen, buf, presses, asked, handled>>

-----------------------------------------------------------------------------
(* The server.                                                             *)

Accept ==
    /\ ~isOpen
    /\ isOpen' = TRUE
    /\ wire' = <<>>
    /\ client' = "idle"
    /\ presses' = 0
    /\ asked' = <<>>
    /\ handled' = <<>>
    /\ UNCHANGED buf

(* Mutant: the request keeps its buffer.                                   *)
CloseWithBuffer ==
    /\ isOpen' = FALSE
    /\ client' = "gone"
    /\ UNCHANGED buf

(* close and free_request.                                                 *)
Close ==
    /\ isOpen' = FALSE
    /\ client' = "gone"
    /\ buf' = <<>>

TimeOut ==
    /\ isOpen
    /\ Close
    /\ UNCHANGED <<wire, presses, asked, handled>>

(* strstr: where p begins in s.                                            *)
Places(s, p) == {k \in 1..(Len(s) - Len(p) + 1) : SubSeq(s, k, k + Len(p) - 1) = p}

(* Mutant: a line ends with CR LF only.                                    *)
EndsOfCRLF(chunk) == Places(chunk, CRLF)

Ends(chunk) ==
    IF Places(chunk, CRLF) # {} THEN Places(chunk, CRLF) ELSE Places(chunk, <<LF>>)

(* What read may return.                                                   *)
Chunks == {SubSeq(wire, 1, n) : n \in 1..Len(wire)}

Receive(chunk) ==
    /\ isOpen
    /\ chunk \in Chunks
    /\ wire' = SubSeq(wire, Len(chunk) + 1, Len(wire))

(* No end of a line: ctrl+C is dropped with all that follows it, and       *)
(* anything else is kept.                                                  *)
ReadPart(chunk) ==
    /\ Receive(chunk)
    /\ Ends(chunk) = {}
    /\ buf' = IF IsPrefix(IAC_IP, chunk) THEN buf ELSE buf \o chunk
    /\ UNCHANGED <<isOpen, clientVars, handled>>

(* Mutant: main does not reset buf_len.                                    *)
BufferAfterKept(line) == line

BufferAfter(line) == <<>>

Clean(line) == \A k \in DOMAIN line : line[k] \in Chars

(* The line is what was kept and what comes before its end; what comes     *)
(* after its end is dropped.  A line with another byte in it, or an empty  *)
(* one, is not allowed and ends the connection, and so may any other; else *)
(* main writes the answer and resets buf_len.                              *)
ReadLine(chunk) ==
    /\ Receive(chunk)
    /\ \E e \in Ends(chunk) :
          /\ \A f \in Ends(chunk) : e <= f
          /\ LET line == buf \o SubSeq(chunk, 1, e - 1)
             IN  /\ handled' = Append(handled, line)
                 /\ \/ Close
                    \/ /\ Clean(line)
                       /\ line # <<>>
                       /\ buf' = BufferAfter(line)
                       /\ client' = IF client = "waiting" THEN "idle" ELSE client
                       /\ UNCHANGED isOpen
    /\ UNCHANGED <<presses, asked>>

-----------------------------------------------------------------------------
Serve == \E chunk \in Chunks : ReadPart(chunk) \/ ReadLine(chunk)

Next ==
    \/ \E line \in Lines, end \in LineEnds : Ask(line, end)
    \/ PressCtrlC
    \/ \E part \in Lines : Leave(part)
    \/ Accept
    \/ TimeOut
    \/ Serve

Spec == Init /\ [][Next]_vars

(* poll returns as long as there is something to read.                     *)
FairSpec == Spec /\ WF_vars(Serve)

-----------------------------------------------------------------------------
(* The k-th line that was handled is the one that was sent in its turn; or *)
(* the end of it, when ctrl+C has taken its beginning; or it is not        *)
(* allowed, and then the last, and its connection is closed.  Without      *)
(* ctrl+C only the line that was torn between its CR and its LF is not     *)
(* allowed: its CR was kept when it was read, and stays in it.             *)
Whole(k) ==
    \/ handled[k] = asked[k]
    \/ presses > 0 /\ Clean(handled[k]) /\ IsSuffix(handled[k], asked[k])
    \/ /\ ~Clean(handled[k])
       /\ k = Len(handled) /\ ~isOpen
       /\ presses = 0 => handled[k] = asked[k] \o <<CR>>

(* handle_read and the reset in main: wherever the reads tear them, the    *)
(* lines that are handled are those that the client has sent, in order,    *)
(* each once and complete, with two exceptions.  Ctrl+C can take the       *)
(* beginning of the next line with it, or leave a byte of its own in it.   *)
(* And a line that is torn between its CR and its LF keeps the CR: it is   *)
(* refused, whatever it asks for, and its connection is closed.            *)
LinesAreWhole ==
    /\ Len(handled) <= Len(asked)
    /\ \A k \in DOMAIN handled : Whole(k)

(* A client that has its answer, or has just been accepted, starts with an *)
(* empty buffer: nothing is left of its last line or of the connection     *)
(* that had the descriptor before.                                         *)
NothingIsLeft == client = "idle" /\ presses = 0 => buf = <<>> /\ wire = <<>>

(* A client that waits gets an answer, or its connection is closed, as it  *)
(* is when its line is refused.                                            *)
EveryLineIsAnswered == client = "waiting" ~> client # "waiting"
=============================================================================
