----------------------------- MODULE LineBuffer -----------------------------
(***************************************************************************)
(* How the connection thread cuts the bytes of the server into lines: the   *)
(* second half of the loop in IrcClient::connect and the guard of           *)
(* handleMessage (src/src/irc/irc_client.cc).  recv() returns any non-empty *)
(* part of what has arrived; the rest of an unfinished line stays in        *)
(* recv_buff, a member that neither a reconnection nor reset() empties.     *)
(***************************************************************************)
EXTENDS Naturals, SequencesExt

CONSTANTS Byte,        \* the bytes a server sends
          CR, LF,      \* two of them end a line
          MaxBytes     \* bound: bytes sent in a run

ASSUME LineBufferAssumption ==
  /\ {CR, LF} \subseteq Byte /\ CR # LF
  /\ MaxBytes \in Nat

VARIABLES wire,        \* sent on the present connection, not received
          pc,          \* "read", or "split" inside the inner loop
          recv_buff,   \* IrcClient::recv_buff
          temp,        \* the copy the inner loop consumes
          sent,        \* how many bytes were sent
          received,    \* history: every byte recv() returned
          consumed,    \* history: the bytes cut off with their line ends
          handled      \* history: the lines handleMessage acted on

vars == <<wire, pc, recv_buff, temp, sent, received, consumed, handled>>

Bytes == Seq(Byte)

TypeOK ==
  /\ wire \in Bytes /\ recv_buff \in Bytes /\ temp \in Bytes
  /\ received \in Bytes /\ consumed \in Bytes
  /\ handled \in Seq(Bytes)
  /\ pc \in {"read", "split"}
  /\ sent \in 0 .. MaxBytes

Init ==
  /\ wire = <<>> /\ recv_buff = <<>> /\ temp = <<>>
  /\ received = <<>> /\ consumed = <<>> /\ handled = <<>>
  /\ pc = "read"
  /\ sent = 0
-----------------------------------------------------------------------------
\* Where "\r\n" is in s, and where find() finds it.
LineEnds(s) == {i \in 1 .. Len(s) : i < Len(s) /\ s[i] = CR /\ s[i + 1] = LF}
Finds(s, pos) == pos \in LineEnds(s) /\ \A i \in LineEnds(s) : pos <= i

ServerSends(b) ==
  /\ sent < MaxBytes
  /\ sent' = sent + 1
  /\ wire' = Append(wire, b)
  /\ UNCHANGED <<pc, recv_buff, temp, received, consumed, handled>>

\* Mutant: what was left of the last read is forgotten.
ReadAfresh(n) ==
  /\ pc = "read"
  /\ received' = received \o SubSeq(wire, 1, n)
  /\ wire' = SubSeq(wire, n + 1, Len(wire))
  /\ recv_buff' = SubSeq(wire, 1, n)
  /\ temp' = recv_buff'
  /\ pc' = IF Len(recv_buff') > 2 THEN "split" ELSE "read"
  /\ UNCHANGED <<sent, consumed, handled>>

\* recv() returns n bytes; two bytes or fewer are not looked at yet.
Read(n) ==
  /\ pc = "read"
  /\ received' = received \o SubSeq(wire, 1, n)
  /\ wire' = SubSeq(wire, n + 1, Len(wire))
  /\ recv_buff' = recv_buff \o SubSeq(wire, 1, n)
  /\ temp' = recv_buff'
  /\ pc' = IF Len(recv_buff') > 2 THEN "split" ELSE "read"
  /\ UNCHANGED <<sent, consumed, handled>>

\* Mutant: the bytes of a line are handed on one by one.
WithBytes(line) == handled \o line

\* handleMessage ignores an empty line.
WithLine(line) == IF line = <<>> THEN handled ELSE Append(handled, line)

\* Mutant: a line end is taken for one byte.
CutLineShort ==
  /\ pc = "split"
  /\ \E pos \in 1 .. Len(temp) :
       /\ Finds(temp, pos)
       /\ handled' = WithLine(SubSeq(temp, 1, pos - 1))
       /\ consumed' = consumed \o SubSeq(temp, 1, pos)
       /\ temp' = SubSeq(temp, pos + 1, Len(temp))
  /\ UNCHANGED <<wire, pc, recv_buff, sent, received>>

\* One round of the inner loop.
CutLine ==
  /\ pc = "split"
  /\ \E pos \in 1 .. Len(temp) :
       /\ Finds(temp, pos)
       /\ handled' = WithLine(SubSeq(temp, 1, pos - 1))
       /\ consumed' = consumed \o SubSeq(temp, 1, pos + 1)
       /\ temp' = SubSeq(temp, pos + 2, Len(temp))
  /\ UNCHANGED <<wire, pc, recv_buff, sent, received>>

\* Mutant: one line per read.
EndSplitEarly ==
  /\ pc = "split"
  /\ recv_buff' = temp
  /\ pc' = "read"
  /\ UNCHANGED <<wire, temp, sent, received, consumed, handled>>

EndSplit ==
  /\ pc = "split"
  /\ LineEnds(temp) = {}
  /\ recv_buff' = temp
  /\ pc' = "read"
  /\ UNCHANGED <<wire, temp, sent, received, consumed, handled>>

\* A new socket, after an outage or after disconnect() and connect(): what the
\* old one had not delivered is lost, recv_buff is kept.
Reconnect ==
  /\ pc = "read"
  /\ wire' = <<>>
  /\ UNCHANGED <<pc, recv_buff, temp, sent, received, consumed, handled>>

Next ==
  \/ \E b \in Byte : ServerSends(b)
  \/ \E n \in 1 .. Len(wire) : Read(n)
  \/ CutLine
  \/ EndSplit
  \/ Reconnect

Spec == Init /\ [][Next]_vars
-----------------------------------------------------------------------------
(* Properties                                                              *)

\* What has been received and not cut off.
Rest == IF pc = "split" THEN temp ELSE recv_buff

\* irc_client.cc:73-86: no byte is lost, repeated or moved by the cutting,
\* however the stream is cut into reads and over whatever connections it came.
NoByteLost == received = consumed \o Rest

\* irc_client.cc:74-82: a line that is complete has been handled when the
\* thread waits for the next read; only an empty line may stay, alone.
NoLineWaits ==
  pc = "read" /\ LineEnds(recv_buff) # {} => recv_buff = <<CR, LF>>

\* A parser that sees one byte at a time: the lines so far, the unfinished one.
ParseByte(state, b) ==
  IF b = LF /\ state.line # <<>> /\ Last(state.line) = CR
  THEN [lines |-> IF Len(state.line) = 1 THEN state.lines
                  ELSE Append(state.lines, Front(state.line)),
        line |-> <<>>]
  ELSE [state EXCEPT !.line = Append(@, b)]

NothingParsed == [lines |-> <<>>, line |-> <<>>]
Parses(s) ==
  LET parsed[i \in 0 .. Len(s)] ==
        IF i = 0 THEN NothingParsed ELSE ParseByte(parsed[i - 1], s[i])
  IN parsed
Parse(s) == Parses(s)[Len(s)]

\* irc_client.cc:68-86: the lines handled do not depend on how TCP cuts the
\* stream: they are those the byte parser finds in what has been received.
SegmentationInvisible == pc = "read" => handled = Parse(received).lines
-----------------------------------------------------------------------------
(* What makes SegmentationInvisible inductive                               *)

\* The byte parser has nothing left over where the code cut.
CutsParsed == Parse(consumed) = [lines |-> handled, line |-> <<>>]

SInv == TypeOK /\ NoByteLost /\ NoLineWaits /\ CutsParsed
=============================================================================
