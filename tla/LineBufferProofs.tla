-------------------------- MODULE LineBufferProofs --------------------------
(***************************************************************************)
(* LineBuffer for every alphabet and every length of the stream: the bytes  *)
(* received are the bytes cut off and the rest, no complete line waits, and *)
(* the lines handled are those a parser finds that sees one byte at a time. *)
(* Then what such a line is read as, whatever it is made of: the parts and  *)
(* the message it was written from.  And the glyphs it is shown in, whatever*)
(* the fonts: a lookup finds one, and moves or covers no other.             *)
(***************************************************************************)
EXTENDS LineBuffer, MessageParser, SequenceTheorems, FiniteSetTheorems, TLAPS

\* A sequence is what a cut leaves on its two sides.
LEMMA CutInTwo ==
  ASSUME NEW S, NEW s \in Seq(S), NEW k \in 0 .. Len(s)
  PROVE  /\ SubSeq(s, 1, k) \in Seq(S) /\ SubSeq(s, k + 1, Len(s)) \in Seq(S)
         /\ s = SubSeq(s, 1, k) \o SubSeq(s, k + 1, Len(s))
<1>1. /\ Len(s) \in Nat /\ k \in Int /\ 0 <= k /\ k <= Len(s)
      /\ \A i \in 1 .. Len(s) : s[i] \in S
  OBVIOUS
<1>2. SubSeq(s, 1, k) \in Seq(S) /\ SubSeq(s, k + 1, Len(s)) \in Seq(S)
  BY <1>1, SubSeqProperties
<1>3. SubSeq(s, 1, Len(s)) = s
  BY <1>1, SubSeqProperties, SeqEqual
<1>4. 1 \in 1 .. Len(s) + 1 /\ k \in 1 - 1 .. Len(s) /\ Len(s) \in k .. Len(s)
  BY <1>1
<1>5. SubSeq(s, 1, k) \o SubSeq(s, k + 1, Len(s)) = SubSeq(s, 1, Len(s))
  BY <1>4, ConcatAdjacentSubSeq
<1> QED BY <1>2, <1>3, <1>5

\* Every step keeps the types.
LEMMA StepTypes == TypeOK /\ [Next]_vars => TypeOK'
<1> SUFFICES ASSUME TypeOK, [Next]_vars PROVE TypeOK'
  OBVIOUS
<1> USE LineBufferAssumption DEF TypeOK, Bytes
<1>1. ASSUME NEW b \in Byte, ServerSends(b) PROVE TypeOK'
  BY <1>1 DEF ServerSends
<1>2. ASSUME NEW n \in 1 .. Len(wire), Read(n) PROVE TypeOK'
  <2>1. /\ SubSeq(wire, 1, n) \in Seq(Byte)
        /\ SubSeq(wire, n + 1, Len(wire)) \in Seq(Byte)
    BY CutInTwo
  <2>2. /\ recv_buff \o SubSeq(wire, 1, n) \in Seq(Byte)
        /\ received \o SubSeq(wire, 1, n) \in Seq(Byte)
    BY <2>1
  <2> QED BY <1>2, <2>1, <2>2 DEF Read
<1>3. CASE CutLine
  <2>1. PICK pos \in 1 .. Len(temp) :
          /\ Finds(temp, pos)
          /\ handled' = WithLine(SubSeq(temp, 1, pos - 1))
          /\ consumed' = consumed \o SubSeq(temp, 1, pos + 1)
          /\ temp' = SubSeq(temp, pos + 2, Len(temp))
    BY <1>3 DEF CutLine
  <2>2. pos + 1 \in 0 .. Len(temp) /\ pos - 1 \in 0 .. Len(temp)
    BY <2>1 DEF Finds, LineEnds
  <2>3. /\ SubSeq(temp, 1, pos + 1) \in Seq(Byte)
        /\ SubSeq(temp, (pos + 1) + 1, Len(temp)) \in Seq(Byte)
        /\ SubSeq(temp, 1, pos - 1) \in Seq(Byte)
    BY <2>2, CutInTwo
  <2>4. handled' \in Seq(Seq(Byte))
    BY <2>1, <2>3 DEF WithLine
  <2>5. consumed' \in Seq(Byte)
    BY <2>1, <2>3
  <2>6. (pos + 1) + 1 = pos + 2
    BY <2>2
  <2>7. temp' \in Seq(Byte)
    BY <2>1, <2>3, <2>6
  <2> QED BY <1>3, <2>4, <2>5, <2>7 DEF CutLine
<1>4. CASE EndSplit
  BY <1>4 DEF EndSplit
<1>5. CASE Reconnect
  BY <1>5 DEF Reconnect
<1>6. CASE UNCHANGED vars
  BY <1>6 DEF vars
<1> HIDE DEF TypeOK
<1> QED BY <1>1, <1>2, <1>3, <1>4, <1>5, <1>6 DEF Next

\* The buffers and histories of the framing keep their types.
THEOREM BufferTypes == Spec => []TypeOK
<1>1. Init => TypeOK
  BY LineBufferAssumption DEF Init, TypeOK, Bytes
<1> QED BY <1>1, StepTypes, PTL DEF Spec

\* A read moves the bytes it returns from the wire to the end of both the
\* buffer and the history; a round of the loop moves a line to "consumed".
LEMMA BytesKept ==
  ASSUME TypeOK, NoByteLost, [Next]_vars PROVE NoByteLost'
<1> USE DEF TypeOK, Bytes
<1>1. ASSUME NEW n \in 1 .. Len(wire), Read(n) PROVE NoByteLost'
  <2> DEFINE part == SubSeq(wire, 1, n)
  <2>1. part \in Seq(Byte)
    BY CutInTwo
  <2>2. received = consumed \o recv_buff
    BY <1>1 DEF Read, NoByteLost, Rest
  <2>3. received' = received \o part /\ consumed' = consumed /\ Rest' = recv_buff \o part
    <3>1. /\ recv_buff' = recv_buff \o part /\ temp' = recv_buff'
          /\ received' = received \o part /\ consumed' = consumed
      BY <1>1 DEF Read
    <3>2. Rest' = recv_buff'
      BY <3>1 DEF Rest
    <3> QED BY <3>1, <3>2
  <2> HIDE DEF part
  <2>4. (consumed \o recv_buff) \o part = consumed \o (recv_buff \o part)
    <3>1. consumed \in Seq(Byte) /\ recv_buff \in Seq(Byte)
      OBVIOUS
    <3> QED BY ONLY <2>1, <3>1, ConcatAssociative
  <2> QED BY <2>2, <2>3, <2>4 DEF NoByteLost
<1>2. CASE CutLine
  <2>1. PICK pos \in 1 .. Len(temp) :
          /\ Finds(temp, pos)
          /\ consumed' = consumed \o SubSeq(temp, 1, pos + 1)
          /\ temp' = SubSeq(temp, pos + 2, Len(temp))
    BY <1>2 DEF CutLine
  <2>2. pos + 1 \in 0 .. Len(temp) /\ pos + 2 = (pos + 1) + 1
    BY <2>1 DEF Finds, LineEnds
  <2>3. /\ SubSeq(temp, 1, pos + 1) \in Seq(Byte) /\ temp' \in Seq(Byte)
        /\ temp = SubSeq(temp, 1, pos + 1) \o temp'
    BY <2>1, <2>2, CutInTwo
  <2>4. received = consumed \o temp /\ received' = received /\ Rest' = temp'
    <3>1. pc = "split" /\ pc' = "split" /\ received' = received
      BY <1>2 DEF CutLine
    <3> QED BY <3>1 DEF NoByteLost, Rest
  <2>5. consumed \o (SubSeq(temp, 1, pos + 1) \o temp')
          = (consumed \o SubSeq(temp, 1, pos + 1)) \o temp'
    <3> DEFINE cut == SubSeq(temp, 1, pos + 1)
    <3>1. consumed \in Seq(Byte) /\ cut \in Seq(Byte) /\ temp' \in Seq(Byte)
      BY <2>3
    <3> HIDE DEF cut
    <3>2. consumed \o (cut \o temp') = (consumed \o cut) \o temp'
      BY ONLY SMTT(30), <3>1, ConcatAssociative
    <3> QED BY <3>2 DEF cut
  <2> QED BY <2>1, <2>3, <2>4, <2>5 DEF NoByteLost
<1>3. CASE UNCHANGED <<received, consumed, Rest>>
  BY <1>3 DEF NoByteLost
<1>4. ~CutLine /\ (\A n \in 1 .. Len(wire) : ~Read(n))
        => UNCHANGED <<received, consumed, Rest>>
  BY DEF Next, ServerSends, EndSplit, Reconnect, vars, Rest
<1> QED BY <1>1, <1>2, <1>3, <1>4

\* For every alphabet, every stream and every way to cut it into reads, over
\* any number of connections: what was received is what was cut off, in
\* order, followed by the rest.
THEOREM BytesAreConserved == Spec => []NoByteLost
<1>1. Init => NoByteLost
  BY DEF Init, NoByteLost, Rest
<1>2. TypeOK /\ NoByteLost /\ [Next]_vars => NoByteLost'
  BY BytesKept
<1> QED BY BufferTypes, <1>1, <1>2, PTL DEF Spec

\* In two bytes or fewer there is one place for a line end.
LEMMA OnlyPlace ==
  \A i, n \in Nat : 1 <= i /\ i < n /\ n <= 2 => i = 1 /\ n = 2
  OBVIOUS

\* No complete line waits for the next read, but for an empty one alone.
THEOREM LinesAreHandled == Spec => []NoLineWaits
<1>1. Init => NoLineWaits
  BY DEF Init, NoLineWaits, LineEnds
<1>2. TypeOK /\ NoLineWaits /\ [Next]_vars => NoLineWaits'
  <2> SUFFICES ASSUME TypeOK, NoLineWaits, [Next]_vars, TypeOK',
                      pc' = "read", LineEnds(recv_buff') # {}
               PROVE  recv_buff' = <<CR, LF>>
    BY StepTypes DEF NoLineWaits
  <2> USE DEF TypeOK, Bytes
  <2>1. ASSUME NEW n \in 1 .. Len(wire), Read(n) PROVE recv_buff' = <<CR, LF>>
    <3>1. Len(recv_buff') <= 2 /\ recv_buff' \in Seq(Byte)
      BY <2>1 DEF Read
    <3>2. PICK i \in 1 .. Len(recv_buff') :
            i < Len(recv_buff') /\ recv_buff'[i] = CR /\ recv_buff'[i + 1] = LF
      BY DEF LineEnds
    <3>3. i = 1 /\ Len(recv_buff') = 2
      <4>1. /\ Len(recv_buff') \in Nat /\ Len(recv_buff') <= 2
            /\ i \in Nat /\ 1 <= i /\ i < Len(recv_buff')
        BY <3>1, <3>2
      <4> QED BY ONLY <4>1, OnlyPlace
    <3>4. recv_buff'[1] = CR /\ recv_buff'[2] = LF
      BY <3>2, <3>3
    <3>5. <<CR, LF>> \in Seq(Byte) /\ Len(<<CR, LF>>) = 2
      BY LineBufferAssumption
    <3>6. \A k \in 1 .. 2 : recv_buff'[k] = <<CR, LF>>[k]
      BY <3>4
    <3> QED BY <3>1, <3>3, <3>5, <3>6, SeqEqual
  <2>2. CASE EndSplit
    BY <2>2 DEF EndSplit
  <2>3. CASE ~EndSplit /\ \A n \in 1 .. Len(wire) : ~Read(n)
    BY <2>3 DEF Next, ServerSends, CutLine, Reconnect, vars, NoLineWaits
  <2> QED BY <2>1, <2>2, <2>3
<1> QED BY BufferTypes, <1>1, <1>2, PTL DEF Spec
-----------------------------------------------------------------------------
(* Induction.  The theorems of the library take the formula as a parameter; *)
(* here it is a set, that of the counterexamples.                           *)

\* A set of numbers has a least element: of the intervals 0 .. n of its
\* elements one is minimal.
LEMMA LeastElement ==
  ASSUME NEW T, T \subseteq Nat, T # {}
  PROVE  \E m \in T : \A n \in T : m <= n
<1> DEFINE R == StrictSubsetOrdering(Nat)
           D == {0 .. n : n \in T}
<1>1. IsWellFoundedOn(R, FiniteSubsetsOf(Nat))
  BY FS_StrictSubsetOrderingWellFounded
<1>2. D \subseteq FiniteSubsetsOf(Nat) /\ D # {}
  <2>1. \A n \in Nat : 0 .. n \in FiniteSubsetsOf(Nat)
    BY FS_Interval DEF FiniteSubsetsOf
  <2> QED BY <2>1
<1> HIDE DEF R
<1>3. PICK x \in D : \A y \in D : <<y, x>> \notin R
  BY <1>1, <1>2, WFMin
<1>4. PICK m \in T : x = 0 .. m
  OBVIOUS
<1>5. ASSUME NEW n \in T, n < m PROVE FALSE
  <2>1. /\ 0 .. n \subseteq 0 .. m /\ 0 .. n # 0 .. m
        /\ 0 .. n \in SUBSET Nat /\ 0 .. m \in SUBSET Nat
    BY <1>5
  <2>2. <<0 .. n, 0 .. m>> \in R
    BY <2>1 DEF R, StrictSubsetOrdering
  <2> QED BY <2>2, <1>3, <1>4
<1> QED BY <1>5

\* What holds at 0 and from each number to the next holds up to n.
LEMMA InductionUpTo ==
  ASSUME NEW n \in Nat, NEW P, 0 \in P,
         \A i \in 1 .. n : i - 1 \in P => i \in P
  PROVE  \A i \in 0 .. n : i \in P
<1> DEFINE T == {i \in 0 .. n : i \notin P}
<1> SUFFICES ASSUME T # {} PROVE FALSE
  OBVIOUS
<1>1. PICK m \in T : \A k \in T : m <= k
  <2>1. T \subseteq Nat
    OBVIOUS
  <2> HIDE DEF T
  <2> QED BY <2>1, LeastElement
<1>2. m \in 1 .. n /\ m - 1 \in 0 .. n /\ m - 1 \notin T
  BY <1>1
<1> QED BY <1>1, <1>2

\* The functions on 0 .. n that go by the steps G from a value to the next.
Recursions(V, start, n, G) ==
  {f \in [0 .. n -> V] : f[0] = start /\ \A i \in 1 .. n : f[i] = G[i][f[i - 1]]}

\* There is one, if the steps stay among the values.
LEMMA RecursionExists ==
  ASSUME NEW V, NEW start \in V, NEW n \in Nat, NEW G \in [1 .. n -> [V -> V]]
  PROVE  Recursions(V, start, n, G) # {}
<1> DEFINE Makes(f, m) == f[0] = start /\ \A i \in 1 .. m : f[i] = G[i][f[i - 1]]
           P == {m \in 0 .. n : \E f \in [0 .. m -> V] : Makes(f, m)}
<1>1. 0 \in P
  <2> DEFINE f == [i \in 0 .. 0 |-> start]
  <2>1. f \in [0 .. 0 -> V] /\ Makes(f, 0)
    OBVIOUS
  <2> HIDE DEF f
  <2> QED BY <2>1
<1>2. ASSUME NEW m \in 1 .. n, m - 1 \in P PROVE m \in P
  <2>1. PICK g \in [0 .. m - 1 -> V] : Makes(g, m - 1)
    BY <1>2
  <2> DEFINE f == [i \in 0 .. m |-> IF i = m THEN G[m][g[m - 1]] ELSE g[i]]
  <2>2. f \in [0 .. m -> V]
    <3>1. G[m] \in [V -> V] /\ g[m - 1] \in V
      OBVIOUS
    <3>2. G[m][g[m - 1]] \in V
      BY <3>1
    <3>3. \A i \in 0 .. m : i # m => i \in 0 .. m - 1
      OBVIOUS
    <3> QED BY <3>2, <3>3
  <2>3. ASSUME NEW i \in 1 .. m PROVE f[i] = G[i][f[i - 1]]
    <3>1. i - 1 \in 0 .. m - 1 /\ f[i - 1] = g[i - 1]
      OBVIOUS
    <3>2. i # m => f[i] = g[i] /\ g[i] = G[i][g[i - 1]]
      BY <2>1
    <3> QED BY <3>1, <3>2
  <2>4. Makes(f, m)
    BY <2>1, <2>3
  <2> HIDE DEF f
  <2>5. m \in 0 .. n
    OBVIOUS
  <2> HIDE DEF Makes
  <2> QED BY <2>2, <2>4, <2>5
<1> HIDE DEF P
<1>3. \A i \in 0 .. n : i \in P
  BY <1>1, <1>2, InductionUpTo
<1> QED BY <1>3 DEF P, Recursions
-----------------------------------------------------------------------------
(* The parser that sees one byte at a time                                  *)

ParserStates == [lines : Seq(Bytes), line : Bytes]

\* A byte leads from a state of the parser to a state.
LEMMA ParseByteType ==
  ASSUME NEW state \in ParserStates, NEW b \in Byte
  PROVE  ParseByte(state, b) \in ParserStates
<1> USE DEF ParserStates, Bytes
<1>1. state.lines \in Seq(Seq(Byte)) /\ state.line \in Seq(Byte)
  OBVIOUS
<1>2. Append(state.line, b) \in Seq(Byte)
  BY <1>1
<1>3. ASSUME state.line # <<>> PROVE Front(state.line) \in Seq(Byte)
  <2>1. Len(state.line) - 1 \in 0 .. Len(state.line)
    BY <1>1, <1>3, EmptySeq
  <2> QED BY <1>1, <2>1, CutInTwo DEF Front
<1>4. state.line # <<>> => Append(state.lines, Front(state.line)) \in Seq(Seq(Byte))
  BY <1>1, <1>3
<1>5. CASE b = LF /\ state.line # <<>> /\ Last(state.line) = CR
  BY <1>1, <1>4, <1>5, EmptySeq DEF ParseByte
<1>6. CASE ~(b = LF /\ state.line # <<>> /\ Last(state.line) = CR)
  BY <1>1, <1>2, <1>6 DEF ParseByte
<1> QED BY <1>5, <1>6

\* The states the parser goes through are defined by their recursion.
LEMMA ParsesFacts ==
  ASSUME NEW s \in Bytes
  PROVE  /\ Parses(s) \in [0 .. Len(s) -> ParserStates]
         /\ Parses(s)[0] = NothingParsed
         /\ \A i \in 1 .. Len(s) : Parses(s)[i] = ParseByte(Parses(s)[i - 1], s[i])
<1> DEFINE n == Len(s)
           Makes(f) == f = [i \in 0 .. n |->
                              IF i = 0 THEN NothingParsed ELSE ParseByte(f[i - 1], s[i])]
           G == [i \in 1 .. n |-> [state \in ParserStates |-> ParseByte(state, s[i])]]
<1>1. n \in Nat /\ \A i \in 1 .. n : s[i] \in Byte
  BY DEF Bytes
<1>2. NothingParsed \in ParserStates
  BY EmptySeq DEF NothingParsed, ParserStates, Bytes
<1>3. G \in [1 .. n -> [ParserStates -> ParserStates]]
  BY <1>1, ParseByteType
<1>4. \A i \in 1 .. n : \A state \in ParserStates : G[i][state] = ParseByte(state, s[i])
  OBVIOUS
<1> HIDE DEF G, n
<1>5. PICK g \in [0 .. n -> ParserStates] :
        g[0] = NothingParsed /\ \A i \in 1 .. n : g[i] = G[i][g[i - 1]]
  <2>1. Recursions(ParserStates, NothingParsed, n, G) # {}
    BY <1>1, <1>2, <1>3, RecursionExists
  <2> QED BY <2>1 DEF Recursions
<1>6. Makes(g)
  <2>1. \A i \in 0 .. n : i # 0 => i \in 1 .. n /\ g[i - 1] \in ParserStates
    BY <1>1
  <2>2. \A i \in 0 .. n : g[i] = IF i = 0 THEN NothingParsed ELSE ParseByte(g[i - 1], s[i])
    BY <1>4, <1>5, <2>1
  <2> QED BY <1>5, <2>2
<1>7. Parses(s) = CHOOSE f : Makes(f)
  BY DEF Parses, n
<1>8. Makes(Parses(s))
  <2> HIDE DEF Makes
  <2> QED BY <1>6, <1>7
<1> HIDE DEF Makes
<1>9. /\ Parses(s)[0] = NothingParsed
      /\ \A i \in 1 .. n : Parses(s)[i] = ParseByte(Parses(s)[i - 1], s[i])
      /\ DOMAIN Parses(s) = 0 .. n
      /\ Parses(s) = [i \in 0 .. n |-> Parses(s)[i]]
  BY <1>1, <1>8 DEF Makes
<1>10. \A i \in 0 .. n : Parses(s)[i] \in ParserStates
  <2> DEFINE P == {i \in 0 .. n : Parses(s)[i] \in ParserStates}
  <2>1. 0 \in P
    BY <1>1, <1>2, <1>9
  <2>2. ASSUME NEW i \in 1 .. n, i - 1 \in P PROVE i \in P
    <3>1. i \in 0 .. n /\ Parses(s)[i - 1] \in ParserStates /\ s[i] \in Byte
      BY <1>1, <2>2
    <3>2. Parses(s)[i] \in ParserStates
      BY <1>9, <3>1, ParseByteType
    <3> QED BY <3>1, <3>2
  <2> HIDE DEF P
  <2>3. \A i \in 0 .. n : i \in P
    BY <1>1, <2>1, <2>2, InductionUpTo
  <2> QED BY <2>3 DEF P
<1> QED BY <1>9, <1>10 DEF n

\* What comes later does not change what was found before.
LEMMA ParsesPrefix ==
  ASSUME NEW s \in Bytes, NEW t \in Bytes
  PROVE  Parses(s \o t)[Len(s)] = Parse(s)
<1> DEFINE P == {i \in 0 .. Len(s) : Parses(s \o t)[i] = Parses(s)[i]}
<1>1. /\ s \o t \in Bytes /\ Len(s) \in Nat /\ Len(s \o t) = Len(s) + Len(t)
      /\ Len(t) \in Nat /\ \A i \in 1 .. Len(s) : (s \o t)[i] = s[i]
  BY DEF Bytes
<1>2. 0 \in P
  BY <1>1, ParsesFacts
<1>3. ASSUME NEW i \in 1 .. Len(s), i - 1 \in P PROVE i \in P
  <2>1. i \in 1 .. Len(s \o t) /\ i \in 0 .. Len(s)
    BY <1>1
  <2>2. /\ Parses(s \o t)[i] = ParseByte(Parses(s \o t)[i - 1], (s \o t)[i])
        /\ Parses(s)[i] = ParseByte(Parses(s)[i - 1], s[i])
    BY <1>1, <2>1, ParsesFacts
  <2> QED BY <1>1, <1>3, <2>1, <2>2
<1> HIDE DEF P
<1>4. \A i \in 0 .. Len(s) : i \in P
  BY <1>1, <1>2, <1>3, InductionUpTo
<1> QED BY <1>1, <1>4 DEF P, Parse

\* Text without a line end is collected as it is.
LEMMA ParseText ==
  ASSUME NEW s \in Bytes, NEW t \in Bytes, NEW k \in 0 .. Len(t),
         Parse(s).line = <<>>, \A i \in LineEnds(t) : k <= i
  PROVE  Parses(s \o t)[Len(s) + k] = [lines |-> Parse(s).lines, line |-> SubSeq(t, 1, k)]
<1> DEFINE before(i) == [lines |-> Parse(s).lines, line |-> SubSeq(t, 1, i)]
           P == {i \in 0 .. k : Parses(s \o t)[Len(s) + i] = before(i)}
<1>1. /\ s \o t \in Bytes /\ Len(s) \in Nat /\ Len(s \o t) = Len(s) + Len(t)
      /\ Len(t) \in Nat /\ k \in Nat
      /\ \A i \in 1 .. Len(t) : (s \o t)[Len(s) + i] = t[i] /\ t[i] \in Byte
  BY DEF Bytes
<1>2. Parse(s) \in ParserStates
  BY <1>1, ParsesFacts DEF Parse
<1>3. 0 \in P
  <2>1. SubSeq(t, 1, 0) = <<>>
    BY <1>1
  <2>2. Parse(s) = before(0)
    BY <1>2, <2>1 DEF ParserStates
  <2> QED BY <1>1, <2>2, ParsesPrefix
<1>4. ASSUME NEW i \in 1 .. k, i - 1 \in P PROVE i \in P
  <2> DEFINE line == SubSeq(t, 1, i - 1)
  <2>1. Parses(s \o t)[Len(s) + i] = ParseByte(before(i - 1), t[i])
    <3>1. Len(s) + i \in 1 .. Len(s \o t) /\ (Len(s) + i) - 1 = Len(s) + (i - 1)
      BY <1>1
    <3>2. (s \o t)[Len(s) + i] = t[i]
      BY <1>1
    <3>3. Parses(s \o t)[Len(s) + (i - 1)] = before(i - 1)
      BY <1>4
    <3> HIDE DEF before
    <3> QED BY <1>1, <3>1, <3>2, <3>3, ParsesFacts
  <2>2. /\ line \in Seq(Byte) /\ Len(line) = i - 1
        /\ line # <<>> => i - 1 \in 1 .. Len(t) /\ Last(line) = t[i - 1]
    BY <1>1, SubSeqProperties DEF Bytes, Last
  <2>3. ~(t[i] = LF /\ line # <<>> /\ Last(line) = CR)
    <3> SUFFICES ASSUME t[i] = LF, line # <<>>, Last(line) = CR PROVE FALSE
      OBVIOUS
    <3>1. i - 1 \in LineEnds(t)
      BY <1>1, <2>2 DEF LineEnds
    <3> QED BY <1>1, <3>1
  <2>4. Append(line, t[i]) = SubSeq(t, 1, i)
    BY <1>1, SubSeqProperties DEF Bytes
  <2>5. ParseByte(before(i - 1), t[i]) = before(i)
    BY <2>3, <2>4 DEF ParseByte
  <2> QED BY <1>1, <2>1, <2>5
<1> HIDE DEF P
<1>5. \A i \in 0 .. k : i \in P
  BY <1>1, <1>3, <1>4, InductionUpTo
<1> QED BY <1>1, <1>5 DEF P

\* A line and its end become a line, unless it is empty.
LEMMA ParseLine ==
  ASSUME NEW s \in Bytes, NEW t \in Bytes, NEW pos \in Nat,
         Parse(s).line = <<>>, Finds(t, pos), pos + 1 = Len(t)
  PROVE  Parse(s \o t) =
           [lines |-> IF pos = 1 THEN Parse(s).lines
                      ELSE Append(Parse(s).lines, SubSeq(t, 1, pos - 1)),
            line |-> <<>>]
<1> DEFINE line == SubSeq(t, 1, pos)
           before == [lines |-> Parse(s).lines, line |-> line]
<1>1. /\ s \o t \in Bytes /\ Len(s) \in Nat /\ Len(s \o t) = Len(s) + Len(t)
      /\ Len(t) \in Nat /\ pos \in 1 .. Len(t) /\ t[pos] = CR /\ t[pos + 1] = LF
      /\ (s \o t)[Len(s) + (pos + 1)] = t[pos + 1]
  BY DEF Bytes, Finds, LineEnds
<1>2. Parses(s \o t)[Len(s) + pos] = before
  <2>1. pos \in 0 .. Len(t) /\ \A i \in LineEnds(t) : pos <= i
    BY <1>1 DEF Finds
  <2> QED BY <2>1, ParseText
<1>3. Parse(s \o t) = ParseByte(before, LF)
  <2>1. /\ Len(s \o t) = Len(s) + (pos + 1) /\ Len(s \o t) \in 1 .. Len(s \o t)
        /\ Len(s \o t) - 1 = Len(s) + pos
    BY <1>1
  <2>2. Parses(s \o t)[Len(s \o t)]
          = ParseByte(Parses(s \o t)[Len(s \o t) - 1], (s \o t)[Len(s \o t)])
    BY <1>1, <2>1, ParsesFacts
  <2> HIDE DEF before
  <2> QED BY <1>1, <1>2, <2>1, <2>2 DEF Parse
<1>4. line \in Seq(Byte) /\ Len(line) = pos /\ line # <<>> /\ Last(line) = CR
  <2>1. line \in Seq(Byte) /\ Len(line) = pos /\ line[pos] = t[pos]
    BY <1>1, SubSeqProperties DEF Bytes
  <2> QED BY <1>1, <2>1, EmptySeq DEF Last
<1>5. Front(line) = SubSeq(t, 1, pos - 1)
  <2>1. Front(line) = SubSeq(line, 1, pos - 1)
    BY <1>4 DEF Front
  <2>2. /\ SubSeq(line, 1, pos - 1) \in Seq(Byte) /\ SubSeq(t, 1, pos - 1) \in Seq(Byte)
        /\ Len(SubSeq(line, 1, pos - 1)) = pos - 1 /\ Len(SubSeq(t, 1, pos - 1)) = pos - 1
        /\ \A i \in 1 .. pos - 1 : SubSeq(line, 1, pos - 1)[i] = SubSeq(t, 1, pos - 1)[i]
    BY <1>1, <1>4, SubSeqProperties DEF Bytes
  <2> HIDE DEF line
  <2> QED BY <2>1, <2>2, SeqEqual
<1> HIDE DEF line
<1> QED BY <1>3, <1>4, <1>5 DEF ParseByte

\* Where the code cuts, the byte parser has found the same lines and has nothing
\* left over.
LEMMA CutsParsedKept ==
  ASSUME TypeOK, CutsParsed, [Next]_vars PROVE CutsParsed'
<1>1. CASE CutLine
  <2>1. PICK pos \in 1 .. Len(temp) :
          /\ Finds(temp, pos)
          /\ handled' = WithLine(SubSeq(temp, 1, pos - 1))
          /\ consumed' = consumed \o SubSeq(temp, 1, pos + 1)
    BY <1>1 DEF CutLine
  <2> DEFINE t == SubSeq(temp, 1, pos + 1)
  <2>2. /\ temp \in Bytes /\ consumed \in Bytes /\ Len(temp) \in Nat
        /\ pos + 1 \in 1 .. Len(temp)
    BY <2>1 DEF TypeOK, Bytes, Finds, LineEnds
  <2>3. t \in Bytes /\ Len(t) = pos + 1 /\ \A i \in 1 .. pos + 1 : t[i] = temp[i]
    BY <2>2, SubSeqProperties DEF Bytes
  <2>4. SubSeq(t, 1, pos - 1) = SubSeq(temp, 1, pos - 1)
    <3>1. /\ SubSeq(t, 1, pos - 1) \in Bytes /\ SubSeq(temp, 1, pos - 1) \in Bytes
          /\ Len(SubSeq(t, 1, pos - 1)) = pos - 1
          /\ Len(SubSeq(temp, 1, pos - 1)) = pos - 1
          /\ \A i \in 1 .. pos - 1 : SubSeq(t, 1, pos - 1)[i] = SubSeq(temp, 1, pos - 1)[i]
      BY <2>2, <2>3, SubSeqProperties DEF Bytes
    <3> HIDE DEF t
    <3> QED BY <3>1, SeqEqual DEF Bytes
  <2> HIDE DEF t
  <2>5. Finds(t, pos)
    <3>1. pos \in LineEnds(temp) /\ \A i \in LineEnds(temp) : pos <= i
      BY <2>1 DEF Finds
    <3>2. pos \in LineEnds(t)
      BY <2>2, <2>3, <3>1 DEF LineEnds
    <3>3. \A i \in LineEnds(t) : i \in LineEnds(temp)
      BY <2>2, <2>3 DEF LineEnds
    <3> QED BY <3>1, <3>2, <3>3 DEF Finds
  <2>6. SubSeq(t, 1, pos - 1) = <<>> <=> pos = 1
    <3>1. SubSeq(t, 1, pos - 1) \in Bytes /\ Len(SubSeq(t, 1, pos - 1)) = pos - 1
      BY <2>2, <2>3, SubSeqProperties DEF Bytes
    <3>2. pos - 1 = 0 <=> pos = 1
      BY <2>2
    <3> QED BY ONLY <3>1, <3>2, EmptySeq DEF Bytes
  <2>7. Parse(consumed).line = <<>> /\ Parse(consumed).lines = handled
    BY DEF CutsParsed
  <2>8. Parse(consumed \o t) =
          [lines |-> IF pos = 1 THEN handled ELSE Append(handled, SubSeq(t, 1, pos - 1)),
           line |-> <<>>]
    BY <2>2, <2>3, <2>5, <2>7, ParseLine
  <2>9. handled' = IF pos = 1 THEN handled ELSE Append(handled, SubSeq(t, 1, pos - 1))
    BY <2>1, <2>4, <2>6 DEF WithLine
  <2> QED BY <2>1, <2>8, <2>9 DEF CutsParsed, t
<1>2. CASE ~CutLine
  <2>1. consumed' = consumed /\ handled' = handled
    BY <1>2 DEF Next, ServerSends, Read, EndSplit, Reconnect, vars
  <2> QED BY <2>1 DEF CutsParsed
<1> QED BY <1>1, <1>2

\* For every alphabet, every stream and every way in which TCP cuts it into
\* reads, the lines handled are those the byte parser finds.
THEOREM SegmentationDoesNotMatter == Spec => []SegmentationInvisible
<1>1. Init => CutsParsed
  <2> SUFFICES ASSUME Init PROVE CutsParsed
    OBVIOUS
  <2>1. <<>> \in Bytes /\ Len(<<>>) = 0
    BY EmptySeq DEF Bytes
  <2>2. Parse(<<>>) = NothingParsed
    BY <2>1, ParsesFacts DEF Parse
  <2> QED BY <2>2 DEF Init, CutsParsed, NothingParsed
<1>2. TypeOK /\ CutsParsed /\ [Next]_vars => CutsParsed'
  BY CutsParsedKept
<1>3. TypeOK /\ NoByteLost /\ NoLineWaits /\ CutsParsed => SegmentationInvisible
  <2> SUFFICES ASSUME TypeOK, NoByteLost, NoLineWaits, CutsParsed, pc = "read"
               PROVE  handled = Parse(received).lines
    BY DEF SegmentationInvisible
  <2>1. /\ received = consumed \o recv_buff /\ consumed \in Bytes /\ recv_buff \in Bytes
        /\ Parse(consumed).line = <<>> /\ Parse(consumed).lines = handled
    BY DEF TypeOK, NoByteLost, Rest, CutsParsed
  <2>2. CASE LineEnds(recv_buff) = {}
    <3>1. Len(recv_buff) \in 0 .. Len(recv_buff) /\ Len(consumed) \in Nat
          /\ Len(consumed \o recv_buff) = Len(consumed) + Len(recv_buff)
      BY <2>1 DEF Bytes
    <3>2. \A i \in LineEnds(recv_buff) : Len(recv_buff) <= i
      BY <2>2
    <3>3. Parses(consumed \o recv_buff)[Len(consumed) + Len(recv_buff)]
            = [lines |-> Parse(consumed).lines, line |-> SubSeq(recv_buff, 1, Len(recv_buff))]
      BY <2>1, <3>1, <3>2, ParseText
    <3> QED BY <2>1, <3>1, <3>3 DEF Parse
  <2>3. CASE LineEnds(recv_buff) # {}
    <3>1. recv_buff = <<CR, LF>>
      BY <2>3 DEF NoLineWaits
    <3>2. Len(recv_buff) = 2 /\ recv_buff[1] = CR /\ recv_buff[2] = LF
      BY <3>1
    <3>3. LineEnds(recv_buff) = {1}
      BY <3>2 DEF LineEnds
    <3>4. Finds(recv_buff, 1) /\ 1 \in Nat /\ 1 + 1 = Len(recv_buff)
      BY <3>2, <3>3 DEF Finds
    <3>5. Parse(consumed \o recv_buff)
            = [lines |-> IF 1 = 1 THEN Parse(consumed).lines
                         ELSE Append(Parse(consumed).lines, SubSeq(recv_buff, 1, 1 - 1)),
               line |-> <<>>]
      BY <2>1, <3>4, ParseLine
    <3> QED BY <2>1, <3>5
  <2> QED BY <2>2, <2>3
<1> QED BY BufferTypes, BytesAreConserved, LinesAreHandled, <1>1, <1>2, <1>3, PTL DEF Spec
-----------------------------------------------------------------------------
(* What a line is made of, and what is read from it                         *)

\* Two sequences that are joined are the parts they were.
LEMMA PartsOfJoined ==
  ASSUME NEW S, NEW s \in Seq(S), NEW t \in Seq(S)
  PROVE  /\ s \o t \in Seq(S) /\ Len(s \o t) = Len(s) + Len(t)
         /\ \A i \in 1 .. Len(s) : (s \o t)[i] = s[i]
         /\ SubSeq(s \o t, 1, Len(s)) = s
         /\ SubSeq(s \o t, Len(s) + 1, Len(s \o t)) = t
<1>1. PICK u \in Seq(S) : u = s \o t
  <2>1. s \o t \in Seq(S)
    BY ConcatProperties
  <2> QED BY <2>1
<1>2. /\ Len(u) = Len(s) + Len(t) /\ Len(s) \in Nat /\ Len(t) \in Nat
      /\ \A i \in 1 .. Len(s) : u[i] = s[i] /\ s[i] \in S
      /\ \A i \in 1 .. Len(t) : u[Len(s) + i] = t[i] /\ t[i] \in S
  <2>1. /\ Len(u) = Len(s) + Len(t) /\ Len(s) \in Nat /\ Len(t) \in Nat
        /\ \A i \in 1 .. Len(s) + Len(t) :
             u[i] = IF i <= Len(s) THEN s[i] ELSE t[i - Len(s)]
    BY <1>1, ConcatProperties
  <2>2. \A i \in 1 .. Len(s) : u[i] = s[i] /\ s[i] \in S
    BY <2>1
  <2>3. ASSUME NEW i \in 1 .. Len(t) PROVE u[Len(s) + i] = t[i] /\ t[i] \in S
    <3>1. /\ Len(s) + i \in 1 .. Len(s) + Len(t)
          /\ ~(Len(s) + i <= Len(s)) /\ Len(s) + i - Len(s) = i
      BY <2>1
    <3> QED BY <2>1, <3>1
  <2> QED BY <2>1, <2>2, <2>3
<1>3. SubSeq(u, 1, Len(s)) = s
  <2>1. /\ SubSeq(u, 1, Len(s)) \in Seq(S) /\ Len(SubSeq(u, 1, Len(s))) = Len(s)
        /\ \A i \in 1 .. Len(s) : SubSeq(u, 1, Len(s))[i] = u[i]
    <3>1. \A i \in 1 .. Len(s) : u[i] \in S
      BY <1>2
    <3>2. /\ SubSeq(u, 1, Len(s)) \in Seq(S)
          /\ Len(SubSeq(u, 1, Len(s))) = IF 1 <= Len(s) THEN Len(s) - 1 + 1 ELSE 0
          /\ \A i \in 1 .. Len(s) - 1 + 1 : SubSeq(u, 1, Len(s))[i] = u[1 + i - 1]
      BY <3>1, <1>2, SubSeqProperties
    <3>3. \A i \in 1 .. Len(s) : i \in 1 .. Len(s) - 1 + 1 /\ 1 + i - 1 = i
      BY <1>2
    <3>4. Len(SubSeq(u, 1, Len(s))) = Len(s)
      BY <3>2, <1>2
    <3> QED BY <3>2, <3>3, <3>4
  <2> QED BY <2>1, <1>2, SeqEqual
<1>4. SubSeq(u, Len(s) + 1, Len(u)) = t
  <2> DEFINE n == Len(s)
             v == SubSeq(u, n + 1, Len(u))
  <2>1. /\ v \in Seq(S) /\ Len(v) = Len(t)
        /\ \A i \in 1 .. Len(t) : v[i] = u[n + i]
    <3>1. \A i \in n + 1 .. Len(u) : u[i] \in S
      <4> TAKE i \in n + 1 .. Len(u)
      <4>1. i - n \in 1 .. Len(t) /\ n + (i - n) = i
        BY <1>2
      <4> QED BY <4>1, <1>2
    <3>2. /\ v \in Seq(S)
          /\ Len(v) = IF n + 1 <= Len(u) THEN Len(u) - (n + 1) + 1 ELSE 0
          /\ \A i \in 1 .. Len(u) - (n + 1) + 1 : v[i] = u[n + 1 + i - 1]
      <4>1. n + 1 \in Int /\ Len(u) \in Int
        BY <1>2
      <4> HIDE DEF n
      <4> QED BY <4>1, <3>1, SubSeqProperties
    <3>3. \A i \in 1 .. Len(t) : i \in 1 .. Len(u) - (n + 1) + 1 /\ n + 1 + i - 1 = n + i
      BY <1>2
    <3>4. Len(v) = Len(t)
      <4> HIDE DEF v
      <4> QED BY <3>2, <1>2
    <3> HIDE DEF v, n
    <3> QED BY <3>2, <3>3, <3>4
  <2> HIDE DEF v
  <2>2. \A i \in 1 .. Len(t) : v[i] = t[i]
    BY <1>2, <2>1
  <2>3. v = t
    BY <2>1, <2>2, SeqEqual
  <2> QED BY <2>3 DEF v
<1> QED BY <1>1, <1>2, <1>3, <1>4

\* Texts are joined from either end alike.
LEMMA Joining ==
  /\ \A s, t \in Seq(Nat) : s \o t \in Seq(Nat)
  /\ \A s, t, u \in Seq(Nat) : (s \o t) \o u = s \o (t \o u)
<1>1. ASSUME NEW s \in Seq(Nat), NEW t \in Seq(Nat) PROVE s \o t \in Seq(Nat)
  BY ConcatProperties
<1>2. ASSUME NEW s \in Seq(Nat), NEW t \in Seq(Nat), NEW u \in Seq(Nat)
      PROVE  (s \o t) \o u = s \o (t \o u)
  BY ConcatAssociative
<1> QED BY <1>1, <1>2

\* What is read of a text up to a character, and what is left behind it.
LEMMA ReadsUpTo ==
  ASSUME NEW s \in Seq(Nat), NEW t \in Seq(Nat), NEW c \in Nat, ~Has(s, c)
  PROVE  LET x == s \o (<<c>> \o t)
         IN /\ x \in Seq(Nat) /\ Has(x, c)
            /\ ReadUntil(x, c) = s /\ From(x, c) = <<c>> \o t /\ SkipUntil(x, c) = t
<1>1. <<c>> \in Seq(Nat) /\ Len(<<c>>) = 1 /\ <<c>>[1] = c
  OBVIOUS
<1>2. PICK r \in Seq(Nat) : r = <<c>> \o t /\ Len(r) = 1 + Len(t) /\ r[1] = c
                            /\ Skip(r, 1) = t
  <2>1. /\ <<c>> \o t \in Seq(Nat) /\ Len(<<c>> \o t) = 1 + Len(t)
        /\ (<<c>> \o t)[1] = c /\ SubSeq(<<c>> \o t, 1 + 1, Len(<<c>> \o t)) = t
    BY <1>1, PartsOfJoined
  <2> QED BY <2>1 DEF Skip
<1>3. PICK x \in Seq(Nat) :
        /\ x = s \o r /\ Len(x) = Len(s) + Len(r)
        /\ \A i \in 1 .. Len(s) : x[i] = s[i]
        /\ SubSeq(x, 1, Len(s)) = s
        /\ Skip(x, Len(s)) = r
  <2>1. s \o r \in Seq(Nat)
    BY PartsOfJoined
  <2>2. /\ Len(s \o r) = Len(s) + Len(r)
        /\ \A i \in 1 .. Len(s) : (s \o r)[i] = s[i]
        /\ SubSeq(s \o r, 1, Len(s)) = s
        /\ SubSeq(s \o r, Len(s) + 1, Len(s \o r)) = r
    BY PartsOfJoined
  <2> QED BY <2>1, <2>2 DEF Skip
<1>4. Len(s) \in Nat /\ Len(t) \in Nat /\ Len(x) \in Nat
  BY LenProperties
<1>5. x[Len(s) + 1] = c
  <2>1. Len(s) + 1 \in 1 .. Len(s) + Len(r) /\ ~(Len(s) + 1 <= Len(s))
        /\ Len(s) + 1 - Len(s) = 1
    BY <1>2, <1>4
  <2>2. (s \o r)[Len(s) + 1] = r[Len(s) + 1 - Len(s)]
    BY <2>1, ConcatProperties
  <2> QED BY <2>1, <2>2, <1>2, <1>3
<1>6. Has(x, c)
  <2>1. Len(s) + 1 \in 1 .. Len(x)
    BY <1>2, <1>3, <1>4
  <2> QED BY <2>1, <1>5 DEF Has
<1> DEFINE I == {i \in 1 .. Len(x) : x[i] = c}
<1>7. Len(s) + 1 \in I /\ I \subseteq Nat /\ \A i \in I : Len(s) + 1 <= i
  <2>1. Len(s) + 1 \in 1 .. Len(x)
    BY <1>2, <1>3, <1>4
  <2>2. ASSUME NEW i \in I PROVE Len(s) + 1 <= i
    <3>1. CASE i <= Len(s)
      <4>1. i \in 1 .. Len(s) /\ x[i] = s[i]
        BY <3>1, <2>2, <1>3, <1>4
      <4> QED BY <4>1, <2>2 DEF Has
    <3>2. CASE ~(i <= Len(s))
      BY <3>2, <2>2, <1>4
    <3> QED BY <3>1, <3>2
  <2> QED BY <2>1, <2>2, <1>5
<1>8. Min(I) = Len(s) + 1
  <2> HIDE DEF I
  <2>1. \A m \in I : (\A y \in I : m <= y) => m = Len(s) + 1
    BY <1>7, <1>4
  <2> QED BY <1>7, <2>1 DEF Min
<1>9. ReadUntil(x, c) = s
  <2>1. ReadUntil(x, c) = SubSeq(x, 1, (IF I # {} THEN Min(I) ELSE 0) - 1)
    BY <1>6 DEF ReadUntil, SelectInSeq
  <2> HIDE DEF I
  <2>2. (IF I # {} THEN Min(I) ELSE 0) - 1 = Len(s)
    BY <1>4, <1>7, <1>8
  <2> QED BY <2>1, <2>2, <1>3
<1>10. From(x, c) = r
  BY <1>9, <1>3 DEF From
<1> QED BY <1>2, <1>3, <1>6, <1>9, <1>10 DEF SkipUntil

\* A text without the character is read to its end.
LEMMA ReadsAll ==
  ASSUME NEW s, NEW c, ~Has(s, c)
  PROVE  ReadUntil(s, c) = s
BY DEF ReadUntil

\* What begins with a character, and what is left when it is skipped.
LEMMA BeginsWith ==
  ASSUME NEW c \in Nat, NEW t \in Seq(Nat)
  PROVE  /\ <<c>> \o t \in Seq(Nat) /\ Skip(<<c>> \o t, 1) = t
         /\ \A d : IsNext(<<c>> \o t, d) <=> d = c
<1>1. <<c>> \in Seq(Nat) /\ Len(<<c>>) = 1 /\ <<c>>[1] = c
  OBVIOUS
<1>2. PICK u \in Seq(Nat) : u = <<c>> \o t
  <2>1. <<c>> \o t \in Seq(Nat)
    BY <1>1, PartsOfJoined
  <2> QED BY <2>1
<1>3. Len(u) = 1 + Len(t) /\ u[1] = c /\ SubSeq(u, 1 + 1, Len(u)) = t /\ Len(t) \in Nat
  BY <1>1, <1>2, PartsOfJoined
<1>4. u # <<>>
  BY <1>3
<1> QED BY <1>2, <1>3, <1>4 DEF Skip, IsNext

\* Texts without certain characters.
Without(stops) == {w \in Seq(Nat) : \A c \in stops : ~Has(w, c)}

\* A text that is joined of two has the characters of both.
LEMMA JoinedHas ==
  ASSUME NEW s \in Seq(Nat), NEW t \in Seq(Nat), NEW c, ~Has(s, c), ~Has(t, c)
  PROVE  s \o t \in Seq(Nat) /\ ~Has(s \o t, c)
<1>1. PICK u \in Seq(Nat) : u = s \o t
  <2>1. s \o t \in Seq(Nat)
    BY PartsOfJoined
  <2> QED BY <2>1
<1>2. /\ Len(u) = Len(s) + Len(t) /\ Len(s) \in Nat /\ Len(t) \in Nat
      /\ \A i \in 1 .. Len(s) + Len(t) : u[i] = IF i <= Len(s) THEN s[i] ELSE t[i - Len(s)]
  BY <1>1, ConcatProperties
<1>3. ASSUME NEW i \in 1 .. Len(u) PROVE u[i] # c
  <2>1. CASE i <= Len(s)
    <3>1. i \in 1 .. Len(s) /\ u[i] = s[i]
      BY <2>1, <1>2
    <3> QED BY <3>1 DEF Has
  <2>2. CASE ~(i <= Len(s))
    <3>1. i - Len(s) \in 1 .. Len(t) /\ u[i] = t[i - Len(s)]
      BY <2>2, <1>2
    <3> QED BY <3>1 DEF Has
  <2> QED BY <2>1, <2>2
<1> QED BY <1>1, <1>3 DEF Has

\* A word between a character and a blank is read as that word, and the rest.
LEMMA LedIsRead ==
  ASSUME NEW c \in Nat, c # SP, NEW word \in Seq(Nat), ~Has(word, SP), word # <<>>,
         NEW rest \in Seq(Nat)
  PROVE  LET x == Led(c, word, rest)
         IN /\ x \in Seq(Nat) /\ \A d : IsNext(x, d) <=> d = c
            /\ Skip(ReadUntil(x, SP), 1) = word /\ AfterWord(x) = rest
<1>1. PICK b \in Seq(Nat) : b = <<c>> /\ ~Has(b, SP)
  <2>1. <<c>> \in Seq(Nat) /\ ~Has(<<c>>, SP)
    BY DEF Has
  <2> QED BY <2>1
<1>2. PICK y \in Seq(Nat) : y = <<SP>> \o rest
  <2>1. SP \in Nat
    BY DEF SP
  <2> QED BY <2>1, BeginsWith
<1>3. PICK z \in Seq(Nat) : z = word \o y
  BY Joining
<1>4. PICK x \in Seq(Nat) : x = b \o z
  BY Joining
<1>5. x = Led(c, word, rest)
  BY <1>1, <1>2, <1>3, <1>4 DEF Led
<1>6. \A d : IsNext(x, d) <=> d = c
  BY <1>1, <1>4, BeginsWith
<1>7. PICK w \in Seq(Nat) : w = b \o word /\ ~Has(w, SP) /\ Skip(w, 1) = word
  BY <1>1, BeginsWith, JoinedHas
<1>8. x = w \o y
  <2>1. b \in Seq(Nat) /\ word \in Seq(Nat) /\ y \in Seq(Nat)
    BY <1>1, <1>2
  <2>2. (b \o word) \o y = b \o (word \o y)
    BY ONLY <2>1, Joining, SMTT(30)
  <2> QED BY <2>2, <1>3, <1>4, <1>7
<1>9. ReadUntil(x, SP) = w /\ SkipUntil(x, SP) = rest
  <2>1. SP \in Nat
    BY DEF SP
  <2> QED BY <2>1, <1>2, <1>7, <1>8, ReadsUpTo
<1> QED BY <1>5, <1>6, <1>7, <1>9 DEF AfterWord, SkipUntil

\* The senders that a line can name: a server, or a user.
ServerSender(h) == [onlyHost |-> TRUE, nick |-> <<>>, username |-> <<>>, host |-> h]
UserSender(n, u, h) == [onlyHost |-> FALSE, nick |-> n, username |-> u, host |-> h]
Senders ==
  {ServerSender(h) : h \in Without({SP, BANG})} \cup
  {UserSender(n, u, h) :
     n \in Without({SP, BANG}), u \in Without({SP, AT}), h \in Without({SP})}

\* The word of a sender is read as that sender, and has no blank.
LEMMA SourceIsRead ==
  ASSUME NEW source \in Senders
  PROVE  /\ SourceText(source) \in Without({SP})
         /\ ReadSource(SourceText(source)) = source
         /\ SourceText(source) = <<>> <=> source = ReadSource(<<>>)
<1>1. ReadSource(<<>>) =
        [onlyHost |-> TRUE, nick |-> <<>>, username |-> <<>>, host |-> <<>>]
  <2>1. ~Has(<<>>, BANG)
    BY DEF Has
  <2> QED BY <2>1 DEF ReadSource
<1>2. ASSUME NEW h \in Without({SP, BANG}),
             source = ServerSender(h)
      PROVE  /\ SourceText(source) \in Without({SP})
             /\ ReadSource(SourceText(source)) = source
             /\ SourceText(source) = <<>> <=> source = ReadSource(<<>>)
  <2>1. SourceText(source) = h
    BY <1>2 DEF SourceText, ServerSender
  <2>2. h \in Seq(Nat) /\ ~Has(h, SP) /\ ~Has(h, BANG)
    BY <1>2 DEF Without
  <2>3. ReadSource(h) = source
    BY <2>2, <1>2 DEF ReadSource, ServerSender
  <2>4. h \in Without({SP})
    BY <2>2 DEF Without
  <2>5. source.host = h /\ (h = <<>> => source = ReadSource(<<>>))
    BY <1>1, <1>2 DEF ServerSender
  <2> QED BY <2>1, <2>3, <2>4, <2>5, <1>1
<1>3. ASSUME NEW n \in Without({SP, BANG}), NEW u \in Without({SP, AT}),
             NEW h \in Without({SP}),
             source = UserSender(n, u, h)
      PROVE  /\ SourceText(source) \in Without({SP})
             /\ ReadSource(SourceText(source)) = source
             /\ SourceText(source) = <<>> <=> source = ReadSource(<<>>)
  <2>1. /\ n \in Seq(Nat) /\ u \in Seq(Nat) /\ h \in Seq(Nat)
        /\ ~Has(n, SP) /\ ~Has(n, BANG) /\ ~Has(u, SP) /\ ~Has(u, AT) /\ ~Has(h, SP)
    BY <1>3 DEF Without
  <2>2. /\ <<AT>> \in Seq(Nat) /\ <<BANG>> \in Seq(Nat)
        /\ ~Has(<<AT>>, SP) /\ ~Has(<<BANG>>, SP) /\ AT \in Nat /\ BANG \in Nat
    BY DEF Has, AT, BANG, SP
  <2>3. PICK v \in Seq(Nat) : v = u \o (<<AT>> \o h)
    BY <2>1, <2>2, PartsOfJoined
  <2>4. ReadUntil(v, AT) = u /\ SkipUntil(v, AT) = h
    BY <2>1, <2>2, <2>3, ReadsUpTo
  <2>5. PICK x \in Seq(Nat) : x = n \o (<<BANG>> \o v)
    BY <2>1, <2>2, PartsOfJoined
  <2>6. ReadUntil(x, BANG) = n /\ SkipUntil(x, BANG) = v /\ Has(x, BANG)
    BY <2>1, <2>2, <2>5, ReadsUpTo
  <2>7. SourceText(source) = x
    <3>1. SourceText(source) = n \o (<<BANG>> \o (u \o (<<AT>> \o h)))
      BY <1>3 DEF SourceText, UserSender
    <3> QED BY <3>1, <2>3, <2>5
  <2>8. ~Has(x, SP)
    <3>1. <<AT>> \o h \in Seq(Nat) /\ ~Has(<<AT>> \o h, SP)
      BY <2>1, <2>2, JoinedHas
    <3>2. ~Has(v, SP)
      BY <2>1, <2>3, <3>1, JoinedHas
    <3>3. <<BANG>> \o v \in Seq(Nat) /\ ~Has(<<BANG>> \o v, SP)
      BY <2>2, <3>2, JoinedHas
    <3> QED BY <2>1, <2>5, <3>3, JoinedHas
  <2>9. ReadSource(x) = source
    BY <2>4, <2>6, <1>3 DEF ReadSource, UserSender
  <2>10. x # <<>> /\ source # ReadSource(<<>>)
    <3>1. x # <<>>
      BY <2>6 DEF Has
    <3>2. source.onlyHost = FALSE /\ ReadSource(<<>>).onlyHost = TRUE
      BY <1>1, <1>3 DEF UserSender
    <3> QED BY <3>1, <3>2
  <2> QED BY <2>7, <2>8, <2>9, <2>10 DEF Without
<1>4. \/ \E h \in Without({SP, BANG}) : source = ServerSender(h)
      \/ \E n \in Without({SP, BANG}), u \in Without({SP, AT}), h \in Without({SP}) :
           source = UserSender(n, u, h)
  BY DEF Senders
<1> QED BY <1>2, <1>3, <1>4

\* irc_client.cc:109-160: whatever tag, sender, command and parameters a line is
\* made of, however long, these are what is read from it; and the program ends, as
\* stoi throws, exactly if the command is digits whose number no int holds.
THEOREM LinesAreRead ==
  ASSUME NEW tag \in Without({SP}), NEW source \in Senders, NEW nick \in Seq(Nat),
         NEW command \in Without({SP}), command # <<>>, command[1] \notin {AT, COLON},
         NEW parameters \in Seq(Nat)
  PROVE  ReadAsWritten(tag, source, command, parameters, nick)
<1>1. /\ tag \in Seq(Nat) /\ ~Has(tag, SP)
      /\ command \in Seq(Nat) /\ ~Has(command, SP)
      /\ {SP, AT, COLON} \subseteq Nat /\ AT # COLON /\ SP # AT /\ SP # COLON
  BY DEF Without, SP, AT, COLON
<1>2. PICK src \in Seq(Nat) :
        /\ src = SourceText(source) /\ ~Has(src, SP) /\ ReadSource(src) = source
        /\ src = <<>> <=> source = ReadSource(<<>>)
  BY SourceIsRead DEF Without
<1>3. PICK rest \in Seq(Nat) : rest = command \o (<<SP>> \o parameters)
  <2>1. <<SP>> \in Seq(Nat)
    BY <1>1
  <2>2. command \o (<<SP>> \o parameters) \in Seq(Nat)
    BY <2>1, <1>1, Joining
  <2> QED BY <2>2
<1>4. ReadUntil(rest, SP) = command /\ AfterWord(rest) = parameters
  BY <1>1, <1>3, ReadsUpTo DEF AfterWord, SkipUntil
<1>5. rest # <<>> /\ rest[1] = command[1]
  <2>1. Len(command) \in Nat \ {0} /\ <<SP>> \o parameters \in Seq(Nat)
    BY <1>1, EmptySeq, PartsOfJoined
  <2>2. 1 \in 1 .. Len(command)
    BY <2>1
  <2>3. rest[1] = command[1]
    BY <2>1, <2>2, <1>1, <1>3, PartsOfJoined
  <2>4. Len(rest) = Len(command) + Len(<<SP>> \o parameters)
        /\ Len(<<SP>> \o parameters) \in Nat
    BY <2>1, <1>1, <1>3, PartsOfJoined
  <2> QED BY <2>1, <2>3, <2>4
<1>6. PICK line \in Seq(Nat) :
        /\ line = Led(COLON, src, rest)
        /\ ~IsNext(line, AT)
        /\ IsNext(line, COLON) <=> src # <<>>
        /\ src # <<>> => Skip(ReadUntil(line, SP), 1) = src /\ AfterWord(line) = rest
        /\ src = <<>> => line = rest
  <2>1. CASE src = <<>>
    BY <2>1, <1>5 DEF Led, IsNext
  <2>2. CASE src # <<>>
    <3>1. /\ Led(COLON, src, rest) \in Seq(Nat)
          /\ \A d : IsNext(Led(COLON, src, rest), d) <=> d = COLON
          /\ Skip(ReadUntil(Led(COLON, src, rest), SP), 1) = src
          /\ AfterWord(Led(COLON, src, rest)) = rest
      BY <1>1, <1>2, <2>2, LedIsRead
    <3> QED BY <3>1, <2>2, <1>1
  <2> QED BY <2>1, <2>2
<1>7. PICK raw \in Seq(Nat) :
        /\ raw = Led(AT, tag, line)
        /\ IsNext(raw, AT) <=> tag # <<>>
        /\ tag # <<>> => Skip(ReadUntil(raw, SP), 1) = tag /\ AfterWord(raw) = line
        /\ tag = <<>> => raw = line
  <2>1. CASE tag = <<>>
    BY <2>1, <1>6 DEF Led
  <2>2. CASE tag # <<>>
    <3>1. /\ Led(AT, tag, line) \in Seq(Nat)
          /\ \A d : IsNext(Led(AT, tag, line), d) <=> d = AT
          /\ Skip(ReadUntil(Led(AT, tag, line), SP), 1) = tag
          /\ AfterWord(Led(AT, tag, line)) = line
      BY <1>1, <2>2, LedIsRead
    <3> QED BY <3>1, <2>2
  <2> QED BY <2>1, <2>2
<1>8. LineOf(tag, source, command, parameters) = raw
  BY <1>2, <1>3, <1>6, <1>7 DEF LineOf
<1> DEFINE m == HandleMessage(raw, nick)
<1>9. /\ m.tag = tag /\ m.source = source
      /\ m.command = command /\ m.parameters = parameters
      /\ m.isNumericCommand = IsNumeric(command)
      /\ m.forUser = (src # <<>> /\ IsPrefix(nick, src))
      /\ m.throws = (IsNumeric(command) /\ Stoi(command) = {})
  <2>1. CASE src = <<>>
    <3>1. CASE tag = <<>>
      BY <2>1, <3>1, <1>2, <1>4, <1>6, <1>7 DEF HandleMessage
    <3>2. CASE tag # <<>>
      BY <2>1, <3>2, <1>2, <1>4, <1>6, <1>7 DEF HandleMessage
    <3> QED BY <3>1, <3>2
  <2>2. CASE src # <<>>
    <3>1. CASE tag = <<>>
      BY <2>2, <3>1, <1>2, <1>4, <1>6, <1>7 DEF HandleMessage
    <3>2. CASE tag # <<>>
      BY <2>2, <3>2, <1>2, <1>4, <1>6, <1>7 DEF HandleMessage
    <3> QED BY <3>1, <3>2
  <2> QED BY <2>1, <2>2
<1> HIDE DEF m
<1>10. ReadAsWritten(tag, source, command, parameters, nick) <=>
         /\ m.tag = tag /\ m.source = source
         /\ m.command = command /\ m.parameters = parameters
         /\ m.isNumericCommand <=> IsNumeric(command)
         /\ m.forUser <=> source # ReadSource(<<>>) /\ IsPrefix(nick, src)
         /\ m.throws <=> IsNumeric(command) /\ Stoi(command) = {}
  BY <1>2, <1>8 DEF ReadAsWritten, m
<1> QED BY <1>2, <1>9, <1>10

\* irc_messages.hpp:141-153,189-215: a message the client sends is read as that
\* message, whatever is said, as long as the user typed no CTCP mark of his own.
THEOREM MessagesAreRead ==
  ASSUME NEW channel \in Without({SP}), channel # <<>>, NEW action \in BOOLEAN,
         NEW content \in Seq(Nat),
         IF action THEN ~Has(content, CTCP) ELSE ~IsNext(content, CTCP)
  PROVE  ReadAsMeant([channel |-> channel, action |-> action, content |-> content,
                      type |-> 0])
<1> DEFINE msg == [channel |-> channel, action |-> action, content |-> content, type |-> 0]
<1>1. /\ channel \in Seq(Nat) /\ ~Has(channel, SP) /\ ~IsNext(channel, SP)
      /\ {SP, COLON, CTCP} \subseteq Nat
  <2>1. channel \in Seq(Nat) /\ ~Has(channel, SP)
    BY DEF Without
  <2>2. 1 \in DOMAIN channel
    <3>1. Len(channel) \in Nat \ {0}
      BY <2>1, EmptySeq
    <3> QED BY <2>1, <3>1
  <2> QED BY <2>1, <2>2 DEF Has, IsNext, SP, COLON, CTCP
<1>2. PICK mark \in Seq(Nat) : mark = <<CTCP>>
  <2>1. <<CTCP>> \in Seq(Nat)
    BY <1>1
  <2> QED BY <2>1
<1>3. PICK word \in Seq(Nat) :
        /\ word = ActionWord \o content /\ ActionWord \in Seq(Nat)
        /\ IsPrefix(ActionWord, word) /\ Skip(word, Len(ActionWord)) = content
        /\ action => ~Has(word, CTCP)
  <2>1. ActionWord \in Seq(Nat) /\ ~Has(ActionWord, CTCP)
    <3>1. ActionWord \in Seq(Nat) /\ DOMAIN ActionWord = 1 .. 7
      BY DEF ActionWord, SP
    <3>2. ASSUME NEW i \in 1 .. 7 PROVE ActionWord[i] # CTCP
      BY DEF ActionWord, SP, CTCP
    <3> QED BY <3>1, <3>2 DEF Has
  <2>2. PICK w \in Seq(Nat) : w = ActionWord \o content
    BY <2>1, Joining
  <2>3. /\ Len(w) = Len(ActionWord) + Len(content)
        /\ SubSeq(w, 1, Len(ActionWord)) = ActionWord
        /\ SubSeq(w, Len(ActionWord) + 1, Len(w)) = content
    BY <2>1, <2>2, PartsOfJoined
  <2>4. Len(ActionWord) <= Len(w)
    <3>1. Len(ActionWord) \in Nat /\ Len(content) \in Nat
      BY <2>1
    <3> QED BY <3>1, <2>3
  <2>5. SubSeq(ActionWord, 1, Len(ActionWord)) = ActionWord
    BY <2>1, SubSeqFull
  <2>6. action => ~Has(w, CTCP)
    BY <2>1, <2>2, JoinedHas
  <2> QED BY <2>1, <2>2, <2>3, <2>4, <2>5, <2>6 DEF IsPrefix, Skip
<1>4. PICK shown \in Seq(Nat) :
        shown = word \o mark /\ (action => ReadUntil(shown, CTCP) = word)
  <2>1. word \o mark \in Seq(Nat)
    BY Joining
  <2>2. ASSUME action PROVE ReadUntil(word \o mark, CTCP) = word
    <3>1. <<CTCP>> \o <<>> = mark
      BY <1>2, ConcatEmptySeq
    <3>2. <<>> \in Seq(Nat) /\ CTCP \in Nat
      BY <1>1, EmptySeq
    <3>3. ReadUntil(word \o (<<CTCP>> \o <<>>), CTCP) = word
      BY <2>2, <3>2, <1>3, ReadsUpTo
    <3> QED BY <3>1, <3>3
  <2> QED BY <2>1, <2>2
<1>5. PICK said \in Seq(Nat) :
        /\ MsgBuild(msg) = <<channel, <<COLON>> \o said>>
        /\ IsNext(said, CTCP) <=> action
        /\ action => Skip(said, 1) = shown
        /\ ~action => said = content
  <2>1. CASE action
    <3>1. PICK x \in Seq(Nat) : /\ x = <<CTCP>> \o shown /\ Skip(x, 1) = shown
                               /\ IsNext(x, CTCP)
      <4>1. /\ <<CTCP>> \o shown \in Seq(Nat) /\ Skip(<<CTCP>> \o shown, 1) = shown
            /\ \A d : IsNext(<<CTCP>> \o shown, d) <=> d = CTCP
        BY <1>1, BeginsWith
      <4> QED BY <4>1
    <3>2. shown = ActionWord \o (content \o <<CTCP>>)
      <4>1. (ActionWord \o content) \o mark = ActionWord \o (content \o mark)
        BY <1>3, Joining
      <4> QED BY <4>1, <1>2, <1>3, <1>4
    <3>3. msg.action /\ msg.content = content /\ msg.channel = channel
      BY <2>1
    <3> HIDE DEF msg
    <3>4. MsgBuild(msg) = <<channel, <<COLON>> \o x>>
      BY <3>1, <3>2, <3>3 DEF MsgBuild
    <3> QED BY <2>1, <3>1, <3>4
  <2>2. CASE ~action
    BY <2>2 DEF MsgBuild
  <2> QED BY <2>1, <2>2
<1>6. PICK text \in Seq(Nat) : text = <<COLON>> \o said
  BY <1>1, BeginsWith
<1>7. PICK p \in Seq(Nat) :
        /\ p = channel \o (<<SP>> \o text) /\ ~IsNext(p, SP)
        /\ ReadUntil(p, SP) = channel /\ From(p, SP) = <<SP>> \o text
  <2>1. PICK x \in Seq(Nat) : x = channel \o (<<SP>> \o text)
    BY <1>1, ReadsUpTo
  <2>2. ReadUntil(x, SP) = channel /\ From(x, SP) = <<SP>> \o text
    BY <2>1, <1>1, ReadsUpTo
  <2>3. x[1] = channel[1]
    <3>1. <<SP>> \o text \in Seq(Nat)
      BY <1>1, BeginsWith
    <3>2. 1 \in 1 .. Len(channel)
      BY <1>1, EmptySeq
    <3> QED BY <3>1, <3>2, <1>1, <2>1, PartsOfJoined
  <2>4. ~IsNext(x, SP)
    BY <2>3, <1>1 DEF IsNext
  <2> QED BY <2>1, <2>2, <2>4
<1>8. SkipUntil(From(p, SP), COLON) = said
  <2>1. PICK b \in Seq(Nat) : b = <<SP>> /\ ~Has(b, COLON)
    <3>1. <<SP>> \in Seq(Nat) /\ ~Has(<<SP>>, COLON)
      BY <1>1 DEF Has, SP, COLON
    <3> QED BY <3>1
  <2>2. SkipUntil(b \o (<<COLON>> \o said), COLON) = said
    BY <2>1, <1>1, ReadsUpTo
  <2> QED BY <2>1, <2>2, <1>6, <1>7
<1> HIDE DEF msg
<1>9. Sent(msg) = p
  <2>1. Sent(msg) = channel \o (<<SP>> \o (<<COLON>> \o said))
    BY <1>5 DEF Sent
  <2> QED BY <2>1, <1>6, <1>7
<1>10. Parameters(p) = p
  BY <1>7 DEF Parameters
<1>11. MsgFromParts(p, <<>>) =
         [channel |-> channel, action |-> action, type |-> 0, content |-> content]
  <2> DEFINE raw == IF IsNext(said, CTCP) THEN ReadUntil(Skip(said, 1), CTCP) ELSE said
             told == IF IsNext(said, CTCP) /\ IsPrefix(ActionWord, raw)
                     THEN Skip(raw, Len(ActionWord)) ELSE raw
  <2>1. told = content
    <3>1. CASE action
      BY <3>1, <1>3, <1>4, <1>5
    <3>2. CASE ~action
      BY <3>2, <1>5
    <3> QED BY <3>1, <3>2
  <2>2. MsgFromParts(p, <<>>) =
          [channel |-> channel, action |-> IsNext(said, CTCP), type |-> 0, content |-> told]
    BY <1>7, <1>8, <1>10 DEF MsgFromParts
  <2>3. IsNext(said, CTCP) = action
    BY <1>5 DEF IsNext
  <2> HIDE DEF raw, told
  <2> QED BY <2>1, <2>2, <2>3
<1>12. msg = [channel |-> channel, action |-> action, type |-> 0, content |-> content]
  BY DEF msg
<1>13. ReadAsMeant(msg)
  BY <1>9, <1>11, <1>12 DEF ReadAsMeant
<1> QED BY <1>13 DEF msg
-----------------------------------------------------------------------------
(* The glyphs that a line is shown in                                       *)

Glyphs == INSTANCE FontAtlas

\* A font as FreeType reads it: a glyph that has rows has columns.
GlyphSizes ==
  {g \in [width : Nat, rows : Nat, advance : Nat] : g.rows > 0 => g.width > 0}
Font == [type : Glyphs!FontTypes, hasColor : BOOLEAN,
         glyphs : UNION {[cps -> GlyphSizes] : cps \in SUBSET Nat}]

\* The greater of two numbers.
LEMMA GreaterOfTwo ==
  ASSUME NEW m \in Nat, NEW n \in Nat
  PROVE  Glyphs!Max({m, n}) = IF m >= n THEN m ELSE n
<1>1. \A x \in {m, n} : (\A y \in {m, n} : x >= y) => x = IF m >= n THEN m ELSE n
  OBVIOUS
<1>2. \E x \in {m, n} : \A y \in {m, n} : x >= y
  OBVIOUS
<1> QED BY <1>1, <1>2 DEF Glyphs!Max

\* An entry that is told the new width of the texture is otherwise what it was.
LEMMA EntryMoved ==
  ASSUME NEW e \in Glyphs!Entries, NEW w \in Nat
  PROVE  LET f == [e EXCEPT !.of = w]
         IN /\ f \in Glyphs!Entries /\ f.of = w
            /\ f.c = e.c /\ f.type = e.type /\ f.xPos = e.xPos /\ f.hasColor = e.hasColor
            /\ f.width = e.width /\ f.rows = e.rows /\ f.advance = e.advance
BY DEF Glyphs!Entries

\* A glyph that is loaded is put where the others end, and keeps them apart.
LEMMA LoadedApart ==
  ASSUME NEW at, Glyphs!AtlasRight(at), NEW font \in Font,
         NEW cp \in DOMAIN font.glyphs, NEW type \in Glyphs!FontTypes,
         ~Glyphs!IsLoaded(at, cp, type)
  PROVE  LET after == Glyphs!LazyLoadCharacter(at, font, cp, type)
         IN /\ Glyphs!AtlasRight(after) /\ Glyphs!IsLoaded(after, cp, type)
            /\ \A e \in at.characters :
                 [e EXCEPT !.of = after.atlas_width] \in after.characters
<1>1. PICK glyph \in GlyphSizes :
        glyph = font.glyphs[cp] /\ cp \in Nat /\ font.hasColor \in BOOLEAN
  BY DEF Font
<1>2. /\ glyph.width \in Nat /\ glyph.rows \in Nat /\ glyph.advance \in Nat
      /\ glyph.rows > 0 => glyph.width > 0
  BY DEF GlyphSizes
<1>3. PICK x \in Nat, w \in Nat, h \in Nat, line \in Nat :
        /\ x = at.xOffset /\ w = at.atlas_width + glyph.width
        /\ h = at.atlas_height /\ line = at.effective_atlas_height
        /\ x + glyph.width <= w /\ at.atlas_width \in Nat /\ line >= Glyphs!LINE_GAP
  BY <1>2 DEF Glyphs!AtlasRight
<1>4. PICK n \in Glyphs!Entries :
        /\ n = Glyphs!CharacterEntry(at, font, cp, type, w)
        /\ n.c = cp /\ n.type = type /\ n.xPos = x /\ n.of = w /\ n.hasColor = font.hasColor
        /\ n.width = glyph.width /\ n.rows = glyph.rows
  <2> DEFINE new == [c |-> cp, type |-> type, xPos |-> x, of |-> w,
                      hasColor |-> font.hasColor, width |-> glyph.width,
                      rows |-> glyph.rows, advance |-> glyph.advance]
  <2>1. new \in Glyphs!Entries
    BY <1>1, <1>2, <1>3 DEF Glyphs!Entries
  <2>2. new = Glyphs!CharacterEntry(at, font, cp, type, w)
    BY <1>1, <1>3 DEF Glyphs!CharacterEntry
  <2> QED BY <2>1, <2>2
<1> DEFINE Moved(e) == [e EXCEPT !.of = w]
<1>5. PICK chars : chars = {Moved(e) : e \in at.characters} \cup {n}
  OBVIOUS
<1>6. PICK tall \in Nat, gap \in Nat :
        /\ tall = IF h >= n.rows THEN h ELSE n.rows
        /\ gap = IF ~n.hasColor /\ n.rows > h THEN n.rows + Glyphs!LINE_GAP ELSE line
        /\ gap >= Glyphs!LINE_GAP
  BY <1>2, <1>3, <1>4 DEF Glyphs!LINE_GAP
<1>7. PICK after : after = Glyphs!LazyLoadCharacter(at, font, cp, type)
  OBVIOUS
<1>8. /\ after.characters = chars /\ after.texture = Glyphs!Written(chars)
      /\ after.xOffset = x + n.width /\ after.atlas_width = w
      /\ after.atlas_height = tall /\ after.effective_atlas_height = gap
  <2>1. Glyphs!Max({at.atlas_height, glyph.rows}) = tall
    BY <1>2, <1>3, <1>4, <1>6, GreaterOfTwo
  <2>2. after =
          [characters |-> chars, texture |-> Glyphs!Written(chars),
           xOffset |-> x + n.width, atlas_width |-> w,
           atlas_height |-> tall, effective_atlas_height |-> gap]
    BY <2>1, <1>1, <1>3, <1>4, <1>5, <1>6, <1>7 DEF Glyphs!LazyLoadCharacter
  <2> QED BY <2>2
<1>9. ASSUME NEW e \in at.characters
      PROVE  /\ e \in Glyphs!Entries /\ Moved(e) \in Glyphs!Entries /\ Moved(e).of = w
             /\ Moved(e).c = e.c /\ Moved(e).type = e.type /\ Moved(e).xPos = e.xPos
             /\ Moved(e).hasColor = e.hasColor
             /\ Moved(e).width = e.width /\ Moved(e).rows = e.rows
             /\ {e.xPos, e.width, e.rows} \subseteq Nat /\ e.hasColor \in BOOLEAN
             /\ e.rows > 0 => e.width > 0
             /\ e.xPos + e.width <= x /\ e.rows <= h
             /\ <<e.c, e.type>> # <<cp, type>>
             /\ \A f \in at.characters \ {e} :
                  <<f.c, f.type>> # <<e.c, e.type>>
                    /\ (e.xPos + e.width <= f.xPos \/ f.xPos + f.width <= e.xPos)
  <2>1. e \in Glyphs!Entries /\ (e.rows > 0 => e.width > 0)
    BY DEF Glyphs!AtlasRight
  <2>2. /\ Moved(e) \in Glyphs!Entries /\ Moved(e).of = w
        /\ Moved(e).c = e.c /\ Moved(e).type = e.type /\ Moved(e).xPos = e.xPos
        /\ Moved(e).hasColor = e.hasColor
        /\ Moved(e).width = e.width /\ Moved(e).rows = e.rows
    BY <2>1, EntryMoved
  <2>3. {e.xPos, e.width, e.rows} \subseteq Nat /\ e.hasColor \in BOOLEAN
    BY <2>1 DEF Glyphs!Entries
  <2>4. e.xPos + e.width <= x /\ e.rows <= h
    BY <1>3 DEF Glyphs!AtlasRight, Glyphs!NoneOverlap, Glyphs!LinesHigh
  <2>5. <<e.c, e.type>> # <<cp, type>>
    BY DEF Glyphs!IsLoaded
  <2>6. \A f \in at.characters \ {e} :
          <<f.c, f.type>> # <<e.c, e.type>>
            /\ (e.xPos + e.width <= f.xPos \/ f.xPos + f.width <= e.xPos)
    BY DEF Glyphs!AtlasRight, Glyphs!NoneOverlap
  <2> QED BY <2>1, <2>2, <2>3, <2>4, <2>5, <2>6
<1> HIDE DEF Moved
<1>10. Glyphs!NoneOverlap(after)
  <2> SUFFICES ASSUME NEW e \in chars
               PROVE  /\ e.xPos + e.width <= x + n.width /\ e.of = w
                      /\ \A f \in chars \ {e} :
                           <<f.c, f.type>> # <<e.c, e.type>>
                             /\ (e.xPos + e.width <= f.xPos \/ f.xPos + f.width <= e.xPos)
    BY <1>8 DEF Glyphs!NoneOverlap
  <2>1. CASE e = n
    <3>1. ASSUME NEW f \in chars \ {e}
          PROVE  <<f.c, f.type>> # <<n.c, n.type>> /\ f.xPos + f.width <= n.xPos
      <4>1. PICK g \in at.characters : f = Moved(g)
        BY <2>1, <1>5
      <4> QED BY <4>1, <1>4, <1>9
    <3> QED BY <2>1, <3>1, <1>2, <1>3, <1>4
  <2>2. CASE e # n
    <3>1. PICK g \in at.characters : e = Moved(g)
      BY <2>2, <1>5
    <3>2. g.xPos + g.width <= x + n.width
      BY <1>2, <1>3, <1>4, <1>9
    <3>3. ASSUME NEW f \in chars \ {e}
          PROVE  <<f.c, f.type>> # <<e.c, e.type>>
                   /\ (e.xPos + e.width <= f.xPos \/ f.xPos + f.width <= e.xPos)
      <4>1. CASE f = n
        BY <4>1, <3>1, <1>4, <1>9
      <4>2. CASE f # n
        <5>1. PICK k \in at.characters : f = Moved(k)
          BY <4>2, <1>5
        <5>2. k \in at.characters \ {g}
          BY <5>1, <3>1, <3>3
        <5> QED BY <5>1, <5>2, <3>1, <1>9
      <4> QED BY <4>1, <4>2
    <3> QED BY <3>1, <3>2, <3>3, <1>9
  <2> QED BY <2>1, <2>2
<1>11. Glyphs!LinesHigh(after)
  <2> SUFFICES ASSUME NEW e \in chars
               PROVE  /\ e.rows <= tall
                      /\ ~e.hasColor /\ e.rows + Glyphs!LINE_GAP > gap =>
                           \E f \in chars :
                             f.hasColor /\ f.xPos < e.xPos /\ f.rows >= e.rows
    BY <1>8 DEF Glyphs!LinesHigh
  <2>1. CASE e = n
    <3>1. n.rows <= tall
      BY <1>2, <1>3, <1>4, <1>6
    <3>2. ASSUME ~n.hasColor, n.rows + Glyphs!LINE_GAP > gap
          PROVE  \E f \in chars : f.hasColor /\ f.xPos < n.xPos /\ f.rows >= n.rows
      <4>1. n.rows <= h /\ gap = line /\ h + Glyphs!LINE_GAP > line /\ h > 0
        BY <3>2, <1>2, <1>3, <1>4, <1>6 DEF Glyphs!LINE_GAP
      <4>2. PICK f \in at.characters : f.hasColor /\ f.rows = h
        BY <4>1, <1>3 DEF Glyphs!AtlasRight
      <4>3. f.xPos < x
        BY <4>1, <4>2, <1>3, <1>9
      <4>4. Moved(f) \in chars
        BY <1>5
      <4> QED BY <4>1, <4>2, <4>3, <4>4, <1>4, <1>9
    <3> QED BY <2>1, <3>1, <3>2
  <2>2. CASE e # n
    <3>1. PICK g \in at.characters : e = Moved(g)
      BY <2>2, <1>5
    <3>2. e.rows <= tall
      BY <3>1, <1>2, <1>3, <1>4, <1>6, <1>9
    <3>3. ASSUME ~e.hasColor, e.rows + Glyphs!LINE_GAP > gap
          PROVE  \E f \in chars : f.hasColor /\ f.xPos < e.xPos /\ f.rows >= e.rows
      <4>1. gap = line /\ ~g.hasColor /\ g.rows + Glyphs!LINE_GAP > line
        BY <3>1, <3>3, <1>2, <1>3, <1>4, <1>6, <1>9 DEF Glyphs!LINE_GAP
      <4>2. PICK f \in at.characters : f.hasColor /\ f.xPos < g.xPos /\ f.rows >= g.rows
        BY <4>1, <1>3 DEF Glyphs!AtlasRight, Glyphs!LinesHigh
      <4>3. Moved(f) \in chars
        BY <1>5
      <4> QED BY <4>2, <4>3, <3>1, <1>9
    <3> QED BY <3>2, <3>3
  <2> QED BY <2>1, <2>2
<1>12. chars \subseteq {e \in Glyphs!Entries : e.rows > 0 => e.width > 0}
  <2>1. n.rows > 0 => n.width > 0
    BY <1>2, <1>4
  <2> QED BY <2>1, <1>4, <1>5, <1>9
<1>13. tall + Glyphs!LINE_GAP > gap => \E e \in chars : e.hasColor /\ e.rows = tall
  <2> SUFFICES ASSUME tall + Glyphs!LINE_GAP > gap
               PROVE  \E e \in chars : e.hasColor /\ e.rows = tall
    OBVIOUS
  <2>1. CASE n.rows > h
    <3>1. n.hasColor /\ n.rows = tall
      BY <2>1, <1>2, <1>3, <1>4, <1>6 DEF Glyphs!LINE_GAP
    <3> QED BY <3>1, <1>5
  <2>2. CASE ~(n.rows > h)
    <3>1. tall = h /\ h + Glyphs!LINE_GAP > line
      BY <2>2, <1>2, <1>3, <1>4, <1>6 DEF Glyphs!LINE_GAP
    <3>2. PICK f \in at.characters : f.hasColor /\ f.rows = h
      BY <3>1, <1>3 DEF Glyphs!AtlasRight
    <3>3. Moved(f) \in chars
      BY <1>5
    <3> QED BY <3>1, <3>2, <3>3, <1>9
  <2> QED BY <2>1, <2>2
<1>14. Glyphs!AtlasRight(after)
  <2>1. {x + n.width, w, tall, gap} \subseteq Nat /\ x + n.width <= w
    BY <1>2, <1>3, <1>4, <1>6
  <2> QED BY <2>1, <1>6, <1>8, <1>10, <1>11, <1>12, <1>13 DEF Glyphs!AtlasRight
<1>15. Glyphs!IsLoaded(after, cp, type)
  BY <1>4, <1>5, <1>8 DEF Glyphs!IsLoaded
<1>16. \A e \in at.characters : [e EXCEPT !.of = after.atlas_width] \in after.characters
  BY <1>5, <1>8 DEF Moved
<1> QED BY <1>7, <1>14, <1>15, <1>16

\* The least place.
LEMMA FirstPlace ==
  ASSUME NEW S, S \subseteq Nat, S # {}
  PROVE  Glyphs!Min(S) \in S
<1>1. PICK m \in S : \A y \in S : m <= y
  BY LeastElement
<1> QED BY <1>1 DEF Glyphs!Min

\* Each order has each style.
LEMMA OrderOfStyles ==
  ASSUME NEW type \in Glyphs!FontTypes
  PROVE  LET order == Glyphs!Order(type)
         IN /\ Len(order) = 5 /\ \A i \in 1 .. 5 : order[i] \in Glyphs!FontTypes
            /\ \A s \in Glyphs!FontTypes : \E i \in 1 .. 5 : order[i] = s
<1>1. /\ Glyphs!Order("normal") = <<"normal", "bold", "italic", "bold_italic", "emoji">>
      /\ Glyphs!Order("emoji") = <<"normal", "bold", "italic", "bold_italic", "emoji">>
      /\ Glyphs!Order("bold") = <<"bold", "normal", "italic", "bold_italic", "emoji">>
      /\ Glyphs!Order("bold_italic") = <<"bold_italic", "italic", "bold", "normal", "emoji">>
      /\ Glyphs!Order("italic") = <<"italic", "normal", "bold", "bold_italic", "emoji">>
  BY DEF Glyphs!Order, Glyphs!Neighbours
<1>2. CASE type \in {"normal", "emoji"}
  BY <1>1, <1>2 DEF Glyphs!FontTypes
<1>3. CASE type = "bold"
  BY <1>1, <1>3 DEF Glyphs!FontTypes
<1>4. CASE type = "bold_italic"
  BY <1>1, <1>4 DEF Glyphs!FontTypes
<1>5. CASE type = "italic"
  BY <1>1, <1>5 DEF Glyphs!FontTypes
<1> QED BY <1>2, <1>3, <1>4, <1>5 DEF Glyphs!FontTypes

\* What a lookup that found this leaves: the glyphs apart and in place, and one for
\* the character, unless no font has it.
GlyphFound(at, fonts, cp, found) ==
  /\ Glyphs!AtlasRight(found.atlas)
  /\ \A e \in at.characters :
       [e EXCEPT !.of = found.atlas.atlas_width] \in found.atlas.characters
  /\ IF found.type = Glyphs!NoGlyph
     THEN \A i \in 1 .. Len(fonts) : ~Glyphs!HasGlyph(fonts[i], cp)
     ELSE Glyphs!IsLoaded(found.atlas, cp, found.type)

\* No style has the name that says there is none.
LEMMA NoGlyphNoStyle == Glyphs!NoGlyph \notin Glyphs!FontTypes
<1>1. "no glyph" \notin Glyphs!FontTypes
  BY Zenon DEF Glyphs!FontTypes
<1> QED BY <1>1 DEF Glyphs!NoGlyph

\* One that loads a glyph.
LEMMA FindsLoaded ==
  ASSUME NEW at, Glyphs!AtlasRight(at), NEW fonts \in Seq(Font), NEW cp,
         NEW f \in 1 .. Len(fonts), Glyphs!HasGlyph(fonts[f], cp),
         NEW s \in Glyphs!FontTypes, ~Glyphs!IsLoaded(at, cp, s)
  PROVE  GlyphFound(at, fonts, cp,
                   [atlas |-> Glyphs!LazyLoadCharacter(at, fonts[f], cp, s), type |-> s])
<1>1. PICK found :
        found = [atlas |-> Glyphs!LazyLoadCharacter(at, fonts[f], cp, s), type |-> s]
  OBVIOUS
<1>2. PICK font \in Font : font = fonts[f] /\ cp \in DOMAIN font.glyphs
  BY DEF Glyphs!HasGlyph
<1>3. s # Glyphs!NoGlyph
  BY NoGlyphNoStyle
<1>4. /\ Glyphs!AtlasRight(found.atlas) /\ Glyphs!IsLoaded(found.atlas, cp, s)
      /\ \A e \in at.characters :
           [e EXCEPT !.of = found.atlas.atlas_width] \in found.atlas.characters
  <2>1. found.atlas = Glyphs!LazyLoadCharacter(at, font, cp, s)
    BY <1>1, <1>2
  <2> QED BY <2>1, <1>2, <1>3, LoadedApart
<1>5. found.type = s
  BY <1>1
<1> QED BY <1>1, <1>3, <1>4, <1>5 DEF GlyphFound

\* One that leaves the atlas as it is.
LEMMA FindsThere ==
  ASSUME NEW at, Glyphs!AtlasRight(at), NEW fonts, NEW cp, NEW type,
         IF type = Glyphs!NoGlyph
         THEN \A i \in 1 .. Len(fonts) :
                ~Glyphs!HasGlyph(fonts[i], cp)
         ELSE Glyphs!IsLoaded(at, cp, type)
  PROVE  GlyphFound(at, fonts, cp, [atlas |-> at, type |-> type])
<1>1. ASSUME NEW e \in at.characters PROVE [e EXCEPT !.of = at.atlas_width] = e
  <2>1. e \in Glyphs!Entries /\ e.of = at.atlas_width
    BY DEF Glyphs!AtlasRight, Glyphs!NoneOverlap
  <2> QED BY <2>1 DEF Glyphs!Entries
<1> QED BY <1>1 DEF GlyphFound

\* font_atlas.cc:48-110,137-387: whatever fonts there are and whatever was loaded,
\* looking up a character keeps the glyphs apart and in place, finds one that is
\* loaded, and finds none only if no font has the character.
THEOREM GlyphsStayApart ==
  ASSUME NEW at, Glyphs!AtlasRight(at), NEW fonts \in Seq(Font), NEW cp,
         NEW type \in Glyphs!FontTypes
  PROVE  GlyphFound(at, fonts, cp, Glyphs!Lookup(at, fonts, cp, type))
<1> DEFINE own == Glyphs!GetFontsByType(fonts, type)
           N == {i \in 1 .. 5 : /\ ~Glyphs!IsLoaded(at, cp, Glyphs!Order(type)[i])
                                /\ Glyphs!FontFor(fonts, cp, Glyphs!Order(type)[i]) # {}}
           B == {i \in 1 .. 5 : Glyphs!IsLoaded(at, cp, Glyphs!Order(type)[i])}
<1> SUFFICES ASSUME NEW found, found = Glyphs!Lookup(at, fonts, cp, type)
             PROVE  GlyphFound(at, fonts, cp, found)
  OBVIOUS
<1>1. PICK order : /\ order = Glyphs!Order(type) /\ Len(order) = 5
                   /\ \A i \in 1 .. 5 : order[i] \in Glyphs!FontTypes
                   /\ \A s \in Glyphs!FontTypes : \E i \in 1 .. 5 : order[i] = s
  BY OrderOfStyles
<1>2. Glyphs!NoGlyph \notin Glyphs!FontTypes
  BY NoGlyphNoStyle
<1>5. CASE Glyphs!IsLoaded(at, cp, type)
  <2>1. found = [atlas |-> at, type |-> type]
    BY <1>5 DEF Glyphs!Lookup
  <2>2. type # Glyphs!NoGlyph
    BY <1>2
  <2> QED BY <2>1, <2>2, <1>5, FindsThere
<1>6. CASE /\ ~Glyphs!IsLoaded(at, cp, type)
           /\ own # {} /\ Glyphs!HasGlyph(fonts[Glyphs!Min(own)], cp)
  <2>1. own \subseteq 1 .. Len(fonts)
    BY DEF Glyphs!GetFontsByType
  <2>2. Glyphs!Min(own) \in 1 .. Len(fonts)
    BY <2>1, <1>6, FirstPlace
  <2>3. found = [atlas |-> Glyphs!LazyLoadCharacter(at, fonts[Glyphs!Min(own)], cp, type),
                 type |-> type]
    BY <1>6 DEF Glyphs!Lookup
  <2>4. PICK f \in 1 .. Len(fonts) : f = Glyphs!Min(own) /\ Glyphs!HasGlyph(fonts[f], cp)
    BY <2>2, <1>6
  <2> HIDE DEF own
  <2> QED BY <2>3, <2>4, <1>6, FindsLoaded
<1>7. CASE ~Glyphs!IsLoaded(at, cp, type)
           /\ ~(own # {} /\ Glyphs!HasGlyph(fonts[Glyphs!Min(own)], cp))
  <2> DEFINE next == IF N # {} THEN Glyphs!Min(N) ELSE 0
             backup == IF B # {} THEN Glyphs!Min(B) ELSE 0
  <2> DEFINE F(s) == Glyphs!Min(Glyphs!FontFor(fonts, cp, s))
  <2>1. found =
          IF next # 0
          THEN [atlas |-> Glyphs!LazyLoadCharacter(at, fonts[F(order[next])], cp, order[next]),
                type |-> order[next]]
          ELSE [atlas |-> at, type |-> IF backup # 0 THEN order[backup] ELSE Glyphs!NoGlyph]
    BY <1>1, <1>7 DEF Glyphs!Lookup, Glyphs!SelectInSeq
  <2>2. CASE N # {}
    <3>1. next \in N /\ next # 0
      <4>1. N \subseteq Nat /\ 0 \notin N
        OBVIOUS
      <4> HIDE DEF N
      <4> QED BY <4>1, <2>2, FirstPlace
    <3>2. PICK s \in Glyphs!FontTypes : /\ s = order[next] /\ ~Glyphs!IsLoaded(at, cp, s)
                              /\ Glyphs!FontFor(fonts, cp, s) # {}
      BY <3>1, <1>1
    <3>3. /\ Glyphs!FontFor(fonts, cp, s) \subseteq 1 .. Len(fonts)
          /\ \A i \in Glyphs!FontFor(fonts, cp, s) : Glyphs!HasGlyph(fonts[i], cp)
      BY DEF Glyphs!FontFor, Glyphs!GetFontsByType
    <3>4. F(s) \in Glyphs!FontFor(fonts, cp, s)
      <4>1. Glyphs!FontFor(fonts, cp, s) \subseteq Nat
        BY <3>3
      <4> QED BY <4>1, <3>2, FirstPlace
    <3> HIDE DEF next, N
    <3>5. PICK f \in 1 .. Len(fonts) : f = F(s) /\ Glyphs!HasGlyph(fonts[f], cp)
      BY <3>3, <3>4
    <3>6. found = [atlas |-> Glyphs!LazyLoadCharacter(at, fonts[f], cp, s), type |-> s]
      BY <2>1, <3>1, <3>2, <3>5
    <3> QED BY <3>2, <3>5, <3>6, FindsLoaded
  <2>3. CASE N = {}
    <3> DEFINE kind == IF backup # 0 THEN order[backup] ELSE Glyphs!NoGlyph
    <3>1. found = [atlas |-> at, type |-> kind]
      <4>1. next = 0
        BY <2>3
      <4> HIDE DEF next, backup
      <4> QED BY <2>1, <4>1
    <3>2. CASE B # {}
      <4>1. backup \in B /\ backup # 0
        <5>1. B \subseteq Nat /\ 0 \notin B
          OBVIOUS
        <5> HIDE DEF B
        <5> QED BY <5>1, <3>2, FirstPlace
      <4>2. PICK s \in Glyphs!FontTypes : s = kind /\ Glyphs!IsLoaded(at, cp, s)
        BY <4>1, <1>1
      <4> HIDE DEF kind
      <4> QED BY <3>1, <4>2, <1>2, FindsThere
    <3>3. CASE B = {}
      <4>1. kind = Glyphs!NoGlyph
        BY <3>3
      <4>2. ASSUME NEW i \in 1 .. Len(fonts), Glyphs!HasGlyph(fonts[i], cp)
            PROVE  FALSE
        <5>1. PICK k \in 1 .. 5 : order[k] = fonts[i].type
          <6>1. fonts[i] \in Font
            OBVIOUS
          <6>2. fonts[i].type \in Glyphs!FontTypes
            BY <6>1 DEF Font
          <6> QED BY <6>2, <1>1
        <5>2. i \in Glyphs!FontFor(fonts, cp, order[k])
          BY <4>2, <5>1 DEF Glyphs!FontFor, Glyphs!GetFontsByType
        <5>3. ~Glyphs!IsLoaded(at, cp, order[k])
          BY <3>3, <5>1, <1>1
        <5>4. k \in N
          BY <5>2, <5>3, <1>1
        <5> QED BY <5>4, <2>3
      <4>3. \A i \in 1 .. Len(fonts) :
              ~Glyphs!HasGlyph(fonts[i], cp)
        BY <4>2
      <4> HIDE DEF kind
      <4> QED BY <3>1, <4>1, <4>3, FindsThere
    <3> QED BY <3>2, <3>3
  <2> QED BY <2>2, <2>3
<1> QED BY <1>5, <1>6, <1>7
=============================================================================
