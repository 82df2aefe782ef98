------------------------------ MODULE Encoding ------------------------------
(***************************************************************************)
(* What a message goes through between the window and its cache file: the   *)
(* base64 of its content (src/src/utils/base64.hpp, both byte orders), the  *)
(* UTF-8 of what is typed (src/src/utils/unicode_utils.h) and the object    *)
(* IrcMessageMsg::toJson writes.  Bytes and code points are numbers; the    *)
(* JSON library, outside src/, keeps the fields it is given.                *)
(***************************************************************************)
EXTENDS Integers, SequencesExt

PaddingChar == 61
BadChar == 33554431                         \* 0x01FFFFFF
Orders == {"little", "big"}

\* What a shift by 0, 6, 12 or 18 bits multiplies by, and one by whole bytes.
Sixes == <<1, 64, 4096, 262144>>
Eights == <<1, 256, 65536, 16777216>>
-----------------------------------------------------------------------------
(* base64.hpp                                                               *)

Letter(n) == CASE n < 26 -> 65 + n [] n \in 26 .. 51 -> 71 + n
               [] n \in 52 .. 61 -> n - 4 [] n = 62 -> 43 [] OTHER -> 47
Value == [c \in {Letter(n) : n \in 0 .. 63} |-> CHOOSE n \in 0 .. 63 : Letter(n) = c]

EncodeTable0(t) == Letter(t \div 4)
EncodeTable1(t) == Letter(t % 64)

Encode3(t1, t2, t3) ==
  <<EncodeTable0(t1), EncodeTable1(((t1 % 4) * 16) + (t2 \div 16)),
    EncodeTable1(((t2 % 16) * 4) + (t3 \div 64)), EncodeTable1(t3)>>

\* The four letters of the i-th three bytes, padded where there are fewer.
EncodeGroup(bytes, i) ==
  LET left == Len(bytes) - 3 * (i - 1)
      t(k) == IF k <= left THEN bytes[3 * (i - 1) + k] ELSE 0
      code == Encode3(t(1), t(2), t(3))
  IN [k \in 1 .. 4 |-> IF k <= left + 1 THEN code[k] ELSE PaddingChar]

ToBase64(bytes) ==
  LET size == 4 * ((Len(bytes) + 2) \div 3)
  IN [k \in 1 .. size |-> EncodeGroup(bytes, ((k - 1) \div 4) + 1)[((k - 1) % 4) + 1]]

\* The letter's six bits at its place in a word, so that the first of the three
\* bytes is the one that the machine keeps at decidx0.
DecodeTableLittle(k, c) ==
  IF c \notin DOMAIN Value THEN BadChar
  ELSE LET w == Value[c] * Sixes[4 - k]
       IN (w \div 65536) + 256 * ((w \div 256) % 256) + 65536 * (w % 256)
DecodeTableBig(k, c) == IF c \notin DOMAIN Value THEN BadChar ELSE Value[c] * Sixes[4 - k]

DecodeTable(order, k, c) ==
  IF order = "little" THEN DecodeTableLittle(k, c) ELSE DecodeTableBig(k, c)

\* bit_cast: the byte of a word at an address.
ByteAt(order, word, address) ==
  (word \div Eights[IF order = "little" THEN address + 1 ELSE 4 - address]) % 256
DecIdx(order, i) == IF order = "little" THEN i ELSE i + 1

\* Mutant: the group that is padded is decoded whole.
DecodedSizePadded(text) == (Len(text) * 3) \div 4

NumPadding(text) ==
  Cardinality({k \in Len(text) - 3 .. Len(text) : text[k] = PaddingChar})
DecodedSize(text) == ((Len(text) * 3) \div 4) - NumPadding(text)

\* The word of the g-th four letters; the padding of the last is left out.
Word(order, text, g) ==
  LET letters == 0 .. 3 - (IF 4 * g = Len(text) THEN NumPadding(text) ELSE 0)
      d(k) == DecodeTable(order, k, text[4 * (g - 1) + k + 1])
      bits(k) == IF k \in letters THEN d(k) ELSE 0
  IN bits(0) + bits(1) + bits(2) + bits(3)

\* std::runtime_error, in the four cases of the code.
Throws(order, text) ==
  text # <<>> /\ (\/ Len(text) % 4 # 0
                  \/ NumPadding(text) > 2
                  \/ \E g \in 1 .. Len(text) \div 4 : Word(order, text, g) >= BadChar)

FromBase64(order, text) ==
  IF text = <<>> THEN <<>>
  ELSE [i \in 1 .. DecodedSize(text) |->
          ByteAt(order, Word(order, text, ((i - 1) \div 3) + 1), DecIdx(order, (i - 1) % 3))]
-----------------------------------------------------------------------------
(* UnicodeUtils                                                             *)

\* How many bytes the character beginning with u takes, 0 when reading ends there.
Width(u) ==
  LET u0 == u[1]
      has(n) == Len(u) >= n
      surrogate == u0 = 237 /\ u[2] \div 32 \in {5, 7}      \* & 0xa0 == 0xa0
  IN CASE u0 <= 127 -> 1
       [] u0 \in 192 .. 223 /\ has(2) -> 2
       [] u0 \in 224 .. 239 /\ has(3) /\ ~surrogate -> 3
       [] u0 \in 240 .. 247 /\ has(4) -> 4
       [] OTHER -> 0

Point(u) ==
  LET b(k) == u[k] - 128
  IN IF Width(u) = 1 THEN u[1]
     ELSE IF Width(u) = 2 THEN (u[1] - 192) * 64 + b(2)
     ELSE IF Width(u) = 3 THEN (u[1] - 224) * 4096 + b(2) * 64 + b(3)
     ELSE (u[1] - 240) * 262144 + b(2) * 4096 + b(3) * 64 + b(4)

\* One turn of the loop; s is what it keeps, once it has ended too.
ReadCharacter(s) ==
  IF s.u = <<>> \/ Width(s.u) = 0 THEN s
  ELSE [points |-> Append(s.points, Point(s.u)),
        u |-> SubSeq(s.u, Width(s.u) + 1, Len(s.u))]

Utf8ToCodepoint(raw) ==
  FoldLeft(LAMBDA s, c : ReadCharacter(s), [points |-> <<>>, u |-> raw], raw).points

Utf8(cp) ==
  LET six(n) == ((cp \div Sixes[n + 1]) % 64) + 128
  IN IF cp <= 127 THEN <<cp % 256>>
     ELSE IF cp <= 2047 THEN <<192 + (cp \div 64), six(0)>>
     ELSE IF cp <= 65535 THEN <<224 + (cp \div 4096), six(1), six(0)>>
     ELSE IF cp <= 1114111 THEN <<240 + (cp \div 262144), six(2), six(1), six(0)>>
     ELSE <<>>
UnicodeToUtf8(in) == FoldLeft(LAMBDA out, cp : out \o Utf8(cp), <<>>, in)
-----------------------------------------------------------------------------
(* IrcMessageMsg::toJson and fromJson                                       *)

ToJson(msg) ==
  [time |-> msg.time, channel |-> msg.channel, action |-> msg.action,
   content |-> ToBase64(msg.content), source |-> msg.source]

\* A message read back has no command and no error type.
FromJson(order, in) ==
  [time |-> in.time, channel |-> in.channel, action |-> in.action,
   content |-> FromBase64(order, in.content), source |-> in.source,
   type |-> 0, command |-> ""]
-----------------------------------------------------------------------------
(* Properties                                                               *)

LOCAL StoredBytes == {0, 1, 62, 65, 251, 255}
LOCAL StoredTexts == UNION {[1 .. n -> StoredBytes] : n \in 0 .. 4}
LOCAL TypedPoints ==
  {9, 65, 127, 128, 233, 2047, 2048, 8364, 65535, 65536, 128512, 1114111}

\* A message is read back from its object with every field it was written with.
ComesBack(order, msg) ==
  LET back == FromJson(order, ToJson(msg))
  IN /\ ~Throws(order, ToJson(msg).content)
     /\ \A field \in DOMAIN msg : back[field] = msg[field]

\* irc_messages.hpp:159-186 with base64.hpp: any bytes a peer sent come back
\* from the cache as they were, on a machine of either byte order, a formatted
\* or a broken text too.
CacheReturnsContent ==
  \A text \in StoredTexts, order \in Orders, action \in BOOLEAN :
    ComesBack(order, [time |-> "t", channel |-> "c", action |-> action,
                      content |-> text, source |-> "s"])

\* base64.hpp:575-589,607-665: a text that is not base64 is refused, not read as
\* something else: what is accepted is what encoding its bytes gives, but for the
\* bits of the last letter that no byte takes.
OnlyBase64IsRead ==
  \A n \in 1 .. 4, order \in Orders : \A text \in [1 .. n -> {61, 65, 66, 47, 33, 200}] :
    ~Throws(order, text) =>
      LET again == ToBase64(FromBase64(order, text))
      IN /\ Len(again) = Len(text)
         /\ \A k \in 1 .. n : again[k] # text[k] =>
              NumPadding(text) > 0 /\ k = n - NumPadding(text)

\* unicode_utils.h: what is typed is what is read back from its UTF-8; a text
\* that is cut inside a character loses only that character.
TypedIsReadBack ==
  \A n \in 1 .. 2 : \A in \in [1 .. n -> TypedPoints] :
    LET raw == UnicodeToUtf8(in)
    IN \A cut \in 1 .. Len(raw) :
         Utf8ToCodepoint(SubSeq(raw, 1, cut)) =
           LET whole == {k \in 0 .. n : Len(UnicodeToUtf8(SubSeq(in, 1, k))) <= cut}
           IN SubSeq(in, 1, Max(whole))

ContentSurvives == CacheReturnsContent /\ OnlyBase64IsRead /\ TypedIsReadBack
=============================================================================
