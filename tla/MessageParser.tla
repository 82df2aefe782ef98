--------------------------- MODULE MessageParser ---------------------------
(***************************************************************************)
(* How a line becomes a message and a message a line: StreamReader, the     *)
(* body of IrcClient::handleMessage, the message classes and the two        *)
(* IrcClient::write that put a line together.  A character is its code; a   *)
(* StreamReader is the part of its text that is still to be read.           *)
(***************************************************************************)
EXTENDS Integers, SequencesExt

SP == 32      BANG == 33    HASH == 35     COLON == 58   AT == 64
CTCP == 1     Digit == 48 .. 57   PLUS == 43   MINUS == 45
Blanks == {SP} \cup 9 .. 13

\* "ACTION ", "ERR [" and "] " as the code spells them.
ActionWord == <<65, 67, 84, 73, 79, 78, SP>>
ErrOpen == <<69, 82, 82, SP, 91>>
ErrClose == <<93, SP>>
-----------------------------------------------------------------------------
(* StreamReader                                                             *)

Skip(s, n) == SubSeq(s, n + 1, Len(s))
IsNext(s, c) == s # <<>> /\ s[1] = c
Has(s, c) == \E i \in DOMAIN s : s[i] = c
ReadUntil(s, c) ==
  IF Has(s, c) THEN SubSeq(s, 1, SelectInSeq(s, LAMBDA d : d = c) - 1) ELSE s
From(s, c) == Skip(s, Len(ReadUntil(s, c)))       \* readUntil, then the rest
SkipUntil(s, c) == Skip(From(s, c), 1)            \* skipUntil(c, true)

\* Mutant: the blank behind the word is not skipped.
AfterWordKept(s) == From(s, SP)

\* The rest behind a word and its blank.
AfterWord(s) == Skip(From(s, SP), 1)

\* while (reader.rem() > 0): a step on a record whose field rest is the reader.
ReadLoop(Step(_), start) ==
  FoldLeft(LAMBDA r, c : IF r.rest = <<>> THEN r ELSE Step(r), start, start.rest)

\* Every word of s, as the loops over a list of names read them.
Words(s) ==
  ReadLoop(LAMBDA r : [words |-> Append(r.words, ReadUntil(r.rest, SP)),
                       rest |-> AfterWord(r.rest)],
           [words |-> <<>>, rest |-> s]).words
-----------------------------------------------------------------------------
(* IrcClient::handleMessage                                                 *)

\* struct Source, from the word behind the colon.
ReadSource(s) ==
  IF Has(s, BANG)
  THEN LET user == SkipUntil(s, BANG)
       IN [onlyHost |-> FALSE, nick |-> ReadUntil(s, BANG),
           username |-> ReadUntil(user, AT), host |-> SkipUntil(user, AT)]
  ELSE [onlyHost |-> TRUE, nick |-> <<>>, username |-> <<>>, host |-> s]

GetName(source) == IF source.onlyHost THEN source.host ELSE source.nick

IsNumeric(command) == \A i \in DOMAIN command : command[i] \in Digit
\* The characters at the beginning of s that belong to a set.
Leading(s, chars) ==
  SubSeq(s, 1, IF \E i \in DOMAIN s : s[i] \notin chars
               THEN SelectInSeq(s, LAMBDA c : c \notin chars) - 1 ELSE Len(s))

\* std::stoi: blanks, a sign, digits, and whatever follows.  The set of the number;
\* it is empty, and stoi throws, if there is no digit or no int holds it.  Counted
\* below zero, where an int goes further down.
INTMIN == -2147483647 - 1
Stoi(text) ==
  LET signed == Skip(text, Len(Leading(text, Blanks)))
      negative == IsNext(signed, MINUS)
      digits == Leading(IF negative \/ IsNext(signed, PLUS) THEN Skip(signed, 1) ELSE signed,
                        Digit)
      down(ns, c) ==
        {10 * n - (c - 48) :
           n \in {m \in ns : m > -214748364 \/ (m = -214748364 /\ c - 48 <= 8)}}
      below == IF digits = <<>> THEN {} ELSE FoldLeft(down, {0}, digits)
  IN IF negative THEN below ELSE {-n : n \in below \ {INTMIN}}

\* The parts of a line; stoi throws, and the program ends, at a line without a
\* command or with a number no int holds.
HandleMessage(raw, nick) ==
  LET tagged == IsNext(raw, AT)
      line == IF tagged THEN AfterWord(raw) ELSE raw
      sourced == IsNext(line, COLON)
      source == Skip(ReadUntil(line, SP), 1)
      rest == IF sourced THEN AfterWord(line) ELSE line
  IN [tag |-> IF tagged THEN Skip(ReadUntil(raw, SP), 1) ELSE <<>>,
      source |-> IF sourced THEN ReadSource(source) ELSE ReadSource(<<>>),
      forUser |-> sourced /\ IsPrefix(nick, source),
      command |-> ReadUntil(rest, SP),
      isNumericCommand |-> IsNumeric(ReadUntil(rest, SP)),
      parameters |-> AfterWord(rest),
      throws |-> IsNumeric(ReadUntil(rest, SP)) /\ Stoi(ReadUntil(rest, SP)) = {}]
-----------------------------------------------------------------------------
(* The message classes                                                      *)

Parameters(p) == IF IsNext(p, SP) THEN Skip(p, 1) ELSE p

\* IrcMessageNames::fromParts
NamesFromParts(p) ==
  LET q == Parameters(p)
      r == AfterWord(q)
  IN [client |-> ReadUntil(q, SP), symbol |-> ReadUntil(r, SP),
      channel |-> ReadUntil(AfterWord(r), SP),
      names |-> Words(SkipUntil(From(AfterWord(r), SP), COLON))]

\* IrcMessageMsg::fromParts; code is the number of an error reply or <<>>.
MsgFromParts(p, code) ==
  LET q == IF code = <<>> THEN Parameters(p) ELSE SkipUntil(Parameters(p), SP)
      text == SkipUntil(From(q, SP), COLON)
      action == IsNext(text, CTCP)
      raw == IF action THEN ReadUntil(Skip(text, 1), CTCP) ELSE text
      said == IF action /\ IsPrefix(ActionWord, raw) THEN Skip(raw, Len(ActionWord)) ELSE raw
  IN [channel |-> ReadUntil(q, SP), action |-> action,
      type |-> IF code = <<>> THEN 0 ELSE 1,
      content |-> IF code = <<>> THEN said ELSE ErrOpen \o code \o ErrClose \o said]

\* IrcMessageMsg::build
MsgBuild(msg) ==
  <<msg.channel,
    IF msg.action THEN <<COLON>> \o (<<CTCP>> \o (ActionWord \o (msg.content \o <<CTCP>>)))
    ELSE <<COLON>> \o msg.content>>

\* PASS, NICK, USER and QUIT; the user's host and server are never set.
PassBuild(password) == <<password>>
NickBuild(nick) == <<nick>>
UserBuild(username, realname) == <<username, <<48>>, <<42>>, realname>>
QuitBuild(reason) == <<<<COLON>> \o reason>>

\* IrcClient::write of parts: joined by blanks; the line end is LineBuffer's.
JoinParts(parts) ==
  FoldLeft(LAMBDA line, part : IF line = <<>> THEN part ELSE line \o <<SP>> \o part,
           <<>>, parts)
WriteMessage(command, build) == JoinParts(<<command>> \o build)

\* IrcClient::readChannelType, isChannelMode and isPrefix
ReadChannelType(name) == IF IsNext(name, HASH) THEN "normal" ELSE "user"
IsChannelMode(channelModes, c) == Has(channelModes, c)
IsPrefixChar(prefixes, c) == Has(prefixes, c)
-----------------------------------------------------------------------------
(* Properties                                                               *)

LOCAL a == 97
LOCAL one == 49
LOCAL Text(S, n) == UNION {[1 .. k -> S] : k \in 0 .. n}

\* RFC 1459's grammar, written out: the lines a server may send, by their parts.
LOCAL Tags == {<<>>, <<a>>, <<a, COLON>>}
LOCAL Sources ==
  {ReadSource(<<>>)} \cup
  {[onlyHost |-> TRUE, nick |-> <<>>, username |-> <<>>, host |-> h] : h \in {<<a>>, <<a, COLON, one>>}} \cup
  {[onlyHost |-> FALSE, nick |-> n, username |-> u, host |-> h] :
     n \in {<<a>>, <<a, one>>}, u \in {<<>>, <<a>>}, h \in {<<a>>, <<COLON, AT>>}}
\* Digits, and the ints that they are alone and behind a minus: one of one word or
\* more, the greatest int and what is next to it, and a digit more than any int has.
LOCAL Greatest(last) == <<50, one, 52, 55, 52, 56, 51, 54, 52, last>>
LOCAL Numerals ==
  (<<>> :> <<{}, {}>>) @@ (<<one>> :> <<{1}, {-1}>>) @@ (<<48, 48, 55>> :> <<{7}, {-7}>>)
  @@ (Greatest(55) :> <<{2147483647}, {-2147483647}>>)
  @@ (Greatest(56) :> <<{}, {INTMIN}>>) @@ (Greatest(57) :> <<{}, {}>>)
  @@ (Append(Greatest(48), 48) :> <<{}, {}>>)
LOCAL Commands == {<<a>>, <<a, one>>, <<one, a>>} \cup DOMAIN Numerals
\* The text of a source, a word between a character and a blank if there is one,
\* and the line of its parts.
SourceText(s) ==
  IF s.onlyHost THEN s.host
  ELSE s.nick \o (<<BANG>> \o (s.username \o (<<AT>> \o s.host)))
Led(c, word, rest) ==
  IF word = <<>> THEN rest ELSE <<c>> \o (word \o (<<SP>> \o rest))
LineOf(tag, source, command, parameters) ==
  Led(AT, tag, Led(COLON, SourceText(source), command \o (<<SP>> \o parameters)))

\* Of the line of these parts, these are the parts that are read.
ReadAsWritten(tag, source, command, parameters, nick) ==
  LET m == HandleMessage(LineOf(tag, source, command, parameters), nick)
  IN /\ m.tag = tag /\ m.source = source
     /\ m.command = command /\ m.parameters = parameters
     /\ m.isNumericCommand <=> IsNumeric(command)
     /\ m.forUser <=> source # ReadSource(<<>>) /\ IsPrefix(nick, SourceText(source))
     /\ m.throws <=> IsNumeric(command) /\ Stoi(command) = {}

\* std::stoi, as it is documented: what is in front of the digits and behind them,
\* and the ends of an int.
IntsRead ==
  \A digits \in DOMAIN Numerals, blanks \in {<<>>, <<SP>>, <<9, SP>>},
     rest \in {<<>>, <<a, one>>, <<SP, one>>, <<MINUS>>} :
    (digits = <<>> => rest = <<>> \/ rest[1] # SP) =>
      /\ Stoi(blanks \o digits \o rest) = Numerals[digits][1]
      /\ Stoi(blanks \o <<PLUS>> \o digits \o rest) = Numerals[digits][1]
      /\ Stoi(blanks \o <<MINUS>> \o digits \o rest) = Numerals[digits][2]

\* irc_client.cc:109-160: whatever parts a line is made of, the parts read from
\* it are those, with the numbers told from the names; the program ends at a line
\* whose command is no word or a number no int holds, and at no other.
PartsRead ==
  \A tag \in Tags, source \in Sources, command \in Commands,
     parameters \in Text({a, SP, COLON, AT}, 3) :
    /\ ReadAsWritten(tag, source, command, parameters, <<a>>)
    /\ IsNumeric(command) <=> command \in DOMAIN Numerals
    /\ HandleMessage(LineOf(tag, source, command, parameters), <<a>>).throws
         <=> command \in DOMAIN Numerals /\ Numerals[command][1] = {}

\* The parameters a message is sent with, and read from: it is what it was.
Sent(msg) == MsgBuild(msg)[1] \o (<<SP>> \o MsgBuild(msg)[2])
ReadAsMeant(msg) == MsgFromParts(Sent(msg), <<>>) = msg

\* irc_messages.hpp:141-153,189-215 with irc_client.cc:180-199: a message the
\* client writes and a server relays is the message it was, as long as what the
\* user typed has no CTCP mark of its own.
WrittenIsRead ==
  \A channel \in {<<HASH, a>>, <<a>>}, action \in BOOLEAN,
     content \in Text({a, SP, COLON, AT}, 3) \cup {ActionWord, ActionWord \o <<a>>} :
    LET msg == [channel |-> channel, action |-> action, content |-> content, type |-> 0]
        relayed == <<COLON, a, BANG, a, AT, a, SP>> \o WriteMessage(<<a>>, MsgBuild(msg))
        m == HandleMessage(relayed, <<a>>)
    IN m.forUser /\ m.parameters = Sent(msg) /\ ReadAsMeant(msg)

\* irc_messages.hpp:101-117: the names of a 353 reply are those the server put
\* in it, in order, a blank behind the last one or not.
NamesRead ==
  \A names \in Text({<<a>>, <<AT, a>>}, 3), last \in {<<>>, <<SP>>} :
    names # <<>> =>
      NamesFromParts(<<a, SP, 61, SP, HASH, a, SP, COLON>> \o JoinParts(names) \o last)
        = [client |-> <<a>>, symbol |-> <<61>>, channel |-> <<HASH, a>>, names |-> names]

LinesParsed == IntsRead /\ PartsRead /\ WrittenIsRead /\ NamesRead
=============================================================================
