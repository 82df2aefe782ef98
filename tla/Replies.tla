------------------------------ MODULE Replies ------------------------------
(***************************************************************************)
(* What IrcEventHandler makes of the replies that describe a channel, a     *)
(* user or the server, and of the commands that ask for them: the part of   *)
(* processMessage, whoIsHandler and sendChannelMessage                      *)
(* (src/src/irc/irc_event_handler.cc) that Channels leaves out.  A network  *)
(* is a record of the fields of IrcClient they touch; shown lists, in       *)
(* order, what a popover was opened with, sent the parts of what is written. *)
(* Keys and commands the code spells out are compared by one letter.        *)
(***************************************************************************)
EXTENDS MessageParser

QUOTE == 34   LPAREN == 40   RPAREN == 41   EQ == 61
PrefixKey == <<80>>

NoKeys == [k \in {} |-> <<>>]
Put(f, k, v) == [x \in DOMAIN f \cup {k} |-> IF x = k THEN v ELSE f[x]]

NewClient ==
  [nick |-> <<97>>, network_name |-> <<>>, joinedChannels |-> NoKeys,
   preJoin |-> <<>>, channelModes |-> <<>>, prefixes |-> <<>>,
   notifyMap |-> NoKeys, searchQuery |-> <<>>, channelSearch |-> <<>>,
   isInNamesQuery |-> FALSE, nameSearch |-> [channels |-> <<>>, entries |-> <<>>],
   userInfos |-> NoKeys, lastWhoIs |-> <<>>, sent |-> <<>>, shown |-> <<>>,
   throws |-> FALSE]

\* A number that is read; the program ends where there is none.
The(ints) == CHOOSE n \in ints : TRUE
Throws(c) == [c EXCEPT !.throws = TRUE]
Joined(c, name) == name \in DOMAIN c.joinedChannels
Write(c, parts) == [c EXCEPT !.sent = Append(@, parts)]
Show(c, kind, items) == [c EXCEPT !.shown = Append(@, <<kind, items>>)]
-----------------------------------------------------------------------------
(* Registration                                                             *)

\* 001: the channels that waited for the registration are joined.
Welcome(c, source) ==
  [c EXCEPT !.network_name = source.host, !.preJoin = <<>>,
            !.sent = @ \o [i \in DOMAIN c.preJoin |-> <<"JOIN", c.preJoin[i]>>]]

\* 005: key=value words; a word without '=' is read as part of the next key.
ISupport(c, p) ==
  ReadLoop(LAMBDA r :
    LET key == ReadUntil(r.rest, EQ)
        value == ReadUntil(SkipUntil(r.rest, EQ), SP)
        next == AfterWord(SkipUntil(r.rest, EQ))
    IN IF key = PrefixKey /\ IsNext(value, LPAREN)
       THEN [c |-> [r.c EXCEPT !.channelModes = ReadUntil(Skip(value, 1), RPAREN),
                               !.prefixes = SkipUntil(value, RPAREN)],
             rest |-> next]
       ELSE [r EXCEPT !.rest = next],
    [c |-> c, rest |-> AfterWord(p)]).c
-----------------------------------------------------------------------------
(* Channels: topic, members, lists                                          *)

\* 332
Topic(c, p) ==
  LET q == SkipUntil(p, SP)
      name == ReadUntil(q, SP)
  IN IF ~Joined(c, name) THEN c
     ELSE [c EXCEPT !.joinedChannels[name].topic = SkipUntil(From(q, SP), COLON)]

\* The prefixes a name carries; without a 005 reply none is known.
Marks(c, name) ==
  LET plain == {i \in DOMAIN name : ~IsPrefixChar(c.prefixes, name[i])}
  IN IF plain = {} THEN Len(name) ELSE Min(plain) - 1

\* 353 for a /names: one entry for each name.
NamesEntries(c, p) ==
  LET q == AfterWord(AfterWord(p))
      name == ReadUntil(q, SP)
      said == Words(SkipUntil(From(q, SP), COLON))
      entry(total) == [channel |-> name, mode |-> SubSeq(total, 1, Marks(c, total)),
                       name |-> Skip(total, Marks(c, total))]
  IN [channels |-> IF Contains(c.nameSearch.channels, name) THEN c.nameSearch.channels
                   ELSE Append(c.nameSearch.channels, name),
      entries |-> c.nameSearch.entries \o [i \in DOMAIN said |-> entry(said[i])]]

\* Mutant: the names replace those of the reply before.
NamesAfresh(c, p) ==
  LET names == NamesFromParts(p)
  IN IF ~Joined(c, names.channel) THEN c
     ELSE [c EXCEPT !.joinedChannels[names.channel].users = names.names]

\* 353: the names are appended; a channel that is not joined ends the handling,
\* a running /names too.
Names(c, p) ==
  LET names == NamesFromParts(p)
      told == [c EXCEPT !.joinedChannels[names.channel].users = @ \o names.names]
  IN IF ~Joined(c, names.channel) THEN c
     ELSE IF c.isInNamesQuery THEN [told EXCEPT !.nameSearch = NamesEntries(c, p)]
     ELSE told

\* 366: the end of any list of names ends a running /names.
EndOfNames(c) ==
  IF c.isInNamesQuery
  THEN [Show(c, "names", c.nameSearch.entries) EXCEPT !.isInNamesQuery = FALSE] ELSE c

\* 321, 322 and 323
ListStart(c) == [c EXCEPT !.channelSearch = <<>>]
ListItem(c, p) ==
  LET q == AfterWord(p)
      r == AfterWord(q)
      users == Stoi(ReadUntil(r, SP))
  IN IF users = {} THEN Throws(c)
     ELSE [c EXCEPT !.channelSearch = Append(@,
             [name |-> ReadUntil(q, SP), user_count |-> The(users),
              topic |-> SkipUntil(From(r, SP), COLON)])]
ListEnd(c) == Show(c, "list", c.channelSearch)

\* addChannel
AddChannel(c, name) ==
  [c EXCEPT !.joinedChannels = Put(@, name,
     [topic |-> <<>>, users |-> <<>>,
      notify |-> name \in DOMAIN c.notifyMap /\ c.notifyMap[name]])]

Join(c, source, forUser, p) ==
  LET name == IF IsNext(p, COLON) THEN Skip(p, 1) ELSE p
  IN IF forUser
     THEN IF Joined(c, name) THEN c ELSE AddChannel(c, name)
     ELSE IF Joined(c, name)
     THEN [c EXCEPT !.joinedChannels[name].users = Append(@, GetName(source))]
     ELSE c

\* removeFromList: the first name that is the value or contains it.
RemoveFromList(list, value) ==
  LET has(e) == \E i \in 0 .. Len(e) : IsPrefix(value, Skip(e, i))
      found == {i \in DOMAIN list : has(list[i])}
  IN IF found = {} THEN list ELSE RemoveAt(list, Min(found))

\* Somebody else's PART: the first character is skipped, a colon or not.
Part(c, source, p) ==
  FoldLeft(LAMBDA d, name :
             IF name # d.network_name /\ Joined(d, name)
             THEN [d EXCEPT !.joinedChannels[name].users = RemoveFromList(@, GetName(source))]
             ELSE d,
           c, Words(Skip(p, 1)))

\* The user's own NICK
Nick(c, p) == [c EXCEPT !.nick = Skip(p, 1)]
-----------------------------------------------------------------------------
(* Users                                                                    *)

NoInfo == [nick |-> <<>>, username |-> <<>>, host |-> <<>>, realname |-> <<>>,
           server_name |-> <<>>, server_info |-> <<>>, modes |-> <<>>,
           channels |-> <<>>, secure_con |-> FALSE, op |-> FALSE,
           idle |-> 0, logonTime |-> 0]

\* The channels of a 319 reply; a blank at its end gives one without a name.
WhoIsChannels(text) ==
  ReadLoop(LAMBDA r : LET at == From(r.rest, HASH)
                      IN [words |-> Append(r.words, ReadUntil(at, SP)), rest |-> From(at, SP)],
           [words |-> <<>>, rest |-> text]).words

\* What one reply adds to the entry e of target, r the text behind the target.
WhoIsEntry(code, e, target, r) ==
  CASE code = 311 ->
         [e EXCEPT !.nick = target, !.username = ReadUntil(r, SP),
                   !.host = ReadUntil(AfterWord(r), SP),
                   !.realname = SkipUntil(From(AfterWord(r), SP), COLON)]
    [] code = 312 -> [e EXCEPT !.server_name = ReadUntil(r, SP),
                               !.server_info = SkipUntil(From(r, SP), COLON)]
    [] code = 379 -> [e EXCEPT !.modes = SkipUntil(r, PLUS)]
    [] code = 671 -> [e EXCEPT !.secure_con = TRUE]
    [] code = 313 -> [e EXCEPT !.op = TRUE]
    [] code = 317 -> [e EXCEPT !.idle = The(Stoi(ReadUntil(r, SP))),
                               !.logonTime = The(Stoi(ReadUntil(AfterWord(r), SP)))]
    [] code = 319 -> [e EXCEPT !.channels = @ \o WhoIsChannels(SkipUntil(r, COLON))]
    [] code \in {318, 378} -> e

\* whoIsHandler: the end of a list whose target is unknown shows the last one asked;
\* 317 must have two numbers.
WhoIs(c, code, p) ==
  LET q == AfterWord(Parameters(p))
      r == AfterWord(q)
      named == ReadUntil(q, SP)
      known == named \in DOMAIN c.userInfos
      target == IF ~known /\ code = 318 /\ c.lastWhoIs # <<>> /\ c.lastWhoIs \in DOMAIN c.userInfos
                THEN c.lastWhoIs ELSE named
      old == IF target \in DOMAIN c.userInfos THEN c.userInfos[target] ELSE NoInfo
      e == WhoIsEntry(code, old, target, r)
      told == [c EXCEPT !.userInfos = Put(@, target, e)]
  IN CASE code = 317 /\ {} \in {Stoi(ReadUntil(r, SP)), Stoi(ReadUntil(AfterWord(r), SP))} ->
            Throws(c)
       [] code = 311 -> [told EXCEPT !.lastWhoIs = target]
       [] code = 318 -> [Show(told, "info", e) EXCEPT !.lastWhoIs = <<>>]
       [] OTHER -> told
-----------------------------------------------------------------------------
(* Commands                                                                 *)

\* /list, /names, /whois and /join: written as they are.
AskList(c, what) == Write([c EXCEPT !.searchQuery = what], <<"LIST", what>>)
AskNames(c, what) ==
  Write([c EXCEPT !.isInNamesQuery = TRUE,
                  !.nameSearch = [channels |-> <<>>, entries |-> <<>>]], <<"NAMES", what>>)
AskPart(c, what, active) ==
  Write(c, <<"PART", IF what = <<>> /\ active # <<>> THEN active ELSE what>>)

\* /notify
Notify(c, name) ==
  LET on == ~c.joinedChannels[name].notify
  IN [c EXCEPT !.joinedChannels[name].notify = on, !.notifyMap = Put(@, name, on)]

\* /addserver: key=value words, a value in quotes may hold blanks.
AddServer(text) ==
  ReadLoop(LAMBDA r :
    LET v == SkipUntil(r.rest, EQ)
        quoted == IsNext(v, QUOTE)
        w == IF quoted THEN Skip(v, 1) ELSE v
        mark == IF quoted THEN QUOTE ELSE SP
    IN [host |-> r.host,
        set |-> Put(r.set, ReadUntil(r.rest, EQ), ReadUntil(w, mark)),
        rest |-> Skip(From(w, mark), IF quoted THEN 2 ELSE 1)],
    [host |-> ReadUntil(text, SP), set |-> NoKeys, rest |-> AfterWord(text)])
-----------------------------------------------------------------------------
(* Properties                                                               *)

LOCAL b == <<98>>
LOCAL cc == <<99>>
LOCAL chan == <<HASH, 97>>
LOCAL By(n) == [onlyHost |-> FALSE, nick |-> n, username |-> n, host |-> n]
LOCAL Inside == AddChannel([NewClient EXCEPT !.prefixes = <<AT, PLUS>>], chan)
LOCAL NamesReply(names) ==
  JoinParts(<<<<97>>, <<EQ>>, chan, <<COLON>> \o JoinParts(names)>>)

\* What a server tells of a channel, and what is true of it: join, part and the
\* reply to NAMES, in the forms servers send.
LOCAL Events ==
  ({"join"} \X {b, cc} \X {<<COLON>>, <<>>}) \cup
  ({"part"} \X {b, cc} \X {<<COLON>>, <<>>}) \cup
  ({"names"} \X {b} \X {<<>>, <<AT>>})
LOCAL Tell(s, e) ==
  IF e[1] = "join" /\ e[2] \notin s.members
  THEN [c |-> Join(s.c, By(e[2]), FALSE, e[3] \o chan), members |-> s.members \cup {e[2]}]
  ELSE IF e[1] = "part" /\ e[2] \in s.members
  THEN [c |-> Part(s.c, By(e[2]), e[3] \o chan), members |-> s.members \ {e[2]}]
  ELSE IF e[1] = "names"
  THEN [s EXCEPT !.c = EndOfNames(Names(s.c, NamesReply(
                         SetToSeq({IF n = e[2] THEN e[3] \o n ELSE n :
                                     n \in s.members \cup {<<97>>}}))))]
  ELSE s

\* irc_event_handler.cc:292-299,421-431,453-483: whatever is told of a channel in
\* whatever order, every member is in its list (as long as no nick contains
\* another): a reply, a repeated reply or a leaving user loses nobody.
UsersCovered ==
  \A h \in [1 .. 4 -> Events] :
    LET s == FoldLeft(Tell, [c |-> Inside, members |-> {}], h)
        users == s.c.joinedChannels[chan].users
    IN \A m \in s.members : \E i \in DOMAIN users : m \in {users[i], Skip(users[i], 1)}

\* irc_event_handler.cc:325-358,605-608: /names for a joined channel shows every
\* name of the reply once, in order, without its marks, however the server
\* divides the names; a reply that was not asked for shows nothing.
NamesShown ==
  \A n \in 1 .. 3 : \A names \in [1 .. n -> {b, <<AT>> \o b, <<AT, PLUS>> \o cc}] :
    \A k \in 0 .. n - 1, asked \in BOOLEAN :
      LET c0 == IF asked THEN AskNames(Inside, chan) ELSE Inside
          c1 == IF k = 0 THEN c0 ELSE Names(c0, NamesReply(SubSeq(names, 1, k)))
          c2 == EndOfNames(Names(c1, NamesReply(SubSeq(names, k + 1, n))))
          entry(e) == [channel |-> chan, mode |-> Front(e), name |-> <<Last(e)>>]
      IN /\ c2.shown = IF asked THEN <<<<"names", [i \in 1 .. n |-> entry(names[i])]>>>>
                       ELSE <<>>
         /\ EndOfNames(c2) = c2

\* irc_event_handler.cc:126-192: the replies to a WHOIS, in whatever order they
\* come before the last, give the popover what each of them says.
WhoIsShown ==
  LET said == <<<<311, <<b, b, <<42>>, <<COLON, 97, SP>> \o b>>>>,
                <<312, <<b, <<COLON>> \o cc>>>>, <<671, <<<<COLON>> \o b>>>>,
                <<317, <<<<49, 50>>, <<51>>, <<COLON, 97>>>>>>,
                <<319, <<<<COLON, AT, HASH, 97>>, <<HASH, 98>>>>>>>>
      reply(i) == JoinParts(<<<<97>>, b>> \o said[i][2])
      wanted == [NoInfo EXCEPT
        !.nick = b, !.username = b, !.host = b, !.realname = <<97, SP>> \o b,
        !.server_name = b, !.server_info = cc, !.secure_con = TRUE,
        !.idle = 12, !.logonTime = 3, !.channels = <<<<HASH, 97>>, <<HASH, 98>>>>]
  IN \A order \in {p \in [1 .. 5 -> 1 .. 5] : IsInjective(p)}, target \in {b, cc} :
       LET told == FoldLeft(LAMBDA c, i : WhoIs(c, said[i][1], reply(i)), NewClient, order)
           \* some servers end the list of a renamed user under another name
           ended == WhoIs(told, 318, JoinParts(<<<<97>>, target, <<COLON>>>>))
       IN ended.shown = <<<<"info", wanted>>>>

\* irc_event_handler.cc:303-324: /list shows the channels of this reply alone.
ListShown ==
  \A n \in 0 .. 2, m \in 0 .. 2 :
    LET item(i) == JoinParts(<<<<97>>, <<HASH, 96 + i>>, <<48 + i>>, <<COLON, 97, SP, COLON>>>>)
        reply(c, k) == ListEnd(FoldLeft(LAMBDA d, i : ListItem(d, item(i)), ListStart(c),
                                        [i \in 1 .. k |-> i]))
        shown == reply(reply(AskList(NewClient, <<>>), n), m).shown
    IN shown[2] = <<"list", [i \in 1 .. m |->
         [name |-> <<HASH, 96 + i>>, user_count |-> i, topic |-> <<97, SP, COLON>>]]>>

\* irc_event_handler.cc:258-278: the prefixes are read wherever they stand among
\* words that have a value (a word without one hides the next).
ISupportRead ==
  \A k \in 1 .. 3, with \in BOOLEAN :
    LET word == <<67, EQ>> \o (IF with THEN b ELSE <<>>)
        prefix == PrefixKey \o <<EQ, LPAREN, 111, 118, RPAREN, AT, PLUS>>
        p == JoinParts(<<<<97>>>> \o [i \in 1 .. 3 |-> IF i = k THEN prefix ELSE word]
                       \o <<<<COLON, 97>>>>)
        c == ISupport(NewClient, p)
    IN c.prefixes = <<AT, PLUS>> /\ c.channelModes = <<111, 118>>

\* README.md's /addserver, irc_event_handler.cc:537-583: the settings are those
\* that were typed, in quotes or not.
AddServerRead ==
  \A v1, v2 \in {<<>>, b, b \o <<SP>> \o cc, b \o <<EQ>>, <<SP>>} :
    \A q1, q2 \in BOOLEAN :
      LET value(v, q) == IF q \/ Has(v, SP) THEN <<QUOTE>> \o v \o <<QUOTE>> ELSE v
          typed == JoinParts(<<b, <<110, EQ>> \o value(v1, q1), <<111, EQ>> \o value(v2, q2)>>)
      IN AddServer(typed).set = (<<110>> :> v1 @@ <<111>> :> v2)

RepliesRight ==
  /\ UsersCovered /\ NamesShown /\ WhoIsShown
  /\ ListShown /\ ISupportRead /\ AddServerRead
=============================================================================
