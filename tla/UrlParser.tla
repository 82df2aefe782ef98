----------------------------- MODULE UrlParser -----------------------------
(***************************************************************************)
(* UrlParser (src/src/utils/url_parser.cc) and the channels that            *)
(* UrlHandler::handle reads from what it returns (url_handler.cc:138-160).  *)
(* A text is a sequence of character codes.  Left out: what atoi makes of   *)
(* a port that no int holds.                                                *)
(***************************************************************************)
EXTENDS MessageParser

SLASH == 47   PERCENT == 37   COMMA == 44   QUERY == 63   OPEN == 91   CLOSE == 93
Upper == 65 .. 90
Alpha == Upper \cup 97 .. 122

\* The text in front of the first character of a set.
Until(s, chars) == SubSeq(s, 1, IF \E i \in DOMAIN s : s[i] \in chars
                                THEN SelectInSeq(s, LAMBDA c : c \in chars) - 1 ELSE Len(s))
FromAny(s, chars) == Skip(s, Len(Until(s, chars)))

IsSchemeValid(name) == \A i \in DOMAIN name : name[i] \in Alpha \cup {43, 45, 46}
ToLower(s) == [i \in DOMAIN s |-> IF s[i] \in Upper THEN s[i] + 32 ELSE s[i]]

Invalid == [valid |-> FALSE, scheme |-> <<>>, user |-> <<>>, password |-> <<>>,
            host |-> <<>>, port |-> <<>>, path |-> <<>>, query |-> <<>>, fragment |-> <<>>]

\* What follows "/" behind host and port; the fragment keeps its '#'.
PathParts(s) ==
  LET rest == FromAny(s, {HASH, QUERY})
      query == IF IsNext(rest, QUERY) THEN Until(Skip(rest, 1), {HASH}) ELSE <<>>
  IN [path |-> Until(s, {HASH, QUERY}), query |-> query,
      fragment |-> FromAny(rest, {HASH})]

\* Mutant: the port is looked for inside the brackets of an address, too.
HostOfAny(s) == Until(s, {COLON, SLASH})

\* An address in brackets may hold colons.
HostOf(s) ==
  IF IsNext(s, OPEN)
  THEN Until(s, {CLOSE}) \o (IF Has(s, CLOSE) THEN <<CLOSE>> ELSE <<>>)
  ELSE Until(s, {COLON, SLASH})

ParseURL(url) ==
  LET scheme == ReadUntil(url, COLON)
      rest == SkipUntil(url, COLON)
      place == Skip(rest, 2)
      named == IsNext(FromAny(place, {AT, SLASH}), AT)    \* bHasUserName
      user == IF named THEN ReadUntil(place, AT) ELSE <<>>
      server == IF named THEN SkipUntil(place, AT) ELSE place
      host == HostOf(server)
      behind == Skip(server, Len(host))
      port == IF IsNext(behind, COLON) THEN Until(Skip(behind, 1), {SLASH}) ELSE <<>>
      end == IF IsNext(behind, COLON) THEN FromAny(behind, {SLASH}) ELSE behind
      parts == PathParts(Skip(end, 1))
  IN IF \/ ~Has(url, COLON) \/ ~IsSchemeValid(scheme)
        \/ ~IsPrefix(<<SLASH, SLASH>>, rest)
        \/ end # <<>> /\ ~IsNext(end, SLASH)
     THEN Invalid
     ELSE [valid |-> TRUE, scheme |-> ToLower(scheme),
           user |-> ReadUntil(user, COLON), password |-> SkipUntil(user, COLON),
           host |-> host, port |-> port,
           path |-> parts.path, query |-> parts.query, fragment |-> parts.fragment]

\* clParseURL::GetPort: 0 stands for "not a port".
GetPort(port) ==
  IF \E n \in Stoi(port) : n \in 1 .. 65535 THEN CHOOSE n \in Stoi(port) : TRUE ELSE 0

\* getProtocolPort, of http, ws, https and wss; -1 as in the code.
Http == <<104, 116, 116, 112>>
Ws == <<119, 115>>
S == 115
GetProtocolPort(protocol) ==
  IF protocol \in {Http, Ws} THEN 80
  ELSE IF protocol \in {Append(Http, S), Append(Ws, S)} THEN 443 ELSE -1

\* UrlParser::parse
ParseParts(url) ==
  LET res == ParseURL(url)
      port == GetPort(res.port)
      path == IF IsNext(res.path, SLASH) THEN res.path ELSE <<SLASH>> \o res.path
  IN [valid |-> res.valid, protocol |-> res.scheme, host |-> res.host,
      fragment |-> res.fragment,
      port |-> IF port = 0 THEN GetProtocolPort(res.scheme) ELSE port,
      path |-> IF res.query = <<>> THEN path ELSE path \o <<QUERY>> \o res.query]

HexValue(c) == CASE c \in Digit -> c - 48 [] c \in 65 .. 70 -> c - 55 [] c \in 97 .. 102 -> c - 87
                 [] OTHER -> -1

\* urlDecode: the two characters behind a '%' are one; if the first is no hex
\* digit sscanf sets nothing, and the character is whatever was there: -1.
Decoded(two) ==
  LET first == IF two = <<>> THEN -1 ELSE HexValue(two[1])
      second == IF Len(two) < 2 THEN -1 ELSE HexValue(two[2])
  IN IF first = -1 THEN -1 ELSE IF second = -1 THEN first ELSE 16 * first + second
UrlDecode(src) ==
  LET n == Len(src)
      from[i \in 1 .. n + 3] ==
        CASE i > n -> <<>>
          [] i <= n /\ src[i] = PERCENT ->
               <<Decoded(SubSeq(src, i + 1, Min({i + 2, n})))>> \o from[i + 3]
          [] OTHER -> <<src[i]>> \o from[i + 1]
  IN from[1]

\* The names between commas; those that are empty are not joined.
Names(text) ==
  LET n == Len(text)
      from[i \in 1 .. n + 1] ==
        LET name == ReadUntil(Skip(text, i - 1), COMMA)
        IN IF i > n THEN <<>>
           ELSE (IF name = <<>> THEN <<>> ELSE <<name>>) \o
                (IF i + Len(name) > n THEN <<>> ELSE from[i + Len(name) + 1])
  IN from[1]

\* handle, up to the search for the network, of what was parsed and the decoded
\* fragment; irc and ircs have no port of their own.
Ircs == <<105, 114, 99, 115>>
Wanted(res, text) ==
  LET withSSL == res.protocol = Ircs
  IN [accepted |-> res.valid /\ res.host # <<>>, host |-> res.host, withSSL |-> withSSL,
      port |-> IF res.port = -1 THEN (IF withSSL THEN 6697 ELSE 6667) ELSE res.port,
      channels |-> Names(text)]
-----------------------------------------------------------------------------
(* Properties                                                               *)

LOCAL h == 104
LOCAL Hosts == {<<h>>, <<h, 46, h>>, <<OPEN, COLON, COLON, 49, CLOSE>>}
LOCAL Ports == {<<>>, <<55>>, <<54, 54, 57, 55>>, <<54, 53, 53, 51, 54>>, <<48>>, <<h>>}
LOCAL Rooms == {<<>>, <<<<HASH, h>>>>, <<<<HASH, h>>, <<HASH, SP, COLON>>>>,
                <<<<HASH, PERCENT>>, <<HASH, SLASH>>, <<HASH, QUERY, 64>>>>}
\* A character of a channel name, escaped where it could be taken for another.
LOCAL Hex(n) == IF n < 10 THEN 48 + n ELSE 87 + n
LOCAL Escape(c) == IF c \in {SP, PERCENT, QUERY} THEN <<PERCENT, Hex(c \div 16), Hex(c % 16)>>
                   ELSE <<c>>
LOCAL Escaped(name) == FoldLeft(LAMBDA s, c : s \o Escape(c), <<>>, name)
LOCAL Between(seqs, sep) ==
  FoldLeft(LAMBDA s, p : IF s = <<>> THEN p ELSE s \o <<sep>> \o p, <<>>, seqs)

\* URLs of every kind of part, each with what it asks for.
LOCAL PortOf(port, ssl) ==
  CASE port = <<55>> -> 7
    [] port = <<54, 54, 57, 55>> -> 6697
    [] OTHER -> IF ssl THEN 6697 ELSE 6667
LOCAL Urls ==
  {[url |-> (IF ssl THEN Ircs ELSE Front(Ircs)) \o <<COLON, SLASH, SLASH>> \o user \o host
            \o (IF port = <<>> THEN <<>> ELSE <<COLON>> \o port) \o <<SLASH>> \o path \o query
            \o Between([i \in DOMAIN rooms |-> Escaped(rooms[i])], COMMA),
    asks |-> [accepted |-> TRUE, host |-> host, withSSL |-> ssl, port |-> PortOf(port, ssl),
              channels |-> rooms]] :
     ssl \in BOOLEAN, host \in Hosts, port \in Ports, rooms \in Rooms,
     user \in {<<>>, <<h, AT>>, <<h, COLON, h, AT>>},
     path \in {<<>>, <<h>>, <<h, SLASH, COLON, AT>>}, query \in {<<>>, <<QUERY, h, SLASH>>}}

\* url_parser.cc and url_handler.cc:138-160: whatever address, port, user, path,
\* query and channels a URL is made of, those are the host, the port and the
\* channels that are connected to and joined.
PartsOfUrlRead ==
  \A u \in Urls : \E res \in {ParseParts(u.url)} : \E text \in {UrlDecode(res.fragment)} :
    Wanted(res, text) = u.asks

\* url_parser.cc:166-326: no text makes the parts overlap: of whatever is
\* accepted, the parts in their order are the text.
PartsOfUrlOrdered ==
  \A n \in 0 .. 5 : \A text \in [1 .. n -> {h, COLON, SLASH, AT, HASH, OPEN}] :
    LET r == ParseURL(<<h, COLON, SLASH, SLASH>> \o text)
    IN r.valid =>
         /\ SelectSeq(r.user \o r.password \o r.host \o r.port \o r.path \o r.query \o r.fragment,
                      LAMBDA c : c \notin {COLON, SLASH, AT})
              = SelectSeq(text, LAMBDA c : c \notin {COLON, SLASH, AT})
         /\ ~Has(r.port, SLASH) /\ ~Has(r.path, HASH)
         /\ ~IsNext(r.host, OPEN) => ~Has(r.host, COLON) /\ ~Has(r.host, SLASH)

UrlsRead == PartsOfUrlRead /\ PartsOfUrlOrdered
=============================================================================
