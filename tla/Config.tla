------------------------------- MODULE Config -------------------------------
(***************************************************************************)
(* DecConfig (src/src/utils/config.cc), the networks a user adds with       *)
(* /ADDSERVER and what is left of them after a restart.  A configuration is *)
(* the program's copy and the file; JSON keeps texts, numbers and truth     *)
(* values as they are.  A word of a command is one character here.          *)
(***************************************************************************)
EXTENDS MessageParser

EQUALS == 61   QUOTE == 34   TRUEWORD == 300

\* The words that /ADDSERVER knows, and IrcClient's fields they set.
TextField == 301 :> "given_name" @@ 302 :> "nick" @@ 303 :> "username" @@ 304 :> "realname"
             @@ 305 :> "password" @@ 306 :> "password"
Switch == 307 :> "useTLS" @@ 308 :> "autoConnect" @@ 309 :> "verifySSL"
PORTWORD == 310

\* IrcClient::IrcClient(host)
NewClient(host) ==
  [host |-> host, port |-> 6697, nick |-> <<>>, username |-> <<>>, realname |-> <<>>,
   password |-> <<>>, useTLS |-> FALSE, verifySSL |-> FALSE, autoConnect |-> FALSE,
   notifyMap |-> <<>>, given_name |-> <<>>, throws |-> FALSE]

\* One key of /ADDSERVER and its value; std::stoi throws at what is no int, and
\* port has 16 bits.
SetField(client, key, value) ==
  LET word == IF Len(key) = 1 THEN key[1] ELSE 0
  IN IF word \in DOMAIN TextField THEN [client EXCEPT ![TextField[word]] = value]
     ELSE IF word \in DOMAIN Switch THEN [client EXCEPT ![Switch[word]] = value = <<TRUEWORD>>]
     ELSE IF word = PORTWORD
     THEN IF Stoi(value) = {} THEN [client EXCEPT !.throws = TRUE]
          ELSE [client EXCEPT !.port = (CHOOSE n \in Stoi(value) : TRUE) % 65536]
     ELSE client

\* The arguments of /ADDSERVER: the host, then pairs, a value quoted or one word.
AddServer(args) ==
  LET Pair(r) ==
        LET behind == SkipUntil(r.rest, EQUALS)
            quoted == IsNext(behind, QUOTE)
            text == IF quoted THEN Skip(behind, 1) ELSE behind
            end == IF quoted THEN QUOTE ELSE SP
            after == IF quoted THEN SkipUntil(text, QUOTE) ELSE From(text, SP)
        IN [client |-> SetField(r.client, ReadUntil(r.rest, EQUALS), ReadUntil(text, end)),
            rest |-> Skip(after, 1)]
  IN ReadLoop(Pair, [client |-> NewClient(ReadUntil(args, SP)), rest |-> AfterWord(args)]).client
-----------------------------------------------------------------------------
(* The file                                                                 *)

\* The file: a set of the one configuration in it, empty if there is none.
NoFile == {}
Start(file) == [loaded |-> FALSE, root |-> <<>>, file |-> file]

\* load: only the first time.
Load(config) ==
  IF config.loaded THEN config
  ELSE [config EXCEPT !.loaded = TRUE, !.root = IF config.file = NoFile THEN @
                                          ELSE CHOOSE root \in config.file : TRUE]

\* save
Save(config) == [config EXCEPT !.file = {config.root}]

\* getCacheSize, getFontSize, getFallbackUserName: what the file does not say.
Setting(config, key, otherwise) ==
  LET root == Load(config).root IN IF key \in DOMAIN root THEN root[key] ELSE otherwise

Always == {"host", "port", "nick", "useTLS", "verifySSL"}
OnlyIfSet == {"username", "password", "realname", "autoConnect", "notifyMap"}
Entry(client) ==
  Restrict(client, Always \cup {f \in OnlyIfSet : client[f] # NewClient(<<>>)[f]})

\* saveClients: of two networks of one name the later one stays.
SaveClients(config, clients) ==
  Save([config EXCEPT !.root =
    ("networks" :> FoldLeft(LAMBDA cls, client : client.given_name :> Entry(client) @@ cls,
                            <<>>, clients)) @@ @])

\* loadClients: what an entry does not say is as in a new client.
LoadClients(config) ==
  LET networks == Setting(config, "networks", <<>>)
  IN {networks[key] @@ [NewClient(networks[key].host) EXCEPT !.given_name = key] :
        key \in DOMAIN networks}
-----------------------------------------------------------------------------
(* Properties                                                               *)

LOCAL a == 97
LOCAL Values == {<<a>>, <<a, SP, EQUALS, a>>}
LOCAL Typed(key, value) == <<key, EQUALS, QUOTE>> \o value \o <<QUOTE, SP>>
LOCAL Written(client) ==
  client.host \o <<SP>>
  \o Typed(309, IF client.verifySSL THEN <<TRUEWORD>> ELSE <<a>>)
  \o Typed(301, client.given_name) \o Typed(302, client.nick)
  \o (IF client.password = <<>> THEN <<>> ELSE Typed(306, client.password))
  \o <<PORTWORD, EQUALS, 55, SP>>
  \o (IF client.useTLS THEN <<307, EQUALS, TRUEWORD, SP>> ELSE <<>>)
  \o Typed(304, client.realname)
  \o <<308, EQUALS>> \o (IF client.autoConnect THEN <<TRUEWORD>> ELSE <<a>>)
LOCAL Samples ==
  {[NewClient(<<a, a>>) EXCEPT !.port = 7, !.given_name = name, !.nick = nick, !.realname = real,
     !.password = pass, !.useTLS = tls, !.verifySSL = verify, !.autoConnect = auto] :
     name \in Values, nick \in Values, real \in {<<>>, <<a, a, SP>>}, pass \in {<<>>, <<a>>},
     tls \in BOOLEAN, verify \in BOOLEAN, auto \in BOOLEAN}

\* irc_event_handler.cc:537-581: however the pairs are quoted and ordered, the
\* client has the fields the user gave and the others as in a new client.
TypedServerRead == \A client \in Samples : AddServer(Written(client)) = client

\* config.cc:15-49,123-195: after a restart the networks are those that were
\* there, with all their fields and notify settings, as long as their names
\* differ; of two of one name the later one is left; other settings stay.
ClientsKept ==
  \A one \in Samples, two \in {c \in Samples : ~c.useTLS /\ c.password = <<>>},
     chans \in {<<>>, <<a>> :> TRUE, <<a>> :> FALSE @@ <<a, a>> :> TRUE},
     file \in {NoFile, {[font_size |-> 40]}} :
    LET first == [one EXCEPT !.notifyMap = chans]
        again == Start(SaveClients(Load(Start(file)), <<first, two>>).file)
    IN /\ LoadClients(again) = IF one.given_name = two.given_name THEN {two} ELSE {first, two}
       /\ Setting(again, "font_size", 38) = IF file = NoFile THEN 38 ELSE 40
       /\ Setting(again, "cache_size", 500) = 500

ConfigSurvives == TypedServerRead /\ ClientsKept
=============================================================================
