----------------------------- MODULE UrlHandler -----------------------------
(***************************************************************************)
(* Instances of the program that are started with an irc:// URL, the socket *)
(* file in /tmp over which a new one hands its URL to a running one, and    *)
(* what the one that handles a URL does with the network it names           *)
(* (url_handler.cc, AppState::start).  URL j names channel j of one         *)
(* network.  UrlParser is how a URL is read, IrcConnection what a client    *)
(* does.  Left out: macOS's handler, a socket() that fails, the length of   *)
(* its queue, connections to the server that fail or break, channels        *)
(* joined by hand.                                                          *)
(***************************************************************************)
EXTENDS Naturals, SequencesExt

CONSTANTS Instances,   \* bound: processes, numbered in the order they start
          Configured,  \* what the configuration may say of the network
          MaxIncidents \* bound: kills from outside, /disconnects, /delservers

ASSUME UrlHandlerAssumption ==
  /\ Instances \in Nat /\ MaxIncidents \in Nat
  /\ Configured \subseteq {"absent", "idle", "opening"}

Instance == 1 .. Instances    \* each with a URL of its own
Nobody == 0

VARIABLES pc,        \* where an instance is between start and end
          path,      \* the instance whose socket the file names, or Nobody
          listening, \* its socket accepts connections
          queue,     \* instances that have connected to it, not accepted yet
          serving,   \* the connection its tick has accepted, or Nobody
          peer,      \* the instance that an instance has connected to
          sent,      \* it has written its URL there
          answer,    \* what it finds there: nothing yet, "received", an end
          net,       \* an instance's client of the network
          chan,      \* what an instance has done for URL j
          handled,   \* history: handle ran for URL j in this instance
          incidents  \* how many of those there were

wire == <<path, listening, queue, serving, peer, sent, answer>>
work == <<net, chan, handled>>
vars == <<pc, wire, work, incidents>>

Living == {i \in Instance : pc[i] \notin {"off", "done", "ended", "crashed"}}

\* Where an instance is before and after it has become the program.
Starts == {"try", "send", "wait", "open", "bind", "listen", "own"}
Entered == {"loop", "joining", "deleting", "hung", "leaving", "parting", "parted", "closing",
            "ended"}
Phase == {"absent", "idle", "opening", "registering", "greeting", "up", "left"}
Wish == {"no", "waiting", "early", "asked", "quit"}

TypeOK ==
  /\ pc \in [Instance -> {"off", "done", "crashed"} \cup Starts \cup Entered]
  /\ path \in Instance \cup {Nobody}
  /\ listening \in [Instance -> BOOLEAN]
  /\ queue \in [Instance -> Seq(Instance)]
  /\ serving \in [Instance -> Instance \cup {Nobody}]
  /\ peer \in [Instance -> Instance \cup {Nobody}]
  /\ sent \in [Instance -> BOOLEAN]
  /\ answer \in [Instance -> {"none", "received", "end"}]
  /\ net \in [Instance -> Phase]
  /\ chan \in [Instance -> [Instance -> Wish]]
  /\ handled \in [Instance -> [Instance -> BOOLEAN]]
  /\ incidents \in 0 .. MaxIncidents

Init ==
  /\ pc = [i \in Instance |-> "off"]
  /\ path = Nobody
  /\ listening = [i \in Instance |-> FALSE]
  /\ queue = [i \in Instance |-> <<>>]
  /\ serving = [i \in Instance |-> Nobody]
  /\ peer = [i \in Instance |-> Nobody]
  /\ sent = [i \in Instance |-> FALSE]
  /\ answer = [i \in Instance |-> "none"]
  /\ net = [i \in Instance |-> "absent"]
  /\ chan = [i \in Instance |-> [j \in Instance |-> "no"]]
  /\ handled = [i \in Instance |-> [j \in Instance |-> FALSE]]
  /\ incidents = 0

Goto(i, point) == pc' = [pc EXCEPT ![i] = point]
-----------------------------------------------------------------------------
(* The end of a process                                                     *)

\* Its connections that have not been answered end.
Ends(answers, them) ==
  [j \in Instance |-> IF j \in them /\ answers[j] = "none" THEN "end" ELSE answers[j]]
Connected(i) == ToSet(queue[i]) \cup {serving[i]}

\* Mutant: what is queued is left to wait.
CloseSocketOnly(i) ==
  /\ listening' = [listening EXCEPT ![i] = FALSE]
  /\ queue' = [queue EXCEPT ![i] = <<>>]
  /\ UNCHANGED <<serving, answer>>

\* close(sock_fd), by the destructor or the system.
CloseSocket(i) ==
  /\ listening' = [listening EXCEPT ![i] = FALSE]
  /\ queue' = [queue EXCEPT ![i] = <<>>]
  /\ serving' = [serving EXCEPT ![i] = Nobody]
  /\ answer' = Ends(answer, Connected(i))

\* Nothing is left of its network.
NoNetwork(i) ==
  /\ net' = [net EXCEPT ![i] = "absent"]
  /\ chan' = [chan EXCEPT ![i] = [j \in Instance |-> "no"]]

\* The file stays, and what it has written to its peer.
Dies(i) ==
  /\ Goto(i, "crashed") /\ CloseSocket(i) /\ NoNetwork(i)
  /\ UNCHANGED <<path, peer, sent>>

Kill(i) ==
  /\ i \in Living
  /\ incidents < MaxIncidents
  /\ incidents' = incidents + 1
  /\ Dies(i)
  /\ UNCHANGED handled
-----------------------------------------------------------------------------
(* UrlHandler::maybeSend                                                    *)

Start(i) ==
  /\ pc[i] = "off"
  /\ \A k \in 1 .. i - 1 : pc[k] # "off"
  /\ Goto(i, "try")
  /\ UNCHANGED <<wire, work, incidents>>

\* The file exists and connect() succeeds, or this instance is the program.
Try(i) ==
  /\ pc[i] = "try"
  /\ IF path # Nobody /\ listening[path]
     THEN /\ queue' = [queue EXCEPT ![path] = Append(@, i)]
          /\ peer' = [peer EXCEPT ![i] = path]
          /\ Goto(i, "send")
     ELSE Goto(i, "open") /\ UNCHANGED <<queue, peer>>
  /\ UNCHANGED <<path, listening, serving, sent, answer, work, incidents>>

\* Writing to an end that was closed is a SIGPIPE, which nothing handles.
Send(i) ==
  /\ pc[i] = "send"
  /\ IF answer[i] = "end"
     THEN Dies(i)
     ELSE /\ Goto(i, "wait")
          /\ sent' = [sent EXCEPT ![i] = TRUE]
          /\ UNCHANGED <<path, listening, queue, serving, peer, answer, net, chan>>
  /\ UNCHANGED <<handled, incidents>>

\* Mutant: the length of what was received is not looked at.
WaitAny(i) ==
  /\ pc[i] = "wait"
  /\ answer[i] # "none"
  /\ Goto(i, "done")
  /\ UNCHANGED <<wire, work, incidents>>

\* recv: "received", or an end, after which this instance is the program.
Wait(i) ==
  /\ pc[i] = "wait"
  /\ \/ /\ answer[i] = "received" /\ Goto(i, "done")
        /\ UNCHANGED <<peer, sent, answer>>
     \/ /\ answer[i] = "end" /\ Goto(i, "open")
        /\ peer' = [peer EXCEPT ![i] = Nobody]
        /\ sent' = [sent EXCEPT ![i] = FALSE]
        /\ answer' = [answer EXCEPT ![i] = "none"]
  /\ UNCHANGED <<path, listening, queue, serving, work, incidents>>
-----------------------------------------------------------------------------
(* handle                                                                   *)

\* What becomes of the client and the channel.  A network that is not there is
\* added, to join when it is registered; one that is there is written to: a JOIN
\* a server takes, one it refuses before the registration, or no socket.
Asked(i, j) ==
  CASE net[i] = "absent"    -> <<"opening", "waiting">>
    [] net[i] \in {"registering", "greeting"}  -> <<net[i], "early">>
    [] net[i] = "up"        -> <<net[i], "asked">>
    [] net[i] \in {"opening", "idle", "left"} -> <<net[i], "crash">>

Noted(i, j) == handled' = [handled EXCEPT ![i][j] = TRUE]
Handle(i, j) ==
  LET new == Asked(i, j)
  IN /\ net' = [net EXCEPT ![i] = new[1]]
     /\ chan' = [chan EXCEPT ![i][j] = new[2]]
     /\ Noted(i, j)
Crashes(i, j) == Asked(i, j)[2] = "crash"

-----------------------------------------------------------------------------
(* The network: the connection thread                                       *)

\* The socket exists, and the registration is being written.
OpenSocket(i) ==
  /\ i \in Living
  /\ net[i] = "opening"
  /\ net' = [net EXCEPT ![i] = "registering"]
  /\ UNCHANGED <<pc, wire, chan, handled, incidents>>

\* state = Connected, over the Disconnected of a disconnect() that waits for the
\* thread and will do so for ever.
Greet(i) ==
  /\ i \in Living
  /\ net[i] = "registering"
  /\ net' = [net EXCEPT ![i] = "greeting"]
  /\ IF pc[i] \in {"joining", "deleting"} THEN Goto(i, "hung") ELSE UNCHANGED pc
  /\ UNCHANGED <<wire, chan, handled, incidents>>

\* Mutant: nothing joins on 001.
RegisterOnly(i) ==
  /\ i \in Living
  /\ net[i] = "greeting"
  /\ net' = [net EXCEPT ![i] = "up"]
  /\ UNCHANGED <<pc, wire, chan, handled, incidents>>

\* 001 asks for the channels of preJoin.
Register(i) ==
  /\ i \in Living
  /\ net[i] = "greeting"
  /\ net' = [net EXCEPT ![i] = "up"]
  /\ chan' = [chan EXCEPT ![i] = [j \in Instance |-> IF @[j] = "waiting" THEN "asked" ELSE @[j]]]
  /\ UNCHANGED <<pc, wire, handled, incidents>>

\* The loop finds Disconnected, disconnect() returns and reset() forgets what is
\* joined; preJoin is kept, unless the client is deleted.
Quit(of) == IF of \in {"asked", "early"} THEN "quit" ELSE of
Deleted(of) == IF of = "no" THEN "no" ELSE "quit"
EndConnection(i) ==
  /\ net[i] \in {"greeting", "up"}
  /\ \/ /\ pc[i] \in {"joining", "parting"}
        /\ Goto(i, IF pc[i] = "joining" THEN "loop" ELSE "parted")
        /\ net' = [net EXCEPT ![i] = "left"]
        /\ chan' = [chan EXCEPT ![i] = [j \in Instance |-> Quit(@[j])]]
     \/ /\ pc[i] = "deleting"
        /\ Goto(i, "loop")
        /\ net' = [net EXCEPT ![i] = "absent"]
        /\ chan' = [chan EXCEPT ![i] = [j \in Instance |-> Deleted(@[j])]]
  /\ UNCHANGED <<wire, handled, incidents>>
-----------------------------------------------------------------------------
(* The network: the user                                                    *)

\* A network is chosen when it is not idle, and stays so when it is left.
Chosen(i) ==
  /\ pc[i] = "loop" /\ serving[i] = Nobody
  /\ net[i] \notin {"absent", "idle"}
  /\ incidents < MaxIncidents
  /\ incidents' = incidents + 1

\* /disconnect writes a QUIT, through a null pointer if there is no socket, and
\* waits for the connection thread.
Disconnect(i) ==
  /\ Chosen(i)
  /\ IF net[i] \in {"opening", "left"}
     THEN Dies(i)
     ELSE Goto(i, "joining") /\ UNCHANGED <<wire, net, chan>>
  /\ UNCHANGED handled

\* /delserver writes only to a network that is connected.
Delete(i) ==
  /\ Chosen(i)
  /\ IF net[i] = "left"
     THEN /\ net' = [net EXCEPT ![i] = "absent"]
          /\ chan' = [chan EXCEPT ![i] = [j \in Instance |-> Deleted(@[j])]]
          /\ UNCHANGED pc
     ELSE Goto(i, "deleting") /\ UNCHANGED <<net, chan>>
  /\ UNCHANGED <<wire, handled>>

\* The user chooses a network that is not connected.
Connect(i) ==
  /\ pc[i] = "loop" /\ serving[i] = Nobody
  /\ net[i] \in {"idle", "left"}
  /\ net' = [net EXCEPT ![i] = "opening"]
  /\ UNCHANGED <<pc, wire, chan, handled, incidents>>
-----------------------------------------------------------------------------
(* An instance that is the program                                          *)

\* IrcEventHandler::init with the networks of the configuration, then unlink in
\* the constructor of UrlHandler.
Open(i) ==
  /\ pc[i] = "open"
  /\ Goto(i, "bind")
  /\ \E known \in Configured : net' = [net EXCEPT ![i] = known]
  /\ path' = Nobody
  /\ UNCHANGED <<listening, queue, serving, peer, sent, answer, chan, handled, incidents>>

\* bind fails if the file was made in between; the program goes on all the same.
Bind(i) ==
  /\ pc[i] = "bind"
  /\ IF path = Nobody THEN path' = i /\ Goto(i, "listen") ELSE UNCHANGED path /\ Goto(i, "own")
  /\ UNCHANGED <<listening, queue, serving, peer, sent, answer, work, incidents>>

Listen(i) ==
  /\ pc[i] = "listen"
  /\ listening' = [listening EXCEPT ![i] = TRUE]
  /\ Goto(i, "own")
  /\ UNCHANGED <<path, queue, serving, peer, sent, answer, work, incidents>>

HandleOwn(i) ==
  /\ pc[i] = "own"
  /\ IF Crashes(i, i) THEN Dies(i) /\ UNCHANGED handled
     ELSE Goto(i, "loop") /\ Handle(i, i) /\ UNCHANGED wire
  /\ UNCHANGED incidents

\* tick: select and accept.
Accept(i) ==
  /\ pc[i] = "loop" /\ serving[i] = Nobody
  /\ queue[i] # <<>>
  /\ serving' = [serving EXCEPT ![i] = Head(queue[i])]
  /\ queue' = [queue EXCEPT ![i] = Tail(@)]
  /\ UNCHANGED <<pc, path, listening, peer, sent, answer, work, incidents>>

\* tick: recv blocks until there is something or nobody; handle, answer, close.
Serve(i) ==
  LET j == serving[i]
  IN /\ pc[i] = "loop" /\ j # Nobody
     /\ \/ /\ sent[j] /\ Crashes(i, j)
           /\ Dies(i) /\ UNCHANGED handled
        \/ /\ sent[j] /\ ~Crashes(i, j) /\ pc[j] = "crashed"
           /\ Noted(i, j) /\ Dies(i)               \* the answer is a SIGPIPE
        \/ /\ sent[j] /\ ~Crashes(i, j) /\ pc[j] # "crashed"
           /\ Handle(i, j)
           /\ serving' = [serving EXCEPT ![i] = Nobody]
           /\ answer' = [answer EXCEPT ![j] = "received"]
           /\ UNCHANGED <<pc, path, listening, queue, peer, sent>>
        \/ /\ ~sent[j] /\ pc[j] = "crashed"
           /\ serving' = [serving EXCEPT ![i] = Nobody]
           /\ UNCHANGED <<pc, path, listening, queue, peer, sent, answer, work>>
     /\ UNCHANGED incidents

\* It is killed between handle and the answer.
KillServing(i) ==
  LET j == serving[i]
  IN /\ pc[i] = "loop" /\ j # Nobody
     /\ sent[j] /\ ~Crashes(i, j)
     /\ incidents < MaxIncidents
     /\ incidents' = incidents + 1
     /\ Noted(i, j) /\ Dies(i)

\* The window is closed, the channels are saved.
Leave(i) ==
  /\ pc[i] = "loop" /\ serving[i] = Nobody
  /\ Goto(i, "leaving")
  /\ UNCHANGED <<wire, work, incidents>>

\* closeAll waits for the thread of a network that is connected.
CloseAll(i) ==
  /\ pc[i] = "leaving"
  /\ Goto(i, IF net[i] \in {"greeting", "up"} THEN "parting" ELSE "parted")
  /\ UNCHANGED <<wire, work, incidents>>

\* The destructor closes the socket.
Close(i) ==
  /\ pc[i] = "parted"
  /\ Goto(i, "closing")
  /\ CloseSocket(i)
  /\ UNCHANGED <<path, peer, sent, work, incidents>>

\* It unlinks the file, whoever made it.
Unlink(i) ==
  /\ pc[i] = "closing"
  /\ Goto(i, "ended")
  /\ path' = Nobody
  /\ NoNetwork(i)
  /\ UNCHANGED <<listening, queue, serving, peer, sent, answer, handled, incidents>>

Step(i) ==
  \/ Try(i) \/ Send(i) \/ Wait(i) \/ Open(i) \/ Bind(i) \/ Listen(i) \/ HandleOwn(i)
  \/ Accept(i) \/ Serve(i) \/ CloseAll(i) \/ Close(i) \/ Unlink(i)

Next ==
  \E i \in Instance :
    \/ Step(i)
    \/ Start(i) \/ Leave(i) \/ Kill(i) \/ KillServing(i)
    \/ OpenSocket(i) \/ Greet(i) \/ Register(i) \/ EndConnection(i)
    \/ Disconnect(i) \/ Delete(i) \/ Connect(i)

\* The program's own steps are taken, and a connection thread whose loop is to end
\* ends it; nobody has to start, close or kill an instance, and no server has to
\* answer.
Spec ==
  /\ Init /\ [][Next]_vars
  /\ \A i \in Instance : WF_vars(Step(i)) /\ WF_vars(EndConnection(i))
-----------------------------------------------------------------------------
(* Properties                                                               *)

\* url_handler.cc:57-86,114-134: a URL that an instance was started with is not
\* lost and not handled twice when that instance goes on or leaves: it is handled
\* by itself or by the one that said "received"; twice only if the first of the
\* two died in between.
Handlers(j) == {i \in Instance : handled[i][j]}
HandledOnce ==
  \A j \in Instance :
    /\ pc[j] \in Entered \cup {"done"} => Handlers(j) # {}
    /\ pc[j] = "done" => ~handled[j][j] /\ handled[peer[j]][j]
    /\ \A i, k \in Handlers(j) : i # k => pc[i] = "crashed" \/ pc[k] = "crashed"

\* url_handler.cc:161-180, irc_event_handler.cc:85-100,193-227,243-247,
\* irc_client.cc:91-108: the channel of a URL that was handled is never forgotten
\* before it was asked for, whenever the user disconnects and connects again: it
\* waits for as long as its network is not registered, and once that is it has been
\* asked for, until the user leaves.  Not so one that was asked for too early, and
\* one whose network is deleted.
UrlJoins ==
  \A i \in Living, j \in Instance :
    /\ handled[i][j] <=> chan[i][j] # "no"
    /\ chan[i][j] = "waiting" => net[i] \in {"opening", "registering", "greeting", "left"}
    /\ chan[i][j] = "asked" => net[i] = "up"

\* url_handler.cc:87-136: an instance that was started with a URL does not wait
\* for ever for the one it gave it to: it leaves, or it is the program, or died,
\* unless the other one is in a disconnect() that was begun before the registration
\* was written, which never returns (irc_client.cc:30,96-100).
NeverReturns(i) ==
  \/ pc[i] = "hung"
  \/ pc[i] \in {"joining", "deleting"} /\ net[i] \in {"opening", "registering"}
StartsEnd ==
  \A i \in Instance :
    pc[i] \in Starts ~> pc[i] \notin Starts \/ (peer[i] # Nobody /\ NeverReturns(peer[i]))
-----------------------------------------------------------------------------
(* What makes HandledOnce and UrlJoins inductive                            *)

NoDup(s) == \A m, n \in DOMAIN s : s[m] = s[n] => m = n

\* Nothing was asked of an instance that is not yet in its loop.
Fresh ==
  \A i \in Instance :
    pc[i] \in {"off"} \cup Starts =>
      \A j \in Instance : chan[i][j] = "no" /\ ~handled[i][j]

\* An instance handles its own URL when it enters its loop.
Own ==
  \A j \in Instance :
    /\ pc[j] \in Entered => handled[j][j]
    /\ handled[j][j] => pc[j] \in Entered \cup {"crashed"}

\* Who is connected waits for an answer there, and is connected once.
Linked ==
  \A i \in Instance :
    /\ \A j \in Connected(i) \ {Nobody} :
         peer[j] = i /\ answer[j] = "none" /\ pc[j] \in {"send", "wait", "crashed"}
    /\ NoDup(queue[i]) /\ serving[i] \notin ToSet(queue[i])

\* Nothing is written before the connection, or answered.
Silent ==
  \A j \in Instance :
    /\ pc[j] \in {"off", "try", "send"} => ~sent[j]
    /\ pc[j] \in {"off", "try"} => answer[j] = "none"

\* "received" is said by the one that handled it.
Answered ==
  \A j \in Instance :
    /\ answer[j] = "received" => /\ pc[j] \in {"wait", "done", "crashed"}
                                 /\ peer[j] \in Instance /\ handled[peer[j]][j]
    /\ pc[j] = "done" => answer[j] = "received"

\* Another one that handled it has said so, or died.
Elsewhere ==
  \A i, j \in Instance :
    i # j /\ handled[i][j] => pc[i] = "crashed" \/ (answer[j] = "received" /\ peer[j] = i)

Handed == Own /\ Linked /\ Silent /\ Answered /\ Elsewhere
IInv == TypeOK /\ Handed /\ Fresh /\ UrlJoins
=============================================================================
