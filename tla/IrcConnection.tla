--------------------------- MODULE IrcConnection ---------------------------
(***************************************************************************)
(* One IrcClient (src/src/irc/irc_client.cc): the connection thread that    *)
(* connect() starts, its registration, keep-alive and reconnect loop, and   *)
(* the GUI thread that connects, writes to, disconnects and deletes the     *)
(* same client.  The threads share the plain fields "state" and "socket".   *)
(* One step is one access of a thread to a shared field or to the network.  *)
(* A line of the server is its kind; LineBuffer is how lines are cut.       *)
(***************************************************************************)
EXTENDS Naturals, Sequences

CONSTANTS HasPassword,   \* the network was added with pass=...
          PingAfter,     \* 60 s of silence: the client sends a PING
          DeadAfter,     \* 65 s of silence: the client reconnects
          MaxInbox       \* bound: lines of the server waiting to be read

ASSUME IrcConnectionAssumption ==
  /\ HasPassword \in BOOLEAN
  /\ PingAfter \in Nat /\ DeadAfter \in Nat /\ PingAfter < DeadAfter
  /\ MaxInbox \in Nat

VARIABLES state,         \* IrcClient::state
          thread,        \* connection_thread # nullptr
          pc,            \* where the connection thread is
          sock,          \* what IrcClient::socket points to
          send_ping,     \* IrcClient::send_ping
          emittedError,  \* the local flag of the connection thread
          again,         \* it is in the registration after an outage
          quiet,         \* now - last_ping, up to DeadAfter + 1
          gui,           \* where the GUI thread is
          op,            \* the operation that made it call disconnect()
          selected,      \* IrcEventHandler::active_network is this client
          link,          \* the TCP connection carries data
          inbox,         \* lines of the server not read yet
          owed,          \* a PING of the client is unanswered
          notified,      \* history: the error callback ran in this outage
          pinged,        \* history: a PING was sent, nothing came since
          inherited      \* history: send_ping when connect() was called

client == <<state, thread, pc, sock, send_ping, emittedError, again, quiet>>
user == <<gui, op, selected>>
net == <<link, inbox, owed>>
history == <<notified, pinged, inherited>>
vars == <<client, user, net, history>>

\* Authenticated is declared in irc_client.h and never assigned.
ConnectionState == {"Idle", "Connecting", "Connected", "Disconnected", "Failed"}

ThreadPoints ==
  {"none", "open", "refused", "pass", "nick", "user", "registered", "loop",
   "ping", "read", "outage", "close", "delete", "reopen", "retest", "leave",
   "done"}

GuiPoints ==
  {"idle", "quit", "mark", "join", "free", "reset", "crashed", "gone"}

Kinds == {"PING", "PONG", "OTHER"}

TypeOK ==
  /\ state \in ConnectionState
  /\ thread \in BOOLEAN
  /\ pc \in ThreadPoints
  /\ sock \in {"null", "open", "failed", "closed", "freed"}
  /\ send_ping \in BOOLEAN
  /\ emittedError \in BOOLEAN
  /\ again \in BOOLEAN
  /\ quiet \in 0 .. DeadAfter + 1
  /\ gui \in GuiPoints
  /\ op \in {"none", "disconnect", "delete", "exit"}
  /\ selected \in BOOLEAN
  /\ link \in {"up", "down"}
  /\ inbox \in Seq(Kinds)
  /\ owed \in BOOLEAN
  /\ notified \in BOOLEAN
  /\ pinged \in BOOLEAN
  /\ inherited \in BOOLEAN

Init ==
  /\ state = "Idle" /\ thread = FALSE /\ pc = "none" /\ sock = "null"
  /\ send_ping = FALSE /\ emittedError = FALSE /\ again = FALSE /\ quiet = 0
  /\ gui = "idle" /\ op = "none" /\ selected = FALSE
  /\ link = "down" /\ inbox = <<>> /\ owed = FALSE
  /\ notified = FALSE /\ pinged = FALSE /\ inherited = FALSE

\* The process has not crashed, the client object exists.
Alive == gui \notin {"crashed", "gone"}
-----------------------------------------------------------------------------
(* The connection thread                                                   *)

At(point) == Alive /\ pc = point
Goto(point) == pc' = point

\* The first command of a registration.
FirstCommand == IF HasPassword THEN "pass" ELSE "nick"

\* IrcSocket's constructor connects before "socket" is assigned.
Connects ==
  /\ sock' = "open" /\ link' = "up" /\ inbox' = <<>> /\ owed' = FALSE
Refuses ==
  /\ sock' = "failed" /\ link' = "down" /\ inbox' = <<>> /\ owed' = FALSE

OpenSocket ==
  /\ At("open")
  /\ \/ Connects /\ Goto(FirstCommand)
     \/ Refuses /\ Goto("refused")
  /\ UNCHANGED <<state, thread, send_ping, emittedError, again, quiet, user, history>>

GiveUp ==
  /\ At("refused")
  /\ state' = "Failed"
  /\ Goto("done")
  /\ UNCHANGED <<thread, sock, send_ping, emittedError, again, quiet, user, net, history>>

\* One blocking write of PASS, NICK or USER.
WriteCommand ==
  /\ \/ At("pass") /\ Goto("nick")
     \/ At("nick") /\ Goto("user")
     \/ At("user") /\ Goto("registered")
  /\ UNCHANGED <<state, thread, sock, send_ping, emittedError, again, quiet, user, net,
                 history>>

\* Mutant: the state that irc_client.h declares for a registered client.
RegisteredAuthenticated ==
  /\ At("registered")
  /\ state' = "Authenticated"
  /\ quiet' = 0
  /\ Goto(IF again THEN "read" ELSE "loop")
  /\ UNCHANGED <<thread, sock, send_ping, emittedError, again, user, net, history>>

\* After a first registration the loop starts and emittedError is set; after
\* an outage send_ping is reset and the thread goes on to read.
Registered ==
  /\ At("registered")
  /\ state' = "Connected"
  /\ quiet' = 0
  /\ emittedError' = (emittedError /\ again)
  /\ send_ping' = (send_ping /\ ~again)
  /\ Goto(IF again THEN "read" ELSE "loop")
  /\ again' = FALSE
  /\ notified' = FALSE
  /\ pinged' = FALSE
  /\ UNCHANGED <<thread, sock, user, net, inherited>>

\* Mutant: the loop does not look for the mark of disconnect().
EndedByConnect == state = "Connecting"

\* The condition under which the loop of the thread ends.
Ended == state \in {"Connecting", "Disconnected"}

EndLoop ==
  /\ At("loop")
  /\ Ended
  /\ Goto("done")
  /\ UNCHANGED <<state, thread, sock, send_ping, emittedError, again, quiet, user, net,
                 history>>

PingIsDue == quiet > PingAfter /\ quiet <= DeadAfter /\ ~send_ping

\* The condition of the loop and the three branches on the silence.
TestSilence ==
  /\ At("loop")
  /\ ~Ended
  /\ \/ quiet > DeadAfter /\ Goto("outage")
     \/ PingIsDue /\ Goto("ping")
     \/ quiet <= DeadAfter /\ ~PingIsDue /\ Goto("read")
  /\ UNCHANGED <<state, thread, sock, send_ping, emittedError, again, quiet, user, net,
                 history>>

WritePing ==
  /\ At("ping")
  /\ send_ping' = TRUE
  /\ pinged' = TRUE
  /\ owed' = (link = "up")
  /\ Goto("read")
  /\ UNCHANGED <<state, thread, sock, emittedError, again, quiet, user, link, inbox,
                 notified, inherited>>

\* A recv that returns nothing: no data yet, a closed or a dead connection.
ReadNothing ==
  /\ At("read")
  /\ inbox = <<>>
  /\ Goto("loop")
  /\ UNCHANGED <<state, thread, sock, send_ping, emittedError, again, quiet, user, net,
                 history>>

\* Mutant: an answered PING is not noted.
ReadLineForgetsPong ==
  /\ At("read")
  /\ inbox # <<>>
  /\ inbox' = Tail(inbox)
  /\ quiet' = 0
  /\ pinged' = FALSE
  /\ Goto("loop")
  /\ UNCHANGED <<state, thread, sock, send_ping, emittedError, again, user, link,
                 owed, notified, inherited>>

\* handleMessage; a PING is answered with a PONG by the listener.
ReadLine ==
  /\ At("read")
  /\ inbox # <<>>
  /\ inbox' = Tail(inbox)
  /\ send_ping' = (send_ping /\ Head(inbox) \notin {"PING", "PONG"})
  /\ quiet' = 0
  /\ pinged' = FALSE
  /\ Goto("loop")
  /\ UNCHANGED <<state, thread, sock, emittedError, again, user, link, owed,
                 notified, inherited>>

\* ircErrorHandler hands a task to the GUI thread, once per outage.
ReportOutage ==
  /\ At("outage")
  /\ emittedError' = TRUE
  /\ notified' = (notified \/ ~emittedError)
  /\ Goto("close")
  /\ UNCHANGED <<state, thread, sock, send_ping, again, quiet, user, net, pinged,
                 inherited>>

CloseSocket ==
  /\ At("close")
  /\ sock' = "closed"
  /\ link' = "down"
  /\ Goto("delete")
  /\ UNCHANGED <<state, thread, send_ping, emittedError, again, quiet, user, inbox,
                 owed, history>>

DeleteSocket ==
  /\ At("delete")
  /\ sock' = "freed"
  /\ Goto("reopen")
  /\ UNCHANGED <<state, thread, send_ping, emittedError, again, quiet, user, net,
                 history>>

\* "socket" dangles while the constructor connects.
Reopen ==
  /\ At("reopen")
  /\ Connects
  /\ Goto("retest")
  /\ UNCHANGED <<state, thread, send_ping, emittedError, again, quiet, user, history>>

ReopenFails ==
  /\ At("reopen")
  /\ Refuses
  /\ Goto("retest")
  /\ UNCHANGED <<state, thread, send_ping, emittedError, again, quiet, user, history>>

\* Mutant: only disconnect() ends the attempts.
TestReopenedForState ==
  /\ At("retest")
  /\ Goto(IF state = "Disconnected" THEN "leave" ELSE "outage")
  /\ UNCHANGED <<state, thread, sock, send_ping, emittedError, again, quiet, user,
                 net, history>>

TestReopened ==
  /\ At("retest")
  /\ Goto(IF sock = "open" \/ state = "Disconnected" THEN "leave" ELSE "outage")
  /\ UNCHANGED <<state, thread, sock, send_ping, emittedError, again, quiet, user, net,
                 history>>

\* Mutant: emittedError is not reset.
LeaveOutageSilenced ==
  /\ At("leave")
  /\ again' = TRUE
  /\ Goto(IF state = "Disconnected" THEN "done" ELSE FirstCommand)
  /\ UNCHANGED <<state, thread, sock, send_ping, emittedError, quiet, user, net,
                 history>>

LeaveOutage ==
  /\ At("leave")
  /\ emittedError' = FALSE
  /\ again' = TRUE
  /\ Goto(IF state = "Disconnected" THEN "done" ELSE FirstCommand)
  /\ UNCHANGED <<state, thread, sock, send_ping, quiet, user, net, history>>

ThreadStep ==
  \/ OpenSocket \/ GiveUp \/ WriteCommand \/ Registered \/ EndLoop
  \/ TestSilence \/ WritePing \/ ReadNothing \/ ReadLine \/ ReportOutage
  \/ CloseSocket \/ DeleteSocket \/ Reopen \/ ReopenFails \/ TestReopened
  \/ LeaveOutage
-----------------------------------------------------------------------------
(* The GUI thread                                                          *)

GuiAt(point) == gui = point
GuiGoto(point) == gui' = point

\* IrcEventHandler::itemSelected on an idle network, or auto-connect.
Connect ==
  /\ GuiAt("idle")
  /\ state = "Idle"
  /\ state' = "Connecting"
  /\ thread' = TRUE
  /\ Goto("open")
  /\ again' = FALSE
  /\ inherited' = send_ping
  /\ notified' = FALSE
  /\ pinged' = FALSE
  /\ UNCHANGED <<sock, send_ping, emittedError, quiet, user, net>>

\* itemSelected on a network in any other state; it stays selected.
Select ==
  /\ GuiAt("idle")
  /\ state # "Idle"
  /\ selected' = TRUE
  /\ UNCHANGED <<client, gui, op, net, history>>

\* IrcClient::write dereferences "socket" without a test.
Usable == sock \in {"open", "failed"}

\* A command, a message or a raw line the user typed for this network.
UserWrite ==
  /\ GuiAt("idle")
  /\ selected
  /\ GuiGoto(IF Usable THEN "idle" ELSE "crashed")
  /\ UNCHANGED <<client, op, selected, net, history>>

BeginDisconnect ==
  /\ GuiAt("idle")
  /\ selected
  /\ op' = "disconnect"
  /\ GuiGoto("quit")
  /\ UNCHANGED <<client, selected, net, history>>

\* removeNetwork forgets the selection and says QUIT only when connected.
BeginDelete ==
  /\ GuiAt("idle")
  /\ selected
  /\ op' = "delete"
  /\ selected' = FALSE
  /\ GuiGoto(IF state = "Connected" THEN "quit" ELSE "mark")
  /\ UNCHANGED <<client, net, history>>

\* closeAll, at the end of the program, leaves alone what is not connected.
BeginExit ==
  /\ GuiAt("idle")
  /\ op' = "exit"
  /\ GuiGoto(IF state = "Connected" THEN "quit" ELSE "gone")
  /\ UNCHANGED <<client, selected, net, history>>

WriteQuit ==
  /\ GuiAt("quit")
  /\ GuiGoto(IF Usable THEN "mark" ELSE "crashed")
  /\ UNCHANGED <<client, op, selected, net, history>>

MarkDisconnected ==
  /\ GuiAt("mark")
  /\ state' = "Disconnected"
  /\ GuiGoto(IF thread THEN "join" ELSE "free")
  /\ UNCHANGED <<thread, pc, sock, send_ping, emittedError, again, quiet, op, selected,
                 net, history>>

\* Mutant: the thread is detached, not joined.
DetachThread ==
  /\ GuiAt("join")
  /\ thread' = FALSE
  /\ GuiGoto("free")
  /\ UNCHANGED <<state, pc, sock, send_ping, emittedError, again, quiet, op,
                 selected, net, history>>

JoinThread ==
  /\ GuiAt("join")
  /\ pc = "done"
  /\ thread' = FALSE
  /\ Goto("none")
  /\ GuiGoto("free")
  /\ UNCHANGED <<state, sock, send_ping, emittedError, again, quiet, op, selected, net,
                 history>>

FreeSocket ==
  /\ GuiAt("free")
  /\ sock' = "null"
  /\ link' = "down" /\ inbox' = <<>> /\ owed' = FALSE
  /\ GuiGoto("reset")
  /\ UNCHANGED <<state, thread, pc, send_ping, emittedError, again, quiet, op, selected,
                 history>>

\* reset(); after it /delserver deletes the client and the program exits.
Reset ==
  /\ GuiAt("reset")
  /\ state' = "Idle"
  /\ GuiGoto(IF op = "disconnect" THEN "idle" ELSE "gone")
  /\ UNCHANGED <<thread, pc, sock, send_ping, emittedError, again, quiet, op, selected,
                 net, history>>

Disconnecting ==
  WriteQuit \/ MarkDisconnected \/ JoinThread \/ FreeSocket \/ Reset

GuiStep ==
  \/ Connect \/ Select \/ UserWrite
  \/ BeginDisconnect \/ BeginDelete \/ BeginExit \/ Disconnecting
-----------------------------------------------------------------------------
(* The server, the network and the clock                                   *)

ServerSends(kind) ==
  /\ Alive
  /\ link = "up"
  /\ Len(inbox) < MaxInbox
  /\ kind = "PONG" => owed
  /\ inbox' = Append(inbox, kind)
  /\ owed' = (owed /\ kind # "PONG")
  /\ UNCHANGED <<client, user, link, history>>

LinkFails ==
  /\ Alive
  /\ link = "up"
  /\ link' = "down"
  /\ UNCHANGED <<client, user, inbox, owed, history>>

\* The clock advances at any moment of a session, as far as the tests reach.
Tick ==
  /\ Alive
  /\ thread
  /\ quiet <= DeadAfter
  /\ quiet' = quiet + 1
  /\ UNCHANGED <<state, thread, pc, sock, send_ping, emittedError, again, user,
                 net, history>>

Stopped == ~Alive /\ UNCHANGED vars

Environment == LinkFails \/ Tick \/ \E kind \in Kinds : ServerSends(kind)

Next == ThreadStep \/ GuiStep \/ Environment \/ Stopped

Spec == Init /\ [][Next]_vars

\* The connection thread runs, disconnect() is carried on once begun, and a
\* server that is asked again and again accepts in the end.  The user, the
\* clock and what the server says are free.
Fairness ==
  /\ WF_vars(ThreadStep)
  /\ WF_vars(Disconnecting)
  /\ SF_vars(Reopen)

FairSpec == Spec /\ Fairness
-----------------------------------------------------------------------------
(* Properties                                                              *)

\* irc_client.cc:43-45, 68 against 102-106: the connection thread uses only a
\* socket that exists, disconnect() frees none the thread has freed, and a thread
\* that begins replaces no socket of one before it.
SocketOwned ==
  /\ pc \in {"pass", "nick", "user", "loop", "ping", "read"} => sock = "open"
  /\ pc = "close" => sock \in {"open", "failed"}
  /\ gui = "free" => sock \in {"null", "open", "failed"}
  /\ pc = "open" => sock = "null"

\* irc_client.cc:13-16: connect() never replaces the pointer to a thread that
\* has not been joined (its std::thread could not be joined any more).
OneThread ==
  [][(pc' = "open" /\ pc # "open") => (~thread /\ pc = "none" /\ sock = "null")]_vars

\* irc_client.cc:38-42: the error callback runs once per outage, however many
\* attempts the reconnection takes.
OneReport ==
  [][(pc = "outage" /\ pc' = "close" /\ ~emittedError) => ~notified]_vars

\* irc_client.cc:39-50: and it has run before the old connection is given up,
\* in the second outage of a session as in the first.
OutageReported ==
  pc \in {"close", "delete", "reopen", "retest", "leave"} => notified

\* irc_client.cc:64-66, 155-158: no second PING while the server is silent.
OnePing == [][(pc = "ping" /\ pc' = "read") => ~pinged]_vars

\* irc_client.cc:33, 46, 51: a disconnect() that finds the thread past its
\* registration returns, also in the middle of an outage.
DisconnectFromLoopReturns ==
  (/\ gui = "join" /\ state = "Disconnected"
   /\ pc \notin {"open", "pass", "nick", "user", "registered"})
    ~> gui # "join"

\* irc_client.cc:38-49: an outage ends in a new registration, unless the user
\* disconnects or the program ends.
OutageEnds ==
  pc = "outage" ~> (pc = "registered" \/ state = "Disconnected" \/ ~Alive)

\* src/README.md:63, "/disconnect - close connection": disconnect() returns.
DisconnectReturns == gui = "join" ~> gui # "join"

\* src/README.md:71, a typed message is sent 1:1 to the ircd: a write finds a
\* socket to write to.
TypedIsWritten == [][gui = "idle" => gui' # "crashed"]_vars
-----------------------------------------------------------------------------
(* The inductive invariant of the proofs                                   *)

Registering == {"pass", "nick", "user", "registered"}
Looping == {"loop", "ping", "read"}

\* "state" is Idle only between reset() and connect(), without a thread.
ThreadExists ==
  /\ thread <=> pc # "none"
  /\ state = "Idle" => pc = "none"
  /\ gui \in {"free", "reset"} => pc = "none"

\* What "socket" points to, by the place of the thread that owns it.
SocketByPoint ==
  /\ pc = "none" => /\ gui \in {"idle", "quit", "mark", "reset"} => sock = "null"
                    /\ gui = "free" => sock \in {"null", "open", "failed"}
                    /\ gui # "join"
  /\ pc = "open" => sock = "null"
  /\ pc = "refused" => sock = "failed"
  /\ pc \in Registering \cup Looping => sock = "open"
  /\ pc \in {"outage", "close", "retest", "done"} => sock \in {"open", "failed"}
  /\ pc = "delete" => sock = "closed"
  /\ pc = "reopen" => sock = "freed"
  /\ pc = "leave" => \/ sock = "open"
                     \/ sock = "failed" /\ state = "Disconnected"

\* emittedError is the memory of the callback while an outage lasts.
ReportFlag ==
  /\ pc \in Looping => ~emittedError /\ ~notified
  /\ pc = "open" => ~again
  /\ pc \in Registering /\ again => ~emittedError
  /\ pc = "outage" => (emittedError <=> notified)
  /\ pc \in {"close", "delete", "reopen", "retest"} => emittedError /\ notified
  /\ pc = "leave" => notified

\* send_ping is the memory of an unanswered PING.
PingFlag ==
  /\ pinged => send_ping
  /\ pc = "ping" => ~send_ping

CInv == TypeOK /\ ThreadExists /\ SocketByPoint /\ ReportFlag /\ PingFlag
=============================================================================
