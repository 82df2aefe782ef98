------------------------ MODULE IrcConnectionProofs ------------------------
(***************************************************************************)
(* IrcConnection for every keep-alive setting, with and without a password *)
(* and for any number of lines in flight: the ownership of the socket and  *)
(* of the thread, one report per outage, one PING per silence; and, with   *)
(* the deadlines of KeepAlive, that a connection to a live server is kept. *)
(***************************************************************************)
EXTENDS KeepAlive, TLAPS

\* The values a new connection starts with.
LEMMA FreshValues == <<>> \in Seq(Kinds) /\ 0 \in 0 .. DeadAfter + 1
  BY IrcConnectionAssumption

LEMMA InitCInv == Init => CInv
<1> SUFFICES ASSUME Init PROVE CInv
  OBVIOUS
<1>1. TypeOK
  <2>1. inbox \in Seq(Kinds) /\ quiet \in 0 .. DeadAfter + 1
    BY FreshValues DEF Init
  <2> QED BY <2>1 DEF Init, TypeOK, ConnectionState, ThreadPoints, GuiPoints
<1>2. ThreadExists /\ SocketByPoint /\ ReportFlag /\ PingFlag
  BY DEF Init, ThreadExists, SocketByPoint, ReportFlag, PingFlag, Registering,
         Looping
<1> QED BY <1>1, <1>2 DEF CInv

\* The type of every variable a step of the connection thread changes.
LEMMA ThreadTypes == ASSUME TypeOK, ThreadStep PROVE TypeOK'
<1> USE IrcConnectionAssumption DEF TypeOK, At, Goto, user, net, history,
        ThreadPoints, ConnectionState, FirstCommand, Connects, Refuses
<1>1. CASE OpenSocket
  <2>1. inbox' \in Seq(Kinds)
    BY <1>1, FreshValues DEF OpenSocket
  <2>2. /\ sock' \in {"open", "failed"} /\ link' \in {"up", "down"}
        /\ pc' \in ThreadPoints /\ owed' = FALSE
        /\ UNCHANGED <<state, thread, send_ping, emittedError, again, quiet>>
        /\ UNCHANGED <<user, history>>
    BY <1>1 DEF OpenSocket
  <2> HIDE DEF ThreadPoints, ConnectionState
  <2> QED BY <2>1, <2>2
<1>2. CASE GiveUp \/ WriteCommand
  BY <1>2 DEF GiveUp, WriteCommand
<1>3. CASE Registered
  <2>1. /\ emittedError' \in BOOLEAN /\ send_ping' \in BOOLEAN
        /\ again' \in BOOLEAN
    BY <1>3 DEF Registered
  <2>2. quiet' \in 0 .. DeadAfter + 1
    BY <1>3, FreshValues DEF Registered
  <2> HIDE IrcConnectionAssumption
  <2> QED BY <1>3, <2>1, <2>2 DEF Registered
<1>4. CASE EndLoop \/ TestSilence
  BY <1>4 DEF EndLoop, TestSilence
<1>5. CASE WritePing
  BY <1>5 DEF WritePing
<1>6. CASE ReadNothing
  BY <1>6 DEF ReadNothing
<1>7. CASE ReadLine
  <2>1. inbox' \in Seq(Kinds)
    BY <1>7 DEF ReadLine
  <2>2. quiet' \in 0 .. DeadAfter + 1
    BY <1>7, FreshValues DEF ReadLine
  <2>3. send_ping' \in BOOLEAN
    BY <1>7 DEF ReadLine
  <2>4. /\ pinged' = FALSE /\ pc' \in ThreadPoints
        /\ UNCHANGED <<state, thread, sock, emittedError, again, user, link>>
        /\ UNCHANGED <<owed, notified, inherited>>
    BY <1>7 DEF ReadLine
  <2> HIDE DEF ThreadPoints, ConnectionState
  <2> QED BY ZenonT(60), <2>1, <2>2, <2>3, <2>4
<1>8. CASE ReportOutage
  BY <1>8 DEF ReportOutage
<1>9. CASE CloseSocket \/ DeleteSocket
  BY <1>9 DEF CloseSocket, DeleteSocket
<1>10. CASE Reopen \/ ReopenFails
  <2>1. inbox' \in Seq(Kinds)
    BY <1>10, FreshValues DEF Reopen, ReopenFails
  <2>2. /\ sock' \in {"open", "failed"} /\ link' \in {"up", "down"}
        /\ pc' \in ThreadPoints /\ owed' = FALSE
        /\ UNCHANGED <<state, thread, send_ping, emittedError, again, quiet>>
        /\ UNCHANGED <<user, history>>
    BY <1>10 DEF Reopen, ReopenFails
  <2> HIDE DEF ThreadPoints, ConnectionState
  <2> QED BY <2>1, <2>2
<1>11. CASE TestReopened
  BY <1>11 DEF TestReopened
<1>12. CASE LeaveOutage
  <2>1. pc' \in ThreadPoints /\ emittedError' = FALSE /\ again' = TRUE
    BY <1>12 DEF LeaveOutage
  <2>2. /\ UNCHANGED <<state, thread, sock, send_ping, quiet, gui, op, selected>>
        /\ UNCHANGED <<net, history>>
    BY <1>12 DEF LeaveOutage
  <2> HIDE DEF ThreadPoints, ConnectionState
  <2> QED BY ZenonT(60), <2>1, <2>2
<1> HIDE DEF TypeOK
<1> QED BY <1>1, <1>2, <1>3, <1>4, <1>5, <1>6, <1>7, <1>8, <1>9, <1>10,
        <1>11, <1>12 DEF ThreadStep

\* The same for the steps of the GUI thread and of the environment.
LEMMA OtherTypes ==
  ASSUME TypeOK, GuiStep \/ Environment \/ Stopped PROVE TypeOK'
<1> USE IrcConnectionAssumption DEF TypeOK, GuiAt, GuiGoto, Goto, client, net,
        history, user, ThreadPoints, ConnectionState, GuiPoints
<1>1. CASE Connect
  BY <1>1 DEF Connect
<1>2. CASE Select \/ UserWrite
  BY ZenonT(60), <1>2 DEF Select, UserWrite
<1>3. CASE BeginDisconnect \/ BeginDelete \/ BeginExit
  BY ZenonT(60), <1>3 DEF BeginDisconnect, BeginDelete, BeginExit
<1>4. CASE WriteQuit \/ MarkDisconnected
  BY <1>4 DEF WriteQuit, MarkDisconnected
<1>5. CASE JoinThread
  <2>1. pc' \in ThreadPoints /\ gui' \in GuiPoints /\ thread' \in BOOLEAN
    BY <1>5 DEF JoinThread
  <2>2. /\ UNCHANGED <<state, sock, send_ping, emittedError, again, quiet>>
        /\ UNCHANGED <<op, selected, net, history>>
    BY <1>5 DEF JoinThread
  <2> HIDE DEF ThreadPoints, ConnectionState, GuiPoints
  <2> QED BY <2>1, <2>2
<1>10. CASE Reset
  <2>1. state' \in ConnectionState /\ gui' \in GuiPoints
    BY <1>10 DEF Reset
  <2>2. /\ UNCHANGED <<thread, pc, sock, send_ping, emittedError, again, quiet>>
        /\ UNCHANGED <<op, selected, net, history>>
    BY <1>10 DEF Reset
  <2> HIDE DEF ThreadPoints, ConnectionState, GuiPoints
  <2> QED BY <2>1, <2>2
<1>6. CASE FreeSocket
  <2>1. inbox' \in Seq(Kinds)
    BY <1>6, FreshValues DEF FreeSocket
  <2>2. /\ sock' = "null" /\ link' = "down" /\ owed' = FALSE /\ gui' = "reset"
        /\ UNCHANGED <<state, thread, pc, send_ping, emittedError, again, quiet>>
        /\ UNCHANGED <<op, selected, history>>
    BY <1>6 DEF FreeSocket
  <2> HIDE DEF ThreadPoints, ConnectionState
  <2> QED BY <2>1, <2>2
<1>7. ASSUME NEW kind \in Kinds, ServerSends(kind) PROVE TypeOK'
  BY <1>7 DEF ServerSends
<1>8. CASE LinkFails \/ Stopped
  BY <1>8 DEF LinkFails, Stopped, vars
<1>9. CASE Tick
  BY <1>9 DEF Tick
<1> QED BY <1>1, <1>2, <1>3, <1>4, <1>5, <1>6, <1>7, <1>8, <1>9, <1>10
        DEF GuiStep, Disconnecting, Environment

\* A step of the connection thread keeps the four parts of the invariant.
LEMMA ThreadKeeps ==
  ASSUME CInv, ThreadStep
  PROVE  ThreadExists' /\ SocketByPoint' /\ ReportFlag' /\ PingFlag'
<1> USE DEF CInv, At, Goto, user, net, history, FirstCommand, Connects, Refuses,
            Registering, Looping, Ended
<1>0. thread
  BY DEF ThreadExists, ThreadStep, OpenSocket, GiveUp, WriteCommand, Registered,
         EndLoop, TestSilence, WritePing, ReadNothing, ReadLine, ReportOutage,
         CloseSocket, DeleteSocket, Reopen, ReopenFails, TestReopened, LeaveOutage
<1>1. ThreadExists'
  BY <1>0 DEF ThreadExists, ThreadStep, OpenSocket, GiveUp, WriteCommand,
         Registered, EndLoop, TestSilence, WritePing, ReadNothing, ReadLine,
         ReportOutage, CloseSocket, DeleteSocket, Reopen, ReopenFails,
         TestReopened, LeaveOutage
<1>2. SocketByPoint'
  BY DEF SocketByPoint, ThreadStep, OpenSocket, GiveUp, WriteCommand,
         Registered, EndLoop, TestSilence, WritePing, ReadNothing, ReadLine,
         ReportOutage, CloseSocket, DeleteSocket, Reopen, ReopenFails,
         TestReopened, LeaveOutage
<1>3. ReportFlag'
  <2> USE DEF ReportFlag, TypeOK
  <2>1. CASE Registered
    <3>1. ~emittedError' /\ ~notified' /\ pc' \in {"loop", "read"}
      BY <2>1 DEF Registered
    <3> QED BY <3>1
  <2>2. CASE ReportOutage
    <3>1. emittedError' = TRUE /\ notified' = TRUE /\ pc' = "close"
      BY <2>2 DEF ReportOutage
    <3> QED BY <3>1
  <2>3. CASE LeaveOutage
    <3>1. emittedError' = FALSE /\ pc' \in {"done", "pass", "nick"}
      BY <2>3 DEF LeaveOutage
    <3> QED BY <3>1
  <2>4. CASE ~(Registered \/ ReportOutage \/ LeaveOutage)
    <3>1. UNCHANGED <<emittedError, notified, again>>
      BY <2>4 DEF ThreadStep, OpenSocket, GiveUp, WriteCommand, EndLoop,
         TestSilence, WritePing, ReadNothing, ReadLine, CloseSocket,
         DeleteSocket, Reopen, ReopenFails, TestReopened
    <3>2. /\ pc' \in {"loop", "ping", "read", "outage"} => pc \in Looping \cup {"retest"}
          /\ pc' \in {"pass", "nick", "user", "registered"} =>
               pc \in Registering \cup {"open"}
          /\ pc' \in {"close", "delete", "reopen", "retest", "leave"} =>
               pc \in {"close", "delete", "reopen", "retest"}
          /\ pc' \in Looping => pc \in Looping
          /\ pc' # "open"
      BY <2>4 DEF ThreadStep, OpenSocket, GiveUp, WriteCommand, EndLoop,
         TestSilence, WritePing, ReadNothing, ReadLine, CloseSocket,
         DeleteSocket, Reopen, ReopenFails, TestReopened
    <3>3. pc = "open" => ~again
      OBVIOUS
    <3> QED BY <3>1, <3>2, <3>3
  <2> QED BY <2>1, <2>2, <2>3, <2>4
<1>4. PingFlag'
  <2> USE DEF PingFlag, TypeOK
  <2>1. CASE Registered \/ ReadLine
    <3>1. pinged' = FALSE /\ pc' # "ping"
      BY <2>1 DEF Registered, ReadLine
    <3> QED BY <3>1
  <2>2. CASE WritePing
    <3>1. send_ping' = TRUE /\ pc' # "ping"
      BY <2>2 DEF WritePing
    <3> QED BY <3>1
  <2>3. CASE TestSilence
    <3>1. UNCHANGED <<pinged, send_ping>> /\ (pc' = "ping" => ~send_ping)
      BY <2>3 DEF TestSilence, PingIsDue
    <3> QED BY <3>1
  <2>4. CASE ~(Registered \/ ReadLine \/ WritePing \/ TestSilence)
    <3>1. UNCHANGED <<pinged, send_ping>> /\ pc' # "ping"
      BY <2>4 DEF ThreadStep, OpenSocket, GiveUp, WriteCommand, EndLoop,
         ReadNothing, ReportOutage, CloseSocket, DeleteSocket, Reopen,
         ReopenFails, TestReopened, LeaveOutage
    <3> QED BY <3>1
  <2> QED BY <2>1, <2>2, <2>3, <2>4
<1> QED BY <1>1, <1>2, <1>3, <1>4

\* So do the steps of the GUI thread, above all those of disconnect().
LEMMA GuiKeeps ==
  ASSUME CInv, GuiStep
  PROVE  ThreadExists' /\ SocketByPoint' /\ ReportFlag' /\ PingFlag'
<1> USE DEF CInv, GuiAt, GuiGoto, Goto, client, net, history, Registering, Looping
<1>1. CASE Connect
  <2>1. /\ pc = "none" /\ thread' = TRUE /\ pc' = "open"
        /\ state' = "Connecting" /\ gui' = "idle" /\ sock' = sock
        /\ sock = "null" /\ pinged' = FALSE /\ again' = FALSE
    BY <1>1 DEF Connect, ThreadExists, SocketByPoint, user
  <2> QED BY <2>1 DEF ThreadExists, SocketByPoint, ReportFlag, PingFlag
<1>2. CASE Select \/ UserWrite
  BY <1>2 DEF Select, UserWrite, ThreadExists, SocketByPoint, ReportFlag, PingFlag
<1>3. CASE BeginDisconnect \/ BeginDelete \/ BeginExit
  BY <1>3 DEF BeginDisconnect, BeginDelete, BeginExit, ThreadExists,
              SocketByPoint, ReportFlag, PingFlag
<1>4. CASE WriteQuit \/ MarkDisconnected
  BY <1>4 DEF WriteQuit, MarkDisconnected, ThreadExists, SocketByPoint,
              ReportFlag, PingFlag
<1>5. CASE JoinThread
  BY <1>5 DEF JoinThread, ThreadExists, SocketByPoint, ReportFlag, PingFlag
<1>6. CASE FreeSocket \/ Reset
  BY <1>6 DEF FreeSocket, Reset, ThreadExists, SocketByPoint, ReportFlag, PingFlag
<1> QED BY <1>1, <1>2, <1>3, <1>4, <1>5, <1>6 DEF GuiStep, Disconnecting

\* The environment touches none of what the parts speak about.
LEMMA OthersKeep ==
  ASSUME CInv, Environment \/ UNCHANGED vars
  PROVE  ThreadExists' /\ SocketByPoint' /\ ReportFlag' /\ PingFlag'
<1>1. UNCHANGED <<state, thread, pc, sock, send_ping, emittedError, again, gui>>
      /\ UNCHANGED <<notified, pinged>>
  BY DEF Environment, LinkFails, Tick, ServerSends, vars, client, user, net, history
<1> QED BY <1>1 DEF CInv, ThreadExists, SocketByPoint, ReportFlag, PingFlag

LEMMA Inductive == ASSUME CInv, [Next]_vars PROVE CInv'
<1>1. TypeOK'
  <2>1. CASE UNCHANGED vars
    BY <2>1 DEF CInv, TypeOK, vars, client, user, net, history
  <2> QED BY <2>1, ThreadTypes, OtherTypes DEF CInv, Next
<1>2. ThreadExists' /\ SocketByPoint' /\ ReportFlag' /\ PingFlag'
  BY ThreadKeeps, GuiKeeps, OthersKeep DEF Next, Stopped
<1> QED BY <1>1, <1>2 DEF CInv

LEMMA Invariance == Spec => []CInv
<1>1. CInv /\ [Next]_vars => CInv'
  BY Inductive
<1> QED BY InitCInv, <1>1, PTL DEF Spec

\* The fields of IrcClient (irc_client.h:150-156) keep their types.
THEOREM ConnectionTypes == Spec => []TypeOK
<1>1. CInv => TypeOK
  BY DEF CInv
<1> QED BY Invariance, <1>1, PTL

\* The thread never uses a socket that is closed or deleted, and disconnect()
\* never deletes one twice: join() orders the two threads.
THEOREM SocketIsOwned == Spec => []SocketOwned
<1>1. CInv => SocketOwned
  <2> SUFFICES ASSUME CInv PROVE SocketOwned
    OBVIOUS
  <2>1. gui = "free" => pc = "none"
    BY DEF CInv, ThreadExists
  <2> QED BY <2>1 DEF CInv, SocketByPoint, SocketOwned, Registering, Looping
<1> QED BY Invariance, <1>1, PTL

\* A client has at most one connection thread.
THEOREM OneThreadAtATime == Spec => OneThread
<1>1. CInv /\ [Next]_vars =>
        [(pc' = "open" /\ pc # "open")
           => (~thread /\ pc = "none" /\ sock = "null")]_vars
  <2> SUFFICES ASSUME CInv, Next, pc' = "open", pc # "open"
               PROVE  ~thread /\ pc = "none" /\ sock = "null"
    OBVIOUS
  <2>1. Connect
    BY DEF Next, ThreadStep, OpenSocket, GiveUp, WriteCommand, Registered,
           EndLoop, TestSilence, WritePing, ReadNothing, ReadLine, ReportOutage,
           CloseSocket, DeleteSocket, Reopen, ReopenFails, TestReopened,
           LeaveOutage, Goto, FirstCommand, GuiStep, Disconnecting, Select,
           UserWrite, BeginDisconnect, BeginDelete, BeginExit, WriteQuit,
           MarkDisconnected, JoinThread, FreeSocket, Reset, Environment,
           LinkFails, Tick, ServerSends, Stopped, vars, client
  <2> QED BY <2>1 DEF Connect, GuiAt, CInv, ThreadExists, SocketByPoint
<1> QED BY Invariance, <1>1, PTL DEF Spec, OneThread

\* Each outage is reported, and reported once.
THEOREM OutagesReported == Spec => []OutageReported /\ OneReport
<1>1. CInv => OutageReported
  BY DEF CInv, ReportFlag, OutageReported
<1>2. CInv /\ [Next]_vars =>
        [(pc = "outage" /\ pc' = "close" /\ ~emittedError) => ~notified]_vars
  BY DEF CInv, ReportFlag
<1> QED BY Invariance, <1>1, <1>2, PTL DEF Spec, OneReport

\* The client does not repeat a PING the server has not reacted to.
THEOREM PingsAreSpaced == Spec => OnePing
<1>1. CInv /\ [Next]_vars => [(pc = "ping" /\ pc' = "read") => ~pinged]_vars
  BY DEF CInv, PingFlag
<1> QED BY Invariance, <1>1, PTL DEF Spec, OnePing
-----------------------------------------------------------------------------
(* KeepAlive                                                                *)

\* A step that respects the deadlines is a step of the connection.
LEMMA TimelyIsNext == ASSUME [Instant \/ TimelyTick]_timedVars PROVE [Next]_vars
BY DEF Instant, TimelyTick, timedVars, Next, Environment

LEMMA InitTimely == TimelyInit => TimelyInv
<1> SUFFICES ASSUME TimelyInit PROVE TimelyInv
  OBVIOUS
<1>1. CInv
  BY InitCInv DEF TimelyInit
<1> QED BY <1>1, KeepAliveAssumption DEF TimelyInit, Init, TimelyInv, AgeInTime, NoOutage,
        PingAnswered, SilenceBounded, Registering, Looping

\* The age of a PING grows with the clock only.
LEMMA AgeKept ==
  ASSUME CInv, AgeInTime, [Instant \/ TimelyTick]_timedVars PROVE AgeInTime'
<1> USE KeepAliveAssumption DEF AgeInTime
<1>1. CASE Instant
  BY <1>1 DEF Instant
<1>2. CASE TimelyTick
  BY <1>2 DEF TimelyTick, Tick, net
<1>3. CASE UNCHANGED timedVars
  BY <1>3 DEF timedVars, vars, net
<1> QED BY <1>1, <1>2, <1>3

\* A step of the connection thread keeps the bound of the silence.
LEMMA ThreadTimely ==
  ASSUME TypeOK, PingFlag, AgeInTime, NoOutage, PingAnswered, SilenceBounded,
         ThreadStep, age' = IF owed' THEN age ELSE 0
  PROVE  NoOutage' /\ PingAnswered' /\ SilenceBounded'
<1> USE IrcConnectionAssumption, KeepAliveAssumption
    DEF At, Goto, user, net, history, FirstCommand, Registering, Looping
<1>1. /\ quiet \in Nat /\ age \in Nat /\ age <= AnswerDelay
      /\ send_ping \in BOOLEAN /\ again \in BOOLEAN
  BY DEF TypeOK, AgeInTime
<1>2. CASE OpenSocket \/ GiveUp \/ WriteCommand
  BY <1>2 DEF OpenSocket, GiveUp, WriteCommand, Connects, Refuses, NoOutage,
              PingAnswered, SilenceBounded
<1>3. CASE Registered
  <2>1. ~send_ping' /\ quiet' = 0 /\ pc' \in {"read", "loop"} /\ link' = "up"
    BY <1>1, <1>3 DEF Registered, NoOutage
  <2> QED BY <2>1 DEF NoOutage, PingAnswered, SilenceBounded
<1>4. CASE EndLoop \/ ReadNothing
  BY <1>4 DEF EndLoop, ReadNothing, NoOutage, PingAnswered, SilenceBounded, AgeInTime
<1>5. CASE TestSilence
  <2>1. /\ pc = "loop" /\ UNCHANGED <<quiet, send_ping, link, inbox, owed, again>>
        /\ pc' \in {"outage", "ping", "read"} /\ (pc' = "outage" => quiet > DeadAfter)
    BY <1>5 DEF TestSilence
  <2>2. quiet <= DeadAfter
    BY <1>1, <2>1 DEF SilenceBounded
  <2>3. pc' \in Looping
    BY <1>1, <2>1, <2>2
  <2>4. NoOutage'
    BY <2>1, <2>3 DEF NoOutage
  <2>5. PingAnswered'
    BY <2>1, <2>3 DEF PingAnswered
  <2>6. age' = age \/ ~owed'
    OBVIOUS
  <2>7. SilenceBounded'
    BY <1>1, <2>1, <2>3, <2>6 DEF SilenceBounded
  <2> QED BY <2>4, <2>5, <2>7
<1>6. CASE WritePing
  <2>1. /\ pc = "ping" /\ link = "up" /\ send_ping' = TRUE /\ owed' = TRUE /\ pc' = "read"
        /\ UNCHANGED <<quiet, link, inbox>>
    BY <1>6 DEF WritePing, NoOutage
  <2>2. ~send_ping /\ quiet <= PingAfter + 1
    BY <2>1 DEF SilenceBounded, PingFlag
  <2>3. NoOutage' /\ PingAnswered'
    BY <2>1 DEF NoOutage, PingAnswered
  <2> QED BY <1>1, <2>1, <2>2, <2>3 DEF SilenceBounded
<1>7. CASE ReadLine
  <2>1. /\ pc = "read" /\ inbox # <<>> /\ inbox' = Tail(inbox) /\ quiet' = 0 /\ pc' = "loop"
        /\ send_ping' = (send_ping /\ Head(inbox) \notin {"PING", "PONG"})
        /\ UNCHANGED <<link, owed, again>>
    BY <1>7 DEF ReadLine
  <2>2. NoOutage'
    BY <2>1 DEF NoOutage
  <2>3. PingAnswered'
    <3> SUFFICES ASSUME send_ping', ~owed'
                 PROVE  \E i \in DOMAIN inbox' : inbox'[i] = "PONG"
      BY DEF PingAnswered
    <3>1. PICK i \in DOMAIN inbox : inbox[i] = "PONG"
      BY <2>1 DEF PingAnswered
    <3>2. inbox \in Seq(Kinds) /\ Head(inbox) # "PONG"
      BY <2>1 DEF TypeOK
    <3>3. i # 1 /\ i - 1 \in DOMAIN Tail(inbox) /\ Tail(inbox)[i - 1] = inbox[i]
      BY <2>1, <3>1, <3>2
    <3> QED BY <2>1, <3>1, <3>3
  <2>4. SilenceBounded'
    BY <1>1, <2>1 DEF SilenceBounded
  <2> QED BY <2>2, <2>3, <2>4
<1>8. CASE ReportOutage \/ CloseSocket \/ DeleteSocket \/ Reopen \/ ReopenFails
           \/ TestReopened \/ LeaveOutage
  BY <1>8 DEF ReportOutage, CloseSocket, DeleteSocket, Reopen, ReopenFails, TestReopened,
              LeaveOutage, NoOutage
<1> QED BY <1>2, <1>3, <1>4, <1>5, <1>6, <1>7, <1>8 DEF ThreadStep

\* A PONG of the server takes the place of the debt.
LEMMA ServerTimely ==
  ASSUME TypeOK, AgeInTime, NoOutage, PingAnswered, SilenceBounded,
         NEW kind \in Kinds, ServerSends(kind), age' = IF owed' THEN age ELSE 0
  PROVE  NoOutage' /\ PingAnswered' /\ SilenceBounded'
<1> USE DEF user, client, history
<1>1. /\ inbox' = Append(inbox, kind) /\ owed' = (owed /\ kind # "PONG")
      /\ UNCHANGED <<pc, again, send_ping, quiet, link>>
  BY DEF ServerSends
<1>2. NoOutage'
  BY <1>1 DEF NoOutage
<1>3. PingAnswered'
  <2> SUFFICES ASSUME pc' \in Looping, send_ping', ~owed'
               PROVE  \E i \in DOMAIN inbox' : inbox'[i] = "PONG"
    BY DEF PingAnswered
  <2>1. inbox \in Seq(Kinds)
    BY DEF TypeOK
  <2>2. CASE kind = "PONG"
    <3>1. Len(inbox) + 1 \in DOMAIN inbox' /\ inbox'[Len(inbox) + 1] = "PONG"
      BY <1>1, <2>1, <2>2
    <3> QED BY <3>1
  <2>3. CASE kind # "PONG"
    <3>1. PICK i \in DOMAIN inbox : inbox[i] = "PONG"
      BY <1>1, <2>3 DEF PingAnswered, Looping, TypeOK
    <3>2. i \in DOMAIN inbox' /\ inbox'[i] = inbox[i]
      BY <1>1, <2>1
    <3> QED BY <3>1, <3>2
  <2> QED BY <2>2, <2>3
<1>4. SilenceBounded'
  <2>1. quiet \in Nat /\ age \in Nat /\ age <= AnswerDelay /\ owed \in BOOLEAN
    BY IrcConnectionAssumption, KeepAliveAssumption DEF TypeOK, AgeInTime
  <2> QED BY <1>1, <2>1, IrcConnectionAssumption, KeepAliveAssumption
          DEF SilenceBounded, Looping
<1> QED BY <1>2, <1>3, <1>4

\* The GUI thread touches what the bound is about between two sessions only.
LEMMA GuiTimely ==
  ASSUME CInv, AgeInTime, ~inherited', inherited \/ (NoOutage /\ PingAnswered /\ SilenceBounded),
         GuiStep, age' = IF owed' THEN age ELSE 0
  PROVE  NoOutage' /\ PingAnswered' /\ SilenceBounded'
<1> USE DEF GuiAt, GuiGoto, Goto, client, net, history, user, Registering, Looping
<1>1. CASE Connect
  <2>1. pc' = "open" /\ ~again' /\ ~send_ping'
    BY <1>1 DEF Connect
  <2> QED BY <2>1 DEF NoOutage, PingAnswered, SilenceBounded
<1>2. CASE FreeSocket
  <2>1. pc' = "none"
    BY <1>2 DEF FreeSocket, CInv, ThreadExists
  <2> QED BY <2>1 DEF NoOutage, PingAnswered, SilenceBounded
<1>3. CASE JoinThread
  <2>1. pc' = "none"
    BY <1>3 DEF JoinThread
  <2> QED BY <2>1 DEF NoOutage, PingAnswered, SilenceBounded
<1>4. CASE ~(Connect \/ FreeSocket \/ JoinThread)
  <2>1. UNCHANGED <<pc, again, send_ping, quiet, link, inbox, owed, inherited>>
    BY <1>4 DEF GuiStep, Select, UserWrite, BeginDisconnect, BeginDelete, BeginExit,
                Disconnecting, WriteQuit, MarkDisconnected, Reset
  <2>2. age' = age
    BY <2>1 DEF AgeInTime
  <2> QED BY <2>1, <2>2 DEF NoOutage, PingAnswered, SilenceBounded
<1> QED BY <1>1, <1>2, <1>3, <1>4

\* Time passes while the silence is below its bound.
LEMMA TickTimely ==
  ASSUME TypeOK, AgeInTime, NoOutage, PingAnswered, SilenceBounded, TimelyTick
  PROVE  NoOutage' /\ PingAnswered' /\ SilenceBounded'
<1> USE IrcConnectionAssumption, KeepAliveAssumption DEF net, user, history
<1>1. /\ pc = "read" /\ inbox = <<>> /\ (quiet > PingAfter => send_ping)
      /\ (owed => age < AnswerDelay) /\ quiet' = quiet + 1
      /\ age' = IF owed THEN age + 1 ELSE 0
      /\ UNCHANGED <<pc, again, send_ping, link, inbox, owed>>
  BY DEF TimelyTick, Tick
<1>2. NoOutage' /\ PingAnswered'
  BY <1>1 DEF NoOutage, PingAnswered
<1>3. send_ping => owed
  BY <1>1 DEF PingAnswered, Looping
<1>4. SilenceBounded'
  <2>1. quiet \in Nat /\ age \in Nat /\ age <= AnswerDelay
    BY DEF TypeOK, AgeInTime
  <2> QED BY <1>1, <1>3, <2>1 DEF SilenceBounded, Looping
<1> QED BY <1>2, <1>4

LEMMA TimelyInductive ==
  ASSUME TimelyInv, [Instant \/ TimelyTick]_timedVars PROVE TimelyInv'
<1>1. CInv' /\ AgeInTime'
  BY TimelyIsNext, Inductive, AgeKept DEF TimelyInv
<1> SUFFICES ASSUME ~inherited' PROVE NoOutage' /\ PingAnswered' /\ SilenceBounded'
  BY <1>1 DEF TimelyInv
<1>2. TypeOK /\ PingFlag /\ CInv /\ AgeInTime
  BY DEF TimelyInv, CInv
<1>3. ~Connect => inherited' = inherited
  <2>1. ThreadStep \/ UNCHANGED vars \/ TimelyTick \/ (\E kind \in Kinds : ServerSends(kind))
          => inherited' = inherited
    BY DEF ThreadStep, OpenSocket, GiveUp, WriteCommand, Registered, EndLoop, TestSilence,
           WritePing, ReadNothing, ReadLine, ReportOutage, CloseSocket, DeleteSocket, Reopen,
           ReopenFails, TestReopened, LeaveOutage, history, vars, TimelyTick, Tick, ServerSends
  <2>2. GuiStep /\ ~Connect => inherited' = inherited
    BY DEF GuiStep, Select, UserWrite, BeginDisconnect, BeginDelete, BeginExit,
           Disconnecting, WriteQuit, MarkDisconnected, JoinThread, FreeSocket, Reset, history
  <2> QED BY <2>1, <2>2 DEF Instant, Stopped, timedVars
<1>4. CASE GuiStep /\ Instant
  BY <1>2, <1>4, GuiTimely DEF TimelyInv, Instant
<1>5. CASE ~GuiStep \/ ~Instant
  <2>1. ~inherited /\ NoOutage /\ PingAnswered /\ SilenceBounded
    <3>1. ~Connect
      BY <1>5 DEF GuiStep, Instant, TimelyTick, Tick, timedVars, vars, client, Connect
    <3> QED BY <1>3, <3>1 DEF TimelyInv
  <2>2. CASE ThreadStep /\ Instant
    BY <1>2, <2>1, <2>2, ThreadTimely DEF Instant
  <2>3. ASSUME NEW kind \in Kinds, ServerSends(kind), Instant
        PROVE  NoOutage' /\ PingAnswered' /\ SilenceBounded'
    BY <1>2, <2>1, <2>3, ServerTimely DEF Instant
  <2>4. CASE TimelyTick
    BY <1>2, <2>1, <2>4, TickTimely
  <2>5. CASE UNCHANGED vars /\ age' = age
    BY <2>1, <2>5 DEF vars, client, user, net, history, NoOutage, PingAnswered, SilenceBounded
  <2>6. CASE Stopped /\ Instant
    <3>1. age' = age
      BY <1>2, <2>6 DEF Instant, Stopped, vars, net, AgeInTime
    <3> QED BY <2>5, <2>6, <3>1 DEF Stopped
  <2> QED BY <1>5, <2>2, <2>3, <2>4, <2>5, <2>6 DEF Instant, timedVars
<1> QED BY <1>4, <1>5

\* However long the limits are, as long as the answer to a PING comes within the time
\* between them: the connection to a live server is kept.
THEOREM LiveConnectionIsKept == TimelySpec => []NeverDropped
<1>1. TimelyInv /\ [Instant \/ TimelyTick]_timedVars => TimelyInv'
  BY TimelyInductive
<1>2. TimelyInv => NeverDropped
  BY DEF TimelyInv, NoOutage, NeverDropped
<1> QED BY InitTimely, <1>1, <1>2, PTL DEF TimelySpec
=============================================================================
