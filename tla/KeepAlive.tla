----------------------------- MODULE KeepAlive -----------------------------
(***************************************************************************)
(* IrcConnection with a clock that respects deadlines: the connection      *)
(* thread polls every few milliseconds, so it looks at every second of     *)
(* silence, and the server is reachable and answers a PING in time.  Does   *)
(* the client then keep its connection?                                    *)
(***************************************************************************)
EXTENDS IrcConnection

CONSTANT AnswerDelay     \* the server answers a PING within this time

ASSUME KeepAliveAssumption ==
  AnswerDelay \in Nat /\ PingAfter + 1 + AnswerDelay <= DeadAfter

VARIABLE age             \* how long a PING has been unanswered

timedVars == <<vars, age>>

TimelyInit == Init /\ age = 0

\* Steps of the threads and of the server take no time.
Instant ==
  /\ ThreadStep \/ GuiStep \/ (\E kind \in Kinds : ServerSends(kind)) \/ Stopped
  /\ age' = IF owed' THEN age ELSE 0

\* Time passes when nothing is due: no line waits, no PING is to be sent, no
\* answer is late.
TimelyTick ==
  /\ pc = "read" /\ inbox = <<>>
  /\ quiet > PingAfter => send_ping
  /\ owed => age < AnswerDelay
  /\ Tick
  /\ age' = IF owed THEN age + 1 ELSE 0

TimelySpec == TimelyInit /\ [][Instant \/ TimelyTick]_timedVars

\* irc_client.cc:37-48, 64-66, 155-157: a connection to a server that answers
\* is never given up, unless the session began with a send_ping left over from
\* an earlier one (disconnect() and reset() do not reset it).
NeverDropped == pc = "outage" => inherited
-----------------------------------------------------------------------------
(* What makes NeverDropped inductive                                        *)

\* A PING is out no longer than the server takes to answer.
AgeInTime == age \in 0 .. AnswerDelay /\ (~owed => age = 0)

\* No outage has been seen, and a first registration starts without send_ping.
NoOutage ==
  /\ pc \notin {"outage", "close", "delete", "reopen", "retest", "leave"}
  /\ pc \in Registering \cup {"open"} => ~again /\ ~send_ping
  /\ pc \in Registering \cup Looping => link = "up"

\* While send_ping is set the server owes the answer, or it waits to be read.
PingAnswered ==
  pc \in Looping /\ send_ping => owed \/ \E i \in DOMAIN inbox : inbox[i] = "PONG"

\* The silence is that before the PING and that since.
SilenceBounded ==
  pc \in Looping => quiet <= PingAfter + 1 + (IF ~send_ping THEN 0
                                              ELSE IF owed THEN age ELSE AnswerDelay)

TimelyInv ==
  CInv /\ AgeInTime /\ (~inherited => NoOutage /\ PingAnswered /\ SilenceBounded)
=============================================================================
