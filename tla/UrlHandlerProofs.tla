-------------------------- MODULE UrlHandlerProofs --------------------------
(***************************************************************************)
(* UrlHandler for any number of instances and incidents: types, that a URL  *)
(* is handled once, and that its channel waits or is asked for.             *)
(***************************************************************************)
EXTENDS UrlHandler, SequenceTheorems, TLAPS

\* The names of places, phases and wishes are known everywhere below.
USE DEF Starts, Entered, Phase, Wish

\* What joins and leaves the queue of a socket.
LEMMA AppendFacts ==
  ASSUME NEW S, NEW s \in Seq(S), NEW e \in S
  PROVE  /\ ToSet(Append(s, e)) = ToSet(s) \cup {e}
         /\ NoDup(s) /\ e \notin ToSet(s) => NoDup(Append(s, e))
<1>1. /\ Append(s, e) \in Seq(S)
      /\ DOMAIN Append(s, e) = 1 .. Len(s) + 1
      /\ DOMAIN s = 1 .. Len(s) /\ Len(s) \in Nat
      /\ Append(s, e)[Len(s) + 1] = e
      /\ \A k \in 1 .. Len(s) : Append(s, e)[k] = s[k]
  OBVIOUS
<1>2. 1 .. Len(s) + 1 = 1 .. Len(s) \cup {Len(s) + 1}
  BY <1>1
<1>3. ToSet(Append(s, e)) = ToSet(s) \cup {e}
  BY <1>1, <1>2 DEF ToSet
<1>4. ASSUME NoDup(s), e \notin ToSet(s) PROVE NoDup(Append(s, e))
  BY <1>1, <1>2, <1>4 DEF NoDup, ToSet
<1> QED BY <1>3, <1>4

LEMMA TailFacts ==
  ASSUME NEW S, NEW s \in Seq(S), s # <<>>
  PROVE  /\ ToSet(s) = ToSet(Tail(s)) \cup {Head(s)}
         /\ NoDup(s) => NoDup(Tail(s)) /\ Head(s) \notin ToSet(Tail(s))
<1>1. /\ Tail(s) \in Seq(S) /\ Len(s) \in Nat \ {0}
      /\ DOMAIN s = 1 .. Len(s) /\ DOMAIN Tail(s) = 1 .. Len(s) - 1
      /\ Head(s) = s[1]
      /\ \A k \in 1 .. Len(s) - 1 : Tail(s)[k] = s[k + 1]
  OBVIOUS
<1>2. \A k \in 1 .. Len(s) : k = 1 \/ (k - 1 \in 1 .. Len(s) - 1 /\ s[k] = Tail(s)[k - 1])
  BY <1>1
<1>3. \A k \in 1 .. Len(s) - 1 : k + 1 \in 1 .. Len(s) /\ k + 1 # 1
  BY <1>1
<1>4. ToSet(s) = ToSet(Tail(s)) \cup {Head(s)}
  <2>1. ASSUME NEW k \in 1 .. Len(s) PROVE s[k] \in ToSet(Tail(s)) \cup {Head(s)}
    <3>1. CASE k = 1
      BY <1>1, <3>1
    <3>2. CASE k - 1 \in 1 .. Len(s) - 1 /\ s[k] = Tail(s)[k - 1]
      BY <1>1, <3>2 DEF ToSet
    <3> QED BY <1>2, <2>1, <3>1, <3>2
  <2>2. ToSet(Tail(s)) \cup {Head(s)} \subseteq ToSet(s)
    BY <1>1, <1>3 DEF ToSet
  <2> QED BY <1>1, <2>1, <2>2 DEF ToSet
<1>5. ASSUME NoDup(s) PROVE NoDup(Tail(s)) /\ Head(s) \notin ToSet(Tail(s))
  BY <1>1, <1>3, <1>5 DEF NoDup, ToSet
<1> QED BY <1>4, <1>5

LEMMA QueueFacts ==
  ASSUME TypeOK, NEW i \in Instance
  PROVE  /\ queue[i] \in Seq(Instance) /\ ToSet(queue[i]) \subseteq Instance
         /\ serving[i] \in Instance \cup {Nobody}
         /\ Connected(i) \subseteq Instance \cup {Nobody}
         /\ Nobody \notin Instance
<1>1. queue[i] \in Seq(Instance) /\ serving[i] \in Instance \cup {Nobody}
  BY DEF TypeOK
<1>2. DOMAIN queue[i] = 1 .. Len(queue[i]) /\ \A k \in 1 .. Len(queue[i]) : queue[i][k] \in Instance
  BY <1>1
<1>3. ToSet(queue[i]) \subseteq Instance
  BY <1>2 DEF ToSet
<1>4. Nobody \notin Instance
  BY UrlHandlerAssumption DEF Nobody, Instance
<1> QED BY <1>1, <1>3, <1>4 DEF Connected
-----------------------------------------------------------------------------
(* Types                                                                    *)

\* An instance that dies or ends leaves everything well-typed.
LEMMA DiesTypes == ASSUME TypeOK, NEW i \in Instance, Dies(i)
                   PROVE  /\ pc' \in [Instance -> {"off", "done", "crashed"}
                                               \cup Starts \cup Entered]
                          /\ listening' \in [Instance -> BOOLEAN]
                          /\ queue' \in [Instance -> Seq(Instance)]
                          /\ serving' \in [Instance -> Instance \cup {Nobody}]
                          /\ answer' \in [Instance -> {"none", "received", "end"}]
                          /\ net' \in [Instance -> Phase]
                          /\ chan' \in [Instance -> [Instance -> Wish]]
                          /\ UNCHANGED <<path, peer, sent>>
<1>1. <<>> \in Seq(Instance)
  OBVIOUS
<1> QED BY <1>1 DEF TypeOK, Dies, Goto, CloseSocket, Ends, NoNetwork

LEMMA AskedTypes == ASSUME TypeOK, NEW i \in Instance, NEW j \in Instance, ~Crashes(i, j)
                    PROVE  Asked(i, j)[1] \in Phase /\ Asked(i, j)[2] \in Wish \ {"no", "quit"}
BY DEF TypeOK, Asked, Crashes

LEMMA NotedTypes == ASSUME TypeOK, NEW i \in Instance, NEW j \in Instance, Noted(i, j)
                    PROVE  handled' \in [Instance -> [Instance -> BOOLEAN]]
BY DEF TypeOK, Noted

LEMMA HandleTypes ==
  ASSUME TypeOK, NEW i \in Instance, NEW j \in Instance, ~Crashes(i, j), Handle(i, j)
  PROVE  /\ net' \in [Instance -> Phase]
         /\ chan' \in [Instance -> [Instance -> Wish]]
         /\ handled' \in [Instance -> [Instance -> BOOLEAN]]
BY AskedTypes, NotedTypes DEF TypeOK, Handle

LEMMA EndedTypes ==
  ASSUME TypeOK, NEW i \in Instance
  PROVE  /\ [j \in Instance |-> Quit(chan[i][j])] \in [Instance -> Wish]
         /\ [j \in Instance |-> Deleted(chan[i][j])] \in [Instance -> Wish]
<1>1. \A of \in Wish : Quit(of) \in Wish /\ Deleted(of) \in Wish
  BY DEF Quit, Deleted
<1>2. \A j \in Instance : chan[i][j] \in Wish
  BY DEF TypeOK
<1> QED BY <1>1, <1>2

LEMMA TypesKept == TypeOK /\ [Next]_vars => TypeOK'
<1> SUFFICES ASSUME TypeOK, [Next]_vars PROVE TypeOK'
  OBVIOUS
<1>0. Nobody = 0 /\ MaxIncidents \in Nat /\ <<>> \in Seq(Instance)
  BY UrlHandlerAssumption DEF Nobody
<1>1. CASE UNCHANGED vars
  BY <1>1 DEF TypeOK, vars, wire, work
<1>2. ASSUME NEW i \in Instance, Start(i) \/ Listen(i) \/ Leave(i) \/ CloseAll(i) PROVE TypeOK'
  BY <1>2 DEF TypeOK, Start, Listen, Leave, CloseAll, Goto, wire, work
<1>13. ASSUME NEW i \in Instance, OpenSocket(i) \/ Greet(i) \/ Connect(i) PROVE TypeOK'
  BY <1>13 DEF TypeOK, OpenSocket, Greet, Connect, Goto, wire
<1>14. ASSUME NEW i \in Instance, Register(i) PROVE TypeOK'
  <2>1. chan' \in [Instance -> [Instance -> Wish]]
    BY <1>14 DEF TypeOK, Register
  <2> QED BY <1>14, <2>1 DEF TypeOK, Register, wire
<1>16. ASSUME NEW i \in Instance, EndConnection(i) PROVE TypeOK'
  <2>1. PICK wish \in [Instance -> Wish], to \in {"left", "absent"}, p \in {"loop", "parted"} :
          /\ chan' = [chan EXCEPT ![i] = wish]
          /\ net' = [net EXCEPT ![i] = to]
          /\ pc' = [pc EXCEPT ![i] = p]
    BY <1>16, EndedTypes DEF EndConnection, Goto
  <2> QED BY <1>16, <2>1 DEF TypeOK, EndConnection, wire
<1>17. ASSUME NEW i \in Instance, Delete(i) PROVE TypeOK'
  <2>1. incidents' \in 0 .. MaxIncidents
    BY <1>0, <1>17 DEF Delete, Chosen, TypeOK
  <2>2. CASE net[i] = "left"
    <3>1. PICK wish \in [Instance -> Wish] : chan' = [chan EXCEPT ![i] = wish]
      BY <1>17, <2>2, EndedTypes DEF Delete
    <3> QED BY <1>17, <2>1, <2>2, <3>1 DEF TypeOK, Delete, wire
  <2>3. CASE net[i] # "left"
    BY <1>17, <2>1, <2>3 DEF TypeOK, Delete, Goto, wire
  <2> QED BY <2>2, <2>3
<1>15. ASSUME NEW i \in Instance, KillServing(i) PROVE TypeOK'
  <2>1. incidents' \in 0 .. MaxIncidents /\ serving[i] \in Instance
    BY <1>0, <1>15 DEF KillServing, TypeOK
  <2>2. handled' \in [Instance -> [Instance -> BOOLEAN]]
    BY <1>15, <2>1, NotedTypes DEF KillServing
  <2> QED BY <1>15, <2>1, <2>2, DiesTypes DEF KillServing, TypeOK
<1>3. ASSUME NEW i \in Instance, Kill(i) PROVE TypeOK'
  <2>1. incidents' \in 0 .. MaxIncidents
    BY <1>0, <1>3 DEF Kill, TypeOK
  <2> QED BY <1>3, <2>1, DiesTypes DEF Kill, TypeOK
<1>4. ASSUME NEW i \in Instance, Try(i) PROVE TypeOK'
  <2>1. CASE path # Nobody /\ listening[path]
    <3>1. path \in Instance /\ Append(queue[path], i) \in Seq(Instance)
      BY <2>1 DEF TypeOK
    <3>2. /\ queue' = [queue EXCEPT ![path] = Append(queue[path], i)]
          /\ peer' = [peer EXCEPT ![i] = path]
          /\ pc' = [pc EXCEPT ![i] = "send"]
      BY <1>4, <2>1 DEF Try, Goto
    <3>3. queue' \in [Instance -> Seq(Instance)] /\ peer' \in [Instance -> Instance \cup {Nobody}]
      BY <3>1, <3>2 DEF TypeOK
    <3> QED BY <1>4, <3>2, <3>3 DEF TypeOK, Try, work
  <2>2. CASE ~(path # Nobody /\ listening[path])
    BY <1>4, <2>2 DEF TypeOK, Try, Goto, work
  <2> QED BY <2>1, <2>2
<1>5. ASSUME NEW i \in Instance, Send(i) PROVE TypeOK'
  <2>1. CASE Dies(i)
    BY <1>5, <2>1, DiesTypes DEF TypeOK, Send
  <2>2. CASE ~Dies(i)
    BY <1>5, <2>2 DEF TypeOK, Send, Goto
  <2> QED BY <2>1, <2>2
<1>6. ASSUME NEW i \in Instance, Wait(i) PROVE TypeOK'
  BY <1>0, <1>6 DEF TypeOK, Wait, Goto, work
<1>18. ASSUME NEW i \in Instance, Open(i) PROVE TypeOK'
  BY <1>0, <1>18, UrlHandlerAssumption DEF TypeOK, Open, Goto
<1>19. ASSUME NEW i \in Instance, Bind(i) PROVE TypeOK'
  BY <1>19 DEF TypeOK, Bind, Goto, work
<1>7. ASSUME NEW i \in Instance, HandleOwn(i) PROVE TypeOK'
  <2>1. CASE Crashes(i, i)
    BY <1>7, <2>1, DiesTypes DEF TypeOK, HandleOwn
  <2>2. CASE ~Crashes(i, i)
    BY <1>7, <2>2, HandleTypes DEF TypeOK, HandleOwn, Goto, wire
  <2> QED BY <2>1, <2>2
<1>8. ASSUME NEW i \in Instance, Accept(i) PROVE TypeOK'
  <2>1. Head(queue[i]) \in Instance /\ Tail(queue[i]) \in Seq(Instance)
    BY <1>8 DEF Accept, TypeOK
  <2> QED BY <1>8, <2>1 DEF TypeOK, Accept, work
<1>9. ASSUME NEW i \in Instance, Serve(i) PROVE TypeOK'
  <2>1. serving[i] \in Instance
    BY <1>9 DEF Serve, TypeOK
  <2>2. CASE Dies(i)
    <3>1. Noted(i, serving[i]) \/ UNCHANGED handled
      BY <1>9 DEF Serve, Handle, work
    <3>2. handled' \in [Instance -> [Instance -> BOOLEAN]]
      BY <2>1, <3>1, NotedTypes DEF TypeOK
    <3>3. UNCHANGED incidents
      BY <1>9 DEF Serve
    <3> QED BY <2>2, <3>2, <3>3, DiesTypes DEF TypeOK
  <2>3. CASE ~Dies(i) /\ ~Crashes(i, serving[i]) /\ sent[serving[i]]
    <3>1. Handle(i, serving[i])
      BY <1>9, <2>3 DEF Serve
    <3> QED BY <1>9, <2>1, <2>3, <3>1, HandleTypes DEF TypeOK, Serve
  <2>4. CASE ~Dies(i) /\ ~sent[serving[i]]
    BY <1>0, <1>9, <2>4 DEF TypeOK, Serve, work
  <2> QED BY <1>9, <2>2, <2>3, <2>4 DEF Serve
<1>10. ASSUME NEW i \in Instance, Close(i) PROVE TypeOK'
  BY <1>0, <1>10 DEF TypeOK, Close, CloseSocket, Ends, Goto, work
<1>11. ASSUME NEW i \in Instance, Unlink(i) PROVE TypeOK'
  BY <1>0, <1>11 DEF TypeOK, Unlink, NoNetwork, Goto
<1>12. ASSUME NEW i \in Instance, Disconnect(i) PROVE TypeOK'
  <2>1. incidents' \in 0 .. MaxIncidents /\ UNCHANGED handled
    BY <1>0, <1>12 DEF Disconnect, Chosen, TypeOK
  <2>2. CASE Dies(i)
    BY <2>1, <2>2, DiesTypes DEF TypeOK
  <2>3. CASE ~Dies(i)
    BY <1>12, <2>1, <2>3 DEF TypeOK, Disconnect, Goto, wire
  <2> QED BY <2>2, <2>3
<1> QED
  BY <1>1, <1>2, <1>3, <1>4, <1>5, <1>6, <1>7, <1>8, <1>9, <1>10, <1>11, <1>12,
     <1>13, <1>14, <1>15, <1>16, <1>17,
     <1>18, <1>19
  DEF Next, Step
-----------------------------------------------------------------------------
(* A URL is handed over                                                     *)

LEMMA NotedFacts ==
  ASSUME TypeOK, NEW i \in Instance, NEW j \in Instance, Noted(i, j)
  PROVE  /\ handled'[i][j]
         /\ \A k, l \in Instance : k # i \/ l # j => handled'[k][l] = handled[k][l]
         /\ \A k \in Instance \ {i} : handled'[k] = handled[k]
BY DEF TypeOK, Noted

\* Where one instance is changes, and nothing else of where they are.
LEMMA GotoFacts ==
  ASSUME TypeOK, NEW i \in Instance, NEW p, Goto(i, p)
  PROVE  pc'[i] = p /\ \A k \in Instance \ {i} : pc'[k] = pc[k]
BY DEF TypeOK, Goto

\* A closed socket leaves its connections, and only those, an end.
LEMMA CloseFacts ==
  ASSUME TypeOK, Linked, NEW i \in Instance, CloseSocket(i)
  PROVE  /\ Connected(i)' = {Nobody} /\ queue'[i] = <<>> /\ serving'[i] = Nobody
         /\ \A k \in Instance \ {i} : /\ Connected(k)' = Connected(k)
                                      /\ queue'[k] = queue[k] /\ serving'[k] = serving[k]
         /\ \A j \in Instance :
              /\ j \in Connected(i) => answer'[j] = "end"
              /\ j \notin Connected(i) => answer'[j] = answer[j]
              /\ answer'[j] = "received" <=> answer[j] = "received"
<1>1. queue'[i] = <<>> /\ serving'[i] = Nobody
  BY DEF CloseSocket, TypeOK
<1>2. \A k \in Instance \ {i} : queue'[k] = queue[k] /\ serving'[k] = serving[k]
  BY DEF CloseSocket, TypeOK
<1>3. ToSet(<<>>) = {}
  BY DEF ToSet
<1>4. \A j \in Instance : j \in Connected(i) => answer[j] = "none"
  BY QueueFacts DEF Linked
<1>5. \A j \in Instance : answer'[j] = IF j \in Connected(i) /\ answer[j] = "none"
                                       THEN "end" ELSE answer[j]
  BY DEF CloseSocket, Ends
<1> QED BY <1>1, <1>2, <1>3, <1>4, <1>5 DEF Connected

\* When a socket is closed everyone else is linked as before.
LEMMA CloseLinked ==
  ASSUME TypeOK, Linked, NEW i \in Instance, CloseSocket(i), UNCHANGED peer,
         \A k \in Instance : pc'[k] = pc[k] \/ (k = i /\ pc'[k] \in {"crashed", "closing"}),
         pc'[i] = "crashed" \/ pc[i] = "parted"
  PROVE  Linked'
<1>1. NoDup(<<>>) /\ ToSet(<<>>) = {}
  BY DEF NoDup, ToSet
<1>2. ASSUME NEW k \in Instance \ {i}, NEW j \in Connected(k) \ {Nobody}
      PROVE  peer'[j] = k /\ answer'[j] = "none" /\ pc'[j] \in {"send", "wait", "crashed"}
  <2>1. /\ j \in Instance
        /\ peer[j] = k /\ answer[j] = "none" /\ pc[j] \in {"send", "wait", "crashed"}
    BY <1>2, QueueFacts DEF Linked
  <2>2. j \notin Connected(i)
    BY <1>2, <2>1, QueueFacts DEF Linked
  <2> QED BY <1>2, <2>1, <2>2, CloseFacts
<1>3. ASSUME NEW k \in Instance \ {i}
      PROVE  NoDup(queue'[k]) /\ serving'[k] \notin ToSet(queue'[k])
  BY <1>3, CloseFacts DEF Linked
<1> QED BY <1>1, <1>2, <1>3, CloseFacts DEF Linked

\* An instance that dies may have handled a URL that it served.
LEMMA DiesHanded ==
  ASSUME TypeOK, Handed, NEW i \in Instance, Dies(i), pc[i] \notin {"off", "done", "ended"},
         \/ UNCHANGED handled
         \/ \E j \in Instance \ {i} : Noted(i, j)
  PROVE  Handed'
<1> USE DEF Handed
<1>1. /\ pc'[i] = "crashed" /\ \A k \in Instance \ {i} : pc'[k] = pc[k]
      /\ UNCHANGED <<peer, sent>> /\ CloseSocket(i)
  BY GotoFacts DEF Dies
<1>2. \A k, l \in Instance : k # i => handled'[k][l] = handled[k][l]
  BY NotedFacts
<1>3. \A k \in Instance : handled'[k][k] = handled[k][k]
  BY NotedFacts
<1>4. \A k, l \in Instance : handled[k][l] => handled'[k][l]
  BY NotedFacts
<1>5. Own'
  BY <1>1, <1>3 DEF Own
<1>6. Linked'
  BY <1>1, CloseLinked
<1>7. Silent'
  BY <1>1, CloseFacts, QueueFacts DEF Silent, Linked
<1>8. Answered'
  BY <1>1, <1>4, CloseFacts DEF Answered
<1>9. Elsewhere'
  BY <1>1, <1>2, CloseFacts DEF Elsewhere
<1> QED BY <1>5, <1>6, <1>7, <1>8, <1>9

LEMMA TryHanded == ASSUME TypeOK, Handed, NEW i \in Instance, Try(i) PROVE Handed'
<1> USE DEF Handed
<1>1. pc[i] = "try" /\ UNCHANGED <<serving, sent, answer, handled>>
  BY DEF Try, work
<1>2. answer[i] = "none" /\ \A k \in Instance : i \notin Connected(k)
  BY <1>1, UrlHandlerAssumption DEF Silent, Linked, Nobody, Instance
<1>3. CASE path # Nobody /\ listening[path]
  <2>1. PICK q \in Instance :
        /\ queue' = [queue EXCEPT ![q] = Append(queue[q], i)]
        /\ peer' = [peer EXCEPT ![i] = q]
        /\ Goto(i, "send")
    BY <1>3 DEF TypeOK, Try
  <2>2. pc'[i] = "send" /\ \A k \in Instance \ {i} : pc'[k] = pc[k]
    BY <2>1, GotoFacts
  <2>3. peer'[i] = q /\ \A k \in Instance \ {i} : peer'[k] = peer[k]
    BY <2>1 DEF TypeOK
  <2>4. queue'[q] = Append(queue[q], i) /\ \A k \in Instance \ {q} : queue'[k] = queue[k]
    BY <2>1 DEF TypeOK
  <2>5. /\ ToSet(queue'[q]) = ToSet(queue[q]) \cup {i}
        /\ NoDup(queue[q]) /\ i \notin ToSet(queue[q]) => NoDup(queue'[q])
    BY <2>1, <2>4, AppendFacts DEF TypeOK
  <2>6. /\ Connected(q)' = Connected(q) \cup {i}
        /\ \A k \in Instance \ {q} : Connected(k)' = Connected(k)
    BY <1>1, <2>4, <2>5 DEF Connected
  <2>7. Own' /\ Silent'
    BY <1>1, <1>2, <2>2 DEF Own, Silent
  <2>8. Linked'
    <3>1. ASSUME NEW k \in Instance, NEW j \in Connected(k)' \ {Nobody}
          PROVE  peer'[j] = k /\ answer'[j] = "none" /\ pc'[j] \in {"send", "wait", "crashed"}
      <4>1. CASE j = i
        BY <1>1, <1>2, <2>2, <2>3, <2>6, <3>1, <4>1
      <4>2. CASE j # i
        <5>1. j \in Connected(k) \ {Nobody} /\ j \in Instance
          BY <2>1, <2>6, <3>1, <4>2, QueueFacts
        <5> QED BY <1>1, <2>2, <2>3, <4>2, <5>1 DEF Linked
      <4> QED BY <4>1, <4>2
    <3>2. ASSUME NEW k \in Instance
          PROVE  NoDup(queue'[k]) /\ serving'[k] \notin ToSet(queue'[k])
      <4>1. CASE k = q
        BY <1>1, <1>2, <2>1, <2>5, <4>1 DEF Linked, Connected
      <4>2. CASE k # q
        BY <1>1, <2>4, <3>2, <4>2 DEF Linked
      <4> QED BY <4>1, <4>2
    <3> QED BY <3>1, <3>2 DEF Linked
  <2>9. Answered' /\ Elsewhere'
    BY <1>1, <1>2, <2>2, <2>3 DEF Answered, Elsewhere
  <2> QED BY <2>7, <2>8, <2>9
<1>4. CASE ~(path # Nobody /\ listening[path])
  <2>1. Goto(i, "open") /\ UNCHANGED <<queue, peer>>
    BY <1>4 DEF Try
  <2>2. pc'[i] = "open" /\ \A k \in Instance \ {i} : pc'[k] = pc[k]
    BY <2>1, GotoFacts
  <2>3. \A k \in Instance : Connected(k)' = Connected(k)
    BY <1>1, <2>1 DEF Connected
  <2>4. Linked'
    BY <1>1, <1>2, <2>1, <2>2, <2>3, QueueFacts DEF Linked
  <2> QED BY <1>1, <1>2, <2>1, <2>2, <2>4 DEF Own, Silent, Answered, Elsewhere
<1> QED BY <1>3, <1>4

\* Steps that leave all of it alone.
LEMMA SameHanded ==
  ASSUME Handed, UNCHANGED <<pc, queue, serving, peer, sent, answer, handled>>
  PROVE  Handed'
BY DEF Handed, Own, Linked, Silent, Answered, Elsewhere, Connected

\* Moving to another place, without becoming the program or ceasing to be it.
LEMMA MoveHanded ==
  ASSUME TypeOK, Handed, NEW i \in Instance, NEW p, Goto(i, p),
         UNCHANGED <<queue, serving, peer, sent, answer, handled>>,
         pc[i] \notin {"send", "wait", "done", "crashed"}, p \notin {"off", "send", "done"},
         p = "try" => pc[i] = "off", p \in Entered <=> pc[i] \in Entered
  PROVE  Handed'
<1> USE DEF Handed
<1>1. pc'[i] = p /\ \A k \in Instance \ {i} : pc'[k] = pc[k]
  BY GotoFacts
<1>2. \A k \in Instance : i \notin Connected(k) /\ Connected(k)' = Connected(k)
  BY UrlHandlerAssumption DEF Linked, Nobody, Instance, Connected
<1>3. Own'
  BY <1>1 DEF Own
<1>4. Linked'
  BY <1>1, <1>2, QueueFacts DEF Linked
<1>5. Silent' /\ Answered' /\ Elsewhere'
  BY <1>1 DEF Silent, Answered, Elsewhere
<1> QED BY <1>3, <1>4, <1>5

LEMMA SendHanded ==
  ASSUME TypeOK, Handed, NEW i \in Instance, Send(i), ~Dies(i) PROVE Handed'
<1> USE DEF Handed
<1>1. /\ pc[i] = "send" /\ Goto(i, "wait")
      /\ UNCHANGED <<queue, serving, peer, answer, handled>>
      /\ sent' = [sent EXCEPT ![i] = TRUE]
  BY DEF Send
<1>2. /\ pc'[i] = "wait" /\ \A k \in Instance \ {i} : pc'[k] = pc[k]
      /\ \A k \in Instance \ {i} : sent'[k] = sent[k]
  BY <1>1, GotoFacts DEF TypeOK
<1>3. \A k \in Instance : Connected(k)' = Connected(k)
  BY <1>1 DEF Connected
<1>4. Linked'
  BY <1>1, <1>2, <1>3, QueueFacts DEF Linked
<1> QED BY <1>1, <1>2, <1>4 DEF Own, Silent, Answered, Elsewhere

LEMMA WaitHanded == ASSUME TypeOK, Handed, NEW i \in Instance, Wait(i) PROVE Handed'
<1> USE DEF Handed
<1>1. pc[i] = "wait" /\ UNCHANGED <<queue, serving, handled>>
  BY DEF Wait, work
<1>2. \A k \in Instance : Connected(k)' = Connected(k)
  BY <1>1 DEF Connected
<1>3. answer[i] # "none" /\ \A k \in Instance : i \notin Connected(k)
  BY UrlHandlerAssumption DEF Wait, Linked, Nobody, Instance
<1>4. CASE answer[i] = "received" /\ Goto(i, "done") /\ UNCHANGED <<peer, sent, answer>>
  <2>1. pc'[i] = "done" /\ \A k \in Instance \ {i} : pc'[k] = pc[k]
    BY <1>4, GotoFacts
  <2>2. Linked'
    BY <1>1, <1>2, <1>3, <1>4, <2>1, QueueFacts DEF Linked
  <2> QED BY <1>1, <1>4, <2>1, <2>2 DEF Own, Silent, Answered, Elsewhere
<1>5. CASE /\ answer[i] = "end" /\ Goto(i, "open")
           /\ peer' = [peer EXCEPT ![i] = Nobody]
           /\ sent' = [sent EXCEPT ![i] = FALSE]
           /\ answer' = [answer EXCEPT ![i] = "none"]
  <2>1. /\ pc'[i] = "open" /\ answer'[i] = "none" /\ ~sent'[i]
        /\ \A k \in Instance \ {i} : /\ pc'[k] = pc[k] /\ answer'[k] = answer[k]
                                     /\ sent'[k] = sent[k] /\ peer'[k] = peer[k]
    BY <1>5, GotoFacts DEF TypeOK
  <2>2. Linked'
    BY <1>1, <1>2, <1>3, <2>1, QueueFacts DEF Linked
  <2> QED BY <1>1, <1>5, <2>1, <2>2 DEF Own, Silent, Answered, Elsewhere
<1> QED BY <1>4, <1>5 DEF Wait

LEMMA HandleOwnHanded ==
  ASSUME TypeOK, Handed, NEW i \in Instance, HandleOwn(i) PROVE Handed'
<1> USE DEF Handed
<1>1. CASE Crashes(i, i)
  BY <1>1, DiesHanded DEF HandleOwn
<1>2. CASE ~Crashes(i, i)
  <2>1. /\ pc[i] = "own" /\ Goto(i, "loop") /\ Noted(i, i)
        /\ UNCHANGED <<queue, serving, peer, sent, answer>>
    BY <1>2 DEF HandleOwn, Handle, wire
  <2>2. pc'[i] = "loop" /\ \A k \in Instance \ {i} : pc'[k] = pc[k]
    BY <2>1, GotoFacts
  <2>3. /\ handled'[i][i]
        /\ \A k, l \in Instance : k # i \/ l # i => handled'[k][l] = handled[k][l]
    BY <2>1, NotedFacts
  <2>4. \A k \in Instance : Connected(k)' = Connected(k) /\ i \notin Connected(k)
    BY <2>1, UrlHandlerAssumption DEF Connected, Linked, Nobody, Instance
  <2>5. Own' /\ Silent' /\ Elsewhere'
    BY <2>1, <2>2, <2>3 DEF Own, Silent, Elsewhere
  <2>6. Linked'
    BY <2>1, <2>2, <2>4, QueueFacts DEF Linked
  <2>7. Answered'
    BY <2>1, <2>2, <2>3 DEF Answered
  <2> QED BY <2>5, <2>6, <2>7
<1> QED BY <1>1, <1>2

LEMMA AcceptHanded == ASSUME TypeOK, Handed, NEW i \in Instance, Accept(i) PROVE Handed'
<1> USE DEF Handed
<1>1. /\ queue[i] # <<>> /\ queue[i] \in Seq(Instance)
      /\ UNCHANGED <<pc, peer, sent, answer, handled>>
      /\ serving'[i] = Head(queue[i]) /\ queue'[i] = Tail(queue[i])
      /\ \A k \in Instance \ {i} : serving'[k] = serving[k] /\ queue'[k] = queue[k]
  BY DEF Accept, TypeOK, work
<1>2. /\ ToSet(queue[i]) = ToSet(queue'[i]) \cup {serving'[i]}
      /\ NoDup(queue'[i]) /\ serving'[i] \notin ToSet(queue'[i])
  BY <1>1, TailFacts DEF Linked
<1>3. \A k \in Instance : Connected(k)' \subseteq Connected(k)
  BY <1>1, <1>2 DEF Connected
<1>4. Linked'
  <2>1. ASSUME NEW k \in Instance, NEW j \in Connected(k)' \ {Nobody}
        PROVE  peer'[j] = k /\ answer'[j] = "none" /\ pc'[j] \in {"send", "wait", "crashed"}
    BY <1>1, <1>3, <2>1 DEF Linked
  <2>2. ASSUME NEW k \in Instance
        PROVE  NoDup(queue'[k]) /\ serving'[k] \notin ToSet(queue'[k])
    BY <1>1, <1>2, <2>2 DEF Linked
  <2> QED BY <2>1, <2>2 DEF Linked
<1> QED BY <1>1, <1>4 DEF Own, Silent, Answered, Elsewhere

\* The connection that is served ends, with an answer or without.
LEMMA ServedLinked ==
  ASSUME TypeOK, Linked, NEW i \in Instance, serving[i] \in Instance,
         UNCHANGED <<pc, queue, peer>>, serving' = [serving EXCEPT ![i] = Nobody],
         \A k \in Instance : k # serving[i] => answer'[k] = answer[k]
  PROVE  Linked'
<1>1. serving'[i] = Nobody /\ \A k \in Instance \ {i} : serving'[k] = serving[k]
  BY DEF TypeOK
<1>2. \A k \in Instance : Connected(k)' \subseteq Connected(k) \cup {Nobody}
  BY <1>1 DEF Connected
<1>3. ASSUME NEW k \in Instance, NEW j \in Connected(k)' \ {Nobody}
      PROVE  peer'[j] = k /\ answer'[j] = "none" /\ pc'[j] \in {"send", "wait", "crashed"}
  <2>1. j \in Connected(k) \ {Nobody} /\ j \in Instance
    BY <1>2, <1>3, QueueFacts
  <2>2. serving[i] \in Connected(i) \ {Nobody}
    BY QueueFacts DEF Connected
  <2>3. CASE k = i
    <3>1. j \in ToSet(queue[i])
      BY <1>1, <1>3, <2>3 DEF Connected
    <3> QED BY <2>1, <2>3, <3>1 DEF Linked
  <2>4. CASE k # i
    BY <2>1, <2>2, <2>4 DEF Linked
  <2> QED BY <2>3, <2>4
<1>4. ASSUME NEW k \in Instance
      PROVE  NoDup(queue'[k]) /\ serving'[k] \notin ToSet(queue'[k])
  BY <1>1, <1>4, QueueFacts DEF Linked
<1> QED BY <1>3, <1>4 DEF Linked

LEMMA ServeHanded == ASSUME TypeOK, Handed, NEW i \in Instance, Serve(i) PROVE Handed'
<1> USE DEF Handed
<1>1. PICK j \in Instance : j = serving[i]
  BY DEF Serve, TypeOK
<1>2. /\ pc[i] = "loop" /\ j \in Connected(i) \ {Nobody}
      /\ peer[j] = i /\ answer[j] = "none" /\ pc[j] \in {"send", "wait", "crashed"}
  BY <1>1, QueueFacts DEF Serve, Connected, Linked
<1>3. CASE Dies(i)
  <2>1. UNCHANGED handled \/ Noted(i, j)
    BY <1>1 DEF Serve, Handle, work
  <2> QED BY <1>2, <1>3, <2>1, DiesHanded
<1>4. CASE /\ ~Dies(i) /\ sent[j] /\ pc[j] # "crashed"
  <2>1. /\ Noted(i, j) /\ UNCHANGED <<pc, queue, peer, sent>>
        /\ serving' = [serving EXCEPT ![i] = Nobody]
        /\ answer' = [answer EXCEPT ![j] = "received"]
    BY <1>1, <1>4 DEF Serve, Handle
  <2>2. pc[j] = "wait"
    BY <1>2, <1>4 DEF Silent
  <2>3. answer'[j] = "received" /\ \A k \in Instance \ {j} : answer'[k] = answer[k]
    BY <2>1 DEF TypeOK
  <2>4. /\ handled'[i][j]
        /\ \A k, l \in Instance : k # i \/ l # j => handled'[k][l] = handled[k][l]
    BY <2>1, NotedFacts
  <2>5. Linked'
    BY <1>1, <2>1, <2>3, ServedLinked
  <2>6. Own' /\ Silent'
    BY <1>2, <2>1, <2>2, <2>3, <2>4 DEF Own, Silent
  <2>7. Answered'
    <3>1. ASSUME NEW k \in Instance, answer'[k] = "received"
          PROVE  /\ pc'[k] \in {"wait", "done", "crashed"}
                 /\ peer'[k] \in Instance /\ handled'[peer'[k]][k]
      <4>1. CASE k = j
        BY <1>2, <2>1, <2>2, <2>4, <4>1
      <4>2. CASE k # j
        BY <2>1, <2>3, <2>4, <3>1, <4>2 DEF Answered
      <4> QED BY <4>1, <4>2
    <3>2. \A k \in Instance : pc'[k] = "done" => answer'[k] = "received"
      BY <2>1, <2>3 DEF Answered
    <3> QED BY <3>1, <3>2 DEF Answered
  <2>8. Elsewhere'
    BY <1>2, <2>1, <2>3, <2>4 DEF Elsewhere
  <2> QED BY <2>5, <2>6, <2>7, <2>8
<1>5. CASE ~Dies(i) /\ ~(sent[j] /\ pc[j] # "crashed")
  <2>1. /\ UNCHANGED <<pc, queue, peer, sent, answer, handled>>
        /\ serving' = [serving EXCEPT ![i] = Nobody]
    BY <1>1, <1>5 DEF Serve, work
  <2>2. Linked'
    BY <1>1, <2>1, ServedLinked
  <2> QED BY <2>1, <2>2 DEF Own, Silent, Answered, Elsewhere
<1> QED BY <1>3, <1>4, <1>5

LEMMA CloseHanded == ASSUME TypeOK, Handed, NEW i \in Instance, Close(i) PROVE Handed'
<1> USE DEF Handed
<1>1. /\ pc[i] = "parted" /\ Goto(i, "closing") /\ CloseSocket(i)
      /\ UNCHANGED <<peer, sent, handled>>
  BY DEF Close, work
<1>2. pc'[i] = "closing" /\ \A k \in Instance \ {i} : pc'[k] = pc[k]
  BY <1>1, GotoFacts
<1>3. Linked'
  BY <1>1, <1>2, CloseLinked
<1>4. Own' /\ Answered' /\ Elsewhere'
  BY <1>1, <1>2, CloseFacts DEF Own, Answered, Elsewhere
<1>5. Silent'
  BY <1>1, <1>2, CloseFacts, QueueFacts DEF Silent, Linked
<1> QED BY <1>3, <1>4, <1>5

LEMMA HandedKept == TypeOK /\ Handed /\ [Next]_vars => Handed'
<1> SUFFICES ASSUME TypeOK, Handed, [Next]_vars PROVE Handed'
  OBVIOUS
<1>1. CASE UNCHANGED vars
  BY <1>1, SameHanded DEF vars, wire, work
<1>2. ASSUME NEW i \in Instance, OpenSocket(i) \/ Register(i) \/ Connect(i)
      PROVE  Handed'
  BY <1>2, SameHanded DEF OpenSocket, Register, Connect, wire
<1>7. ASSUME NEW i \in Instance,
             \/ Greet(i) \/ EndConnection(i) \/ (Disconnect(i) /\ ~Dies(i)) \/ Delete(i)
             \/ Leave(i) \/ CloseAll(i)
      PROVE  Handed'
  <2>1. UNCHANGED <<queue, serving, peer, sent, answer, handled>>
    BY <1>7 DEF Greet, EndConnection, Disconnect, Delete, Leave, CloseAll, wire, work
  <2>2. \/ UNCHANGED pc
        \/ \E p \in Entered : Goto(i, p) /\ pc[i] \in Entered
    BY <1>7 DEF Greet, EndConnection, Disconnect, Delete, Chosen, Leave, CloseAll
  <2> QED BY <2>1, <2>2, SameHanded, MoveHanded
<1>8. ASSUME NEW i \in Instance, Disconnect(i), Dies(i) PROVE Handed'
  BY <1>8, DiesHanded DEF Disconnect, Chosen
<1>3. ASSUME NEW i \in Instance, Start(i) \/ Open(i) \/ Bind(i) \/ Listen(i) \/ Unlink(i)
      PROVE  Handed'
  <2>1. PICK p : /\ Goto(i, p) /\ p \in {"try", "bind", "listen", "own", "ended"}
                 /\ p = "try" => pc[i] = "off"
                 /\ p = "ended" <=> pc[i] = "closing"
                 /\ pc[i] \in {"off", "open", "bind", "listen", "closing"}
    BY <1>3 DEF Start, Open, Bind, Listen, Unlink
  <2>2. UNCHANGED <<queue, serving, peer, sent, answer, handled>>
    BY <1>3 DEF Start, Open, Bind, Listen, Unlink, wire, work
  <2> QED BY <2>1, <2>2, MoveHanded
<1>4. ASSUME NEW i \in Instance, Kill(i) PROVE Handed'
  BY <1>4, DiesHanded DEF Kill, Living
<1>5. ASSUME NEW i \in Instance, KillServing(i) PROVE Handed'
  <2>1. /\ serving[i] \in Instance
        /\ serving[i] \in Connected(i) \ {Nobody}
    BY <1>5, QueueFacts DEF KillServing, TypeOK, Connected
  <2>2. serving[i] # i
    BY <1>5, <2>1 DEF KillServing, Handed, Linked
  <2> QED BY <1>5, <2>1, <2>2, DiesHanded DEF KillServing
<1>6. ASSUME NEW i \in Instance, Send(i) PROVE Handed'
  <2>1. CASE Dies(i)
    BY <1>6, <2>1, DiesHanded DEF Send
  <2> QED BY <1>6, <2>1, SendHanded
<1> QED
  BY <1>1, <1>2, <1>3, <1>4, <1>5, <1>6, <1>7, <1>8, TryHanded, WaitHanded,
     HandleOwnHanded, AcceptHanded, ServeHanded, CloseHanded
  DEF Next, Step
-----------------------------------------------------------------------------
(* A channel waits or is asked for                                          *)

\* UrlJoins and Fresh for one instance.
JoinsOf(i) ==
  \A j \in Instance :
    /\ handled[i][j] <=> chan[i][j] # "no"
    /\ chan[i][j] = "waiting" => net[i] \in {"opening", "registering", "greeting", "left"}
    /\ chan[i][j] = "asked" => net[i] = "up"
FreshOf(i) ==
  pc[i] \in {"off"} \cup Starts => \A j \in Instance : chan[i][j] = "no" /\ ~handled[i][j]

LEMMA JoinsByInstance ==
  /\ UrlJoins <=> \A i \in Living : JoinsOf(i)
  /\ UrlJoins' <=> \A i \in Living' : JoinsOf(i)'
BY DEF UrlJoins, JoinsOf

\* Nothing changes in an instance but the one that takes the step.
Others(i) ==
  \A k \in Instance \ {i} : /\ pc'[k] = pc[k] /\ net'[k] = net[k]
                            /\ chan'[k] = chan[k] /\ handled'[k] = handled[k]

\* The others keep what they asked for.
LEMMA OthersJoin ==
  ASSUME Fresh, UrlJoins, NEW i \in Instance, Others(i),
         i \in Living' => JoinsOf(i)', FreshOf(i)'
  PROVE  Fresh' /\ UrlJoins'
<1>1. Fresh'
  BY DEF Fresh, FreshOf, Others
<1>2. ASSUME NEW k \in Living' PROVE JoinsOf(k)'
  <2>1. CASE k = i
    BY <1>2, <2>1
  <2>2. CASE k # i
    <3>1. k \in Living /\ k \in Instance
      BY <1>2, <2>2 DEF Living, Others
    <3>2. JoinsOf(k)
      BY <3>1, JoinsByInstance
    <3> QED BY <2>2, <3>1, <3>2 DEF JoinsOf, Others
  <2> QED BY <2>1, <2>2
<1> QED BY <1>1, <1>2, JoinsByInstance

\* What a dead instance asked for does not count.
LEMMA DiesJoins ==
  ASSUME TypeOK, Fresh, UrlJoins, NEW i \in Instance, Dies(i),
         UNCHANGED handled \/ \E j \in Instance : Noted(i, j)
  PROVE  Fresh' /\ UrlJoins'
<1>1. pc'[i] = "crashed" /\ Others(i)
  BY GotoFacts, NotedFacts DEF Dies, NoNetwork, TypeOK, Others
<1>2. i \notin Living' /\ FreshOf(i)'
  BY <1>1 DEF Living, FreshOf
<1> QED BY <1>1, <1>2, OthersJoin

\* A step that leaves the network as it is: what joins before is still joining.
LEMMA MoveJoins ==
  ASSUME TypeOK, Fresh, UrlJoins, NEW i \in Instance,
         UNCHANGED <<net, chan, handled>>, \A k \in Instance \ {i} : pc'[k] = pc[k],
         pc[i] \in {"off"} \cup Starts \/ (i \in Living /\ pc'[i] \in Entered)
  PROVE  Fresh' /\ UrlJoins'
<1>1. Others(i)
  BY DEF Others
<1>2. CASE pc[i] \in {"off"} \cup Starts
  <2>1. \A j \in Instance : chan'[i][j] = "no" /\ ~handled'[i][j]
    BY <1>2 DEF Fresh
  <2>2. JoinsOf(i)' /\ FreshOf(i)'
    BY <2>1 DEF JoinsOf, FreshOf
  <2> QED BY <1>1, <2>2, OthersJoin
<1>3. CASE i \in Living /\ pc'[i] \in Entered
  <2>1. JoinsOf(i)
    BY <1>3, JoinsByInstance
  <2>2. JoinsOf(i)' /\ FreshOf(i)'
    BY <1>3, <2>1 DEF JoinsOf, FreshOf
  <2> QED BY <1>1, <2>2, OthersJoin
<1> QED BY <1>2, <1>3

\* A URL that is handled: its channel waits for a network that is added, or is
\* asked for on one that is there.
LEMMA HandleJoins ==
  ASSUME TypeOK, Fresh, UrlJoins, NEW i \in Instance, NEW j \in Instance,
         ~Crashes(i, j), Handle(i, j), pc[i] \in {"own", "loop"}, pc'[i] = "loop",
         \A k \in Instance \ {i} : pc'[k] = pc[k]
  PROVE  Fresh' /\ UrlJoins'
<1>1. /\ net'[i] = Asked(i, j)[1] /\ chan'[i][j] = Asked(i, j)[2]
      /\ \A l \in Instance \ {j} : chan'[i][l] = chan[i][l]
      /\ \A k \in Instance \ {i} : net'[k] = net[k] /\ chan'[k] = chan[k]
  BY DEF Handle, TypeOK
<1>2. /\ handled'[i][j] /\ JoinsOf(i)
      /\ \A l \in Instance \ {j} : handled'[i][l] = handled[i][l]
      /\ \A k \in Instance \ {i} : handled'[k] = handled[k]
  BY NotedFacts, JoinsByInstance DEF Handle, Living
<1>3. \/ net[i] = "absent" /\ net'[i] = "opening" /\ chan'[i][j] = "waiting"
      \/ net[i] \in {"registering", "greeting"} /\ net'[i] = net[i] /\ chan'[i][j] = "early"
      \/ net[i] = "up" /\ net'[i] = "up" /\ chan'[i][j] = "asked"
  BY <1>1 DEF Asked, Crashes, TypeOK
<1>4. ASSUME NEW l \in Instance
      PROVE  /\ handled'[i][l] <=> chan'[i][l] # "no"
             /\ chan'[i][l] = "waiting" =>
                  net'[i] \in {"opening", "registering", "greeting", "left"}
             /\ chan'[i][l] = "asked" => net'[i] = "up"
  <2>1. CASE l = j
    BY <1>2, <1>3, <2>1
  <2>2. CASE l # j
    BY <1>1, <1>2, <1>3, <2>2 DEF JoinsOf
  <2> QED BY <2>1, <2>2
<1>5. JoinsOf(i)' /\ FreshOf(i)' /\ Others(i)
  BY <1>1, <1>2, <1>4 DEF JoinsOf, FreshOf, Others
<1> QED BY <1>5, OthersJoin

\* What the connection thread and the user do to a network.
LEMMA NetworkJoins ==
  ASSUME TypeOK, Fresh, UrlJoins, NEW i \in Instance,
         \/ OpenSocket(i) \/ Greet(i) \/ Register(i) \/ EndConnection(i)
         \/ (Disconnect(i) /\ ~Dies(i)) \/ Delete(i) \/ Connect(i)
  PROVE  Fresh' /\ UrlJoins'
<1> USE DEF Goto
<1>1. UNCHANGED handled /\ i \in Living
  BY DEF OpenSocket, Greet, Register, EndConnection, Disconnect, Delete, Chosen, Connect, Living
<1>2. Others(i)
  BY <1>1 DEF OpenSocket, Greet, Register, EndConnection, Disconnect, Delete, Connect,
              TypeOK, Others
<1>3. JoinsOf(i) /\ FreshOf(i)
  BY <1>1, JoinsByInstance DEF Fresh, FreshOf
<1>4. CASE OpenSocket(i) \/ Connect(i)
  <2>1. /\ UNCHANGED <<pc, chan>>
        /\ \/ net[i] \in {"opening"} /\ net'[i] = "registering"
           \/ net[i] \in {"idle", "left"} /\ net'[i] = "opening"
    BY <1>4 DEF OpenSocket, Connect, TypeOK
  <2>2. JoinsOf(i)' /\ FreshOf(i)'
    BY <1>1, <1>3, <2>1 DEF JoinsOf, FreshOf
  <2> QED BY <1>2, <2>2, OthersJoin
<1>5. CASE Greet(i)
  <2>1. /\ UNCHANGED chan /\ net[i] = "registering" /\ net'[i] = "greeting"
        /\ pc'[i] = pc[i] \/ pc'[i] = "hung"
    BY <1>5 DEF Greet, TypeOK
  <2>2. JoinsOf(i)' /\ FreshOf(i)'
    BY <1>1, <1>3, <2>1 DEF JoinsOf, FreshOf
  <2> QED BY <1>2, <2>2, OthersJoin
<1>6. CASE Register(i)
  <2>1. /\ net[i] = "greeting" /\ net'[i] = "up" /\ UNCHANGED pc
        /\ \A j \in Instance :
             chan'[i][j] = IF chan[i][j] = "waiting" THEN "asked" ELSE chan[i][j]
    BY <1>6 DEF Register, TypeOK
  <2>2. JoinsOf(i)' /\ FreshOf(i)'
    BY <1>1, <1>3, <2>1 DEF JoinsOf, FreshOf
  <2> QED BY <1>2, <2>2, OthersJoin
<1>7. CASE EndConnection(i) \/ Delete(i) \/ (Disconnect(i) /\ ~Dies(i))
  <2>1. pc'[i] \in Entered
    BY <1>7 DEF EndConnection, Delete, Disconnect, Chosen, TypeOK
  <2>2. \/ net'[i] = net[i] /\ \A j \in Instance : chan'[i][j] = chan[i][j]
        \/ net'[i] = "left" /\ \A j \in Instance : chan'[i][j] = Quit(chan[i][j])
        \/ net'[i] = "absent" /\ \A j \in Instance : chan'[i][j] = Deleted(chan[i][j])
    BY <1>7 DEF EndConnection, Delete, Disconnect, TypeOK
  <2>3. ASSUME NEW j \in Instance
        PROVE  /\ Quit(chan[i][j]) \notin {"asked", "early"}
               /\ Quit(chan[i][j]) = "no" <=> chan[i][j] = "no"
               /\ Deleted(chan[i][j]) \in {"no", "quit"}
               /\ Deleted(chan[i][j]) = "no" <=> chan[i][j] = "no"
    BY DEF Quit, Deleted
  <2>4. JoinsOf(i)' /\ FreshOf(i)'
    BY <1>1, <1>3, <2>1, <2>2, <2>3 DEF JoinsOf, FreshOf
  <2> QED BY <1>2, <2>4, OthersJoin
<1> QED BY <1>4, <1>5, <1>6, <1>7

LEMMA JoinsKept == TypeOK /\ Fresh /\ UrlJoins /\ [Next]_vars => Fresh' /\ UrlJoins'
<1> SUFFICES ASSUME TypeOK, Fresh, UrlJoins, [Next]_vars PROVE Fresh' /\ UrlJoins'
  OBVIOUS
<1>1. CASE UNCHANGED vars
  BY <1>1 DEF vars, work, Fresh, UrlJoins, Living
<1>2. ASSUME NEW i \in Instance, Dies(i),
             \/ Kill(i) \/ KillServing(i) \/ Send(i) \/ HandleOwn(i) \/ Serve(i)
             \/ Disconnect(i)
      PROVE  Fresh' /\ UrlJoins'
  <2>1. CASE Kill(i) \/ Send(i) \/ Disconnect(i)
    BY <1>2, <2>1, DiesJoins DEF Kill, Send, Disconnect
  <2>2. CASE HandleOwn(i)
    BY <1>2, <2>2, DiesJoins DEF HandleOwn, Handle
  <2>3. CASE KillServing(i) \/ Serve(i)
    <3>1. serving[i] \in Instance
      BY <2>3 DEF KillServing, Serve, TypeOK
    <3>2. UNCHANGED handled \/ Noted(i, serving[i])
      BY <2>3 DEF KillServing, Serve, Handle, work
    <3> QED BY <1>2, <3>1, <3>2, DiesJoins
  <2> QED BY <1>2, <2>1, <2>2, <2>3
<1>3. ASSUME NEW i \in Instance,
             \/ Start(i) \/ Try(i) \/ (Send(i) /\ ~Dies(i)) \/ Wait(i) \/ Bind(i)
             \/ Listen(i) \/ Accept(i) \/ Leave(i) \/ CloseAll(i) \/ Close(i)
      PROVE  Fresh' /\ UrlJoins'
  <2>1. UNCHANGED <<net, chan, handled>>
    BY <1>3 DEF Start, Try, Send, Wait, Bind, Listen, Accept, Leave, CloseAll, Close, work
  <2>2. \/ \E p : Goto(i, p) /\ (i \in Living /\ pc[i] \in Entered => p \in Entered)
        \/ UNCHANGED pc /\ pc[i] = "loop"
    BY <1>3 DEF Start, Try, Send, Wait, Bind, Listen, Accept, Leave, CloseAll, Close
  <2>3. \/ pc[i] \in {"off"} \cup Starts
        \/ i \in Living /\ pc[i] \in Entered
    BY <1>3 DEF Start, Try, Send, Wait, Bind, Listen, Accept, Leave, CloseAll, Close, Living
  <2> QED BY <2>1, <2>2, <2>3, GotoFacts, MoveJoins
<1>4. ASSUME NEW i \in Instance, Open(i) PROVE Fresh' /\ UrlJoins'
  <2>1. /\ pc[i] = "open" /\ Goto(i, "bind") /\ UNCHANGED <<chan, handled>>
        /\ \A k \in Instance \ {i} : net'[k] = net[k]
    BY <1>4 DEF Open, TypeOK
  <2>2. \A j \in Instance : chan'[i][j] = "no" /\ ~handled'[i][j]
    BY <2>1 DEF Fresh
  <2>3. JoinsOf(i)' /\ FreshOf(i)' /\ Others(i)
    BY <2>1, <2>2, GotoFacts DEF JoinsOf, FreshOf, Others
  <2> QED BY <2>3, OthersJoin
<1>5. ASSUME NEW i \in Instance, HandleOwn(i), ~Dies(i) PROVE Fresh' /\ UrlJoins'
  <2>1. pc[i] = "own" /\ Goto(i, "loop") /\ ~Crashes(i, i) /\ Handle(i, i)
    BY <1>5 DEF HandleOwn
  <2> QED BY <2>1, GotoFacts, HandleJoins
<1>6. ASSUME NEW i \in Instance, Serve(i), ~Dies(i) PROVE Fresh' /\ UrlJoins'
  <2>1. serving[i] \in Instance /\ pc[i] = "loop" /\ UNCHANGED pc
    BY <1>6 DEF Serve, TypeOK
  <2>2. CASE ~Crashes(i, serving[i]) /\ Handle(i, serving[i])
    BY <2>1, <2>2, HandleJoins
  <2>3. CASE UNCHANGED work
    BY <2>1, <2>3, MoveJoins DEF work, Living
  <2> QED BY <1>6, <2>2, <2>3 DEF Serve
<1>7. ASSUME NEW i \in Instance, Unlink(i) PROVE Fresh' /\ UrlJoins'
  <2>1. /\ Goto(i, "ended") /\ UNCHANGED handled
        /\ \A k \in Instance \ {i} : net'[k] = net[k] /\ chan'[k] = chan[k]
    BY <1>7 DEF Unlink, NoNetwork, TypeOK
  <2>2. i \notin Living' /\ FreshOf(i)' /\ Others(i)
    BY <2>1, GotoFacts DEF Living, FreshOf, Others
  <2> QED BY <2>2, OthersJoin
<1> QED
  BY <1>1, <1>2, <1>3, <1>4, <1>5, <1>6, <1>7, NetworkJoins DEF Next, Step, Kill, KillServing
-----------------------------------------------------------------------------
(* The theorems                                                             *)

LEMMA InitInv == Init => IInv
<1> SUFFICES ASSUME Init PROVE IInv
  OBVIOUS
<1>1. TypeOK
  BY UrlHandlerAssumption DEF Init, TypeOK
<1>2. Handed
  <2>1. ToSet(<<>>) = {} /\ NoDup(<<>>)
    BY DEF ToSet, NoDup
  <2> QED BY <2>1 DEF Init, Handed, Own, Linked, Silent, Answered, Elsewhere, Connected
<1>3. Fresh /\ UrlJoins
  BY DEF Init, Fresh, UrlJoins, Living
<1> QED BY <1>1, <1>2, <1>3 DEF IInv

LEMMA Invariant == Spec => []IInv
<1>1. IInv /\ [Next]_vars => IInv'
  BY TypesKept, HandedKept, JoinsKept DEF IInv
<1> QED BY <1>1, InitInv, PTL DEF Spec

\* The state of all instances stays well-typed.
THEOREM TypeCorrect == Spec => []TypeOK
<1>1. IInv => TypeOK
  BY DEF IInv
<1> QED BY <1>1, Invariant, PTL

\* A URL is handled by the instance that was started with it or by the one that
\* answered, and by both only if one of them died, however many are started and
\* killed in whatever order.
THEOREM UrlHandledOnce == Spec => []HandledOnce
<1>1. ASSUME Handed PROVE HandledOnce
  <2> USE <1>1 DEF Handed
  <2>1. ASSUME NEW j \in Instance, pc[j] \in Entered \cup {"done"}
        PROVE  Handlers(j) # {}
    BY <2>1 DEF Own, Answered, Handlers
  <2>2. ASSUME NEW j \in Instance, pc[j] = "done"
        PROVE  ~handled[j][j] /\ handled[peer[j]][j]
    BY <2>2 DEF Own, Answered
  <2>3. ASSUME NEW j \in Instance, NEW i \in Handlers(j), NEW k \in Handlers(j), i # k
        PROVE  pc[i] = "crashed" \/ pc[k] = "crashed"
    <3>1. i \in Instance /\ k \in Instance /\ handled[i][j] /\ handled[k][j]
      BY DEF Handlers
    <3>2. CASE i # j /\ k # j
      BY <2>3, <3>1, <3>2 DEF Elsewhere
    <3>3. CASE i = j
      BY <2>3, <3>1, <3>3 DEF Elsewhere, Own, Answered
    <3>4. CASE k = j
      BY <2>3, <3>1, <3>4 DEF Elsewhere, Own, Answered
    <3> QED BY <3>2, <3>3, <3>4
  <2> QED BY <2>1, <2>2, <2>3 DEF HandledOnce
<1>2. IInv => HandledOnce
  BY <1>1 DEF IInv
<1> QED BY <1>2, Invariant, PTL

\* The channel of a URL that was handled waits until its network is registered,
\* however often the user disconnects before that and connects again, and then it
\* is asked for, and stands so until the user leaves.
THEOREM UrlChannelsJoin == Spec => []UrlJoins
<1>1. IInv => UrlJoins
  BY DEF IInv
<1> QED BY <1>1, Invariant, PTL
=============================================================================
