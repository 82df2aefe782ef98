--------------------------- MODULE ChannelsProofs ---------------------------
(***************************************************************************)
(* Channels for any networks, names and bounds: types, where a typed line   *)
(* goes, that neither the channel that is shown nor the list on the left    *)
(* refers to an erased channel without a task on its way that mends it, that*)
(* no deleted message stays in the window, and that none is missing there.  *)
(***************************************************************************)
EXTENDS Channels, TLAPS

\* A step that leaves a group of variables alone keeps its types.
LEMMA Kept ==
  /\ WorldOK /\ UNCHANGED world => WorldOK'
  /\ StoreOK /\ UNCHANGED store => StoreOK'
  /\ ThreadOK /\ UNCHANGED thread => ThreadOK'
  /\ PlaceOK /\ UNCHANGED place => PlaceOK'
  /\ ViewOK /\ UNCHANGED view => ViewOK'
  /\ HistoryOK /\ UNCHANGED history => HistoryOK'
<1>1. WorldOK /\ UNCHANGED world => WorldOK'
  BY DEF WorldOK, world
<1>2. StoreOK /\ UNCHANGED store => StoreOK'
  BY DEF StoreOK, store
<1>3. ThreadOK /\ UNCHANGED thread => ThreadOK'
  BY DEF ThreadOK, thread
<1>4. PlaceOK /\ UNCHANGED place => PlaceOK'
  BY DEF PlaceOK, place
<1>5. ViewOK /\ UNCHANGED view => ViewOK'
  BY DEF ViewOK, view
<1>6. HistoryOK /\ UNCHANGED history => HistoryOK'
  BY DEF HistoryOK, history
<1> QED BY <1>1, <1>2, <1>3, <1>4, <1>5, <1>6

\* addChannel makes a node that was not used before and changes no other one.
LEMMA AddChannelFacts ==
  ASSUME WorldOK, Nodes, NEW c \in Client, NEW n \in Name, AddChannel(c, n)
  PROVE  /\ made' \in Chan /\ made' > made /\ chan[made'] = None
         /\ made' \in 0 .. MaxChannels
         /\ chan'[made'] = [client |-> c, name |-> n]
         /\ chan' \in [Chan -> [client : Client, name : Name] \cup {None}]
         /\ \A ch \in Chan \ {made'} : chan'[ch] = chan[ch]
         /\ joined' \in [Client -> SUBSET Chan]
         /\ joined'[c] = joined[c] \cup {made'}
         /\ \A d \in Client \ {c} : joined'[d] = joined[d]
<1>1. made' \in Chan /\ made' > made /\ made' \in 0 .. MaxChannels
  BY ChannelsAssumption DEF WorldOK, AddChannel, Chan
<1>2. chan[made'] = None
  BY <1>1 DEF Nodes
<1>3. [client |-> c, name |-> n] \in [client : Client, name : Name]
  OBVIOUS
<1>4. /\ chan'[made'] = [client |-> c, name |-> n]
      /\ chan' \in [Chan -> [client : Client, name : Name] \cup {None}]
      /\ \A ch \in Chan \ {made'} : chan'[ch] = chan[ch]
  BY <1>1, <1>3 DEF WorldOK, AddChannel
<1>5. /\ joined' \in [Client -> SUBSET Chan]
      /\ joined'[c] = joined[c] \cup {made'}
      /\ \A d \in Client \ {c} : joined'[d] = joined[d]
  BY <1>1 DEF WorldOK, AddChannel
<1> QED BY <1>1, <1>2, <1>4, <1>5

\* The next message and the holder it gets.
LEMMA NewMessageFacts ==
  ASSUME StoreOK, NewMessage
  PROVE  sent' \in 0 .. MaxMessages /\ \A ch \in Chan : NewHolder(ch) \in Holder
<1>1. sent \in Nat /\ sent + 1 \in 1 .. MaxMessages /\ sent' = sent + 1
  BY ChannelsAssumption DEF StoreOK, NewMessage
<1> QED BY <1>1 DEF NewHolder, Holder

\* A connection thread keeps the types.
LEMMA ThreadTypes ==
  ASSUME TypeOK, Nodes, Working, NEW c \in Client, ProcessMessage(c)
  PROVE  TypeOK'
<1> USE DEF TypeOK
<1>1. CASE OwnJoin(c)
  <2>1. PICK n \in Name : AddChannel(c, n)
    BY <1>1 DEF OwnJoin
  <2>2. WorldOK'
    BY <1>1, <2>1, AddChannelFacts DEF OwnJoin, WorldOK
  <2>3. ThreadOK'
    BY <1>1, <2>1, AddChannelFacts DEF OwnJoin, ThreadOK, Goto, ThreadPoints
  <2> QED BY <1>1, <2>2, <2>3, Kept DEF OwnJoin
<1>2. CASE FirstMessage(c)
  <2>1. PICK n \in Name : AddChannel(c, n)
    BY <1>2 DEF FirstMessage
  <2>2. WorldOK'
    BY <1>2, <2>1, AddChannelFacts DEF FirstMessage, WorldOK
  <2>3. made' \in Chan /\ NewHolder(made') \in Holder /\ sent' \in 0 .. MaxMessages
    BY <1>2, <2>1, AddChannelFacts, NewMessageFacts DEF FirstMessage
  <2>4. ThreadOK'
    BY <1>2, <2>3 DEF FirstMessage, ThreadOK, Goto, ThreadPoints
  <2>5. StoreOK'
    BY <1>2, <2>3 DEF FirstMessage, StoreOK
  <2> QED BY <1>2, <2>2, <2>4, <2>5, Kept DEF FirstMessage
<1>3. CASE Message(c)
  <2>1. PICK ch \in joined[c] : /\ work' = [work EXCEPT ![c] = ch]
                                /\ held' = [held EXCEPT ![c] = NewHolder(ch)]
    BY <1>3 DEF Message
  <2>2. ch \in Chan /\ NewHolder(ch) \in Holder /\ sent' \in 0 .. MaxMessages
    BY <1>3, <2>1, NewMessageFacts DEF Message, WorldOK
  <2>3. ThreadOK'
    BY <1>3, <2>1, <2>2 DEF Message, ThreadOK, Goto, ThreadPoints
  <2>4. StoreOK'
    BY <1>3, <2>2 DEF Message, StoreOK
  <2> QED BY <1>3, <2>3, <2>4, Kept DEF Message
<1>4. ASSUME NEW point \in {"read", "store"}, Return(c, point) PROVE ThreadOK'
  BY <1>4 DEF ThreadOK, Return, Goto, ThreadPoints
<1>5. ASSUME NEW point \in ThreadPoints, Goto(c, point), UNCHANGED <<work, held, then>>
      PROVE  ThreadOK'
  BY <1>5 DEF ThreadOK, Goto
<1>6. ASSUME NEW task \in Task, Post(task) PROVE tasks' \in Seq(Task)
  BY <1>6 DEF Post
<1>7. Populate \in Task /\ Deactivate \in Task /\ \A h \in Holder : AddContent(h) \in Task
  BY DEF Task
<1>8. then[c] \in {"read", "store"}
  BY DEF ThreadOK
<1>9. CASE TestNetwork(c)
  <2>1. ThreadOK'
    BY <1>9, <1>4, <1>5, <1>8 DEF TestNetwork, ThreadPoints
  <2> QED BY <1>9, <2>1, Kept DEF TestNetwork
<1>10. CASE PostAdded(c)
  <2>1. ThreadOK' /\ tasks' \in Seq(Task)
    BY <1>10, <1>4, <1>6, <1>7, <1>8 DEF PostAdded
  <2> QED BY <1>10, <2>1, Kept DEF PostAdded
<1>11. CASE StoreMessage(c)
  <2>1. ThreadOK'
    BY <1>11, <1>5 DEF StoreMessage, ThreadPoints
  <2>2. work[c] \in Chan /\ held[c] \in Holder
    BY <1>11 DEF StoreMessage, At, Working, WorksOn, ThreadOK
  <2>3. Append(messages[work[c]], held[c]) \in Seq(Holder)
    BY <2>2 DEF StoreOK
  <2>4. StoreOK'
    BY <1>11, <2>2, <2>3 DEF StoreMessage, AddMessage, StoreOK
  <2> QED BY <1>11, <2>1, <2>4, Kept DEF StoreMessage
<1>12. CASE TestShown(c)
  <2>1. ThreadOK'
    BY <1>12, <1>4, <1>5 DEF TestShown, ThreadPoints
  <2>2. held[c] \in Holder
    BY <1>12 DEF TestShown, At, Working, WorksOn, ThreadOK
  <2>3. HistoryOK'
    BY <1>12, <2>2 DEF TestShown, HistoryOK
  <2> QED BY <1>12, <2>1, <2>3, Kept DEF TestShown
<1>13. CASE PostMessage(c)
  <2>1. held[c] \in Holder
    BY <1>13 DEF PostMessage, At, Working, WorksOn, ThreadOK
  <2>2. ThreadOK' /\ tasks' \in Seq(Task)
    BY <1>13, <1>4, <1>6, <1>7, <2>1 DEF PostMessage
  <2> QED BY <1>13, <2>2, Kept DEF PostMessage
<1>14. CASE OwnPart(c)
  <2>1. PICK ch \in joined[c] : /\ work' = [work EXCEPT ![c] = ch]
                                /\ messages' = [messages EXCEPT ![ch] = <<>>]
                                /\ freed' = freed \cup Elements(messages[ch])
    BY <1>14 DEF OwnPart
  <2>2. ch \in Chan
    BY <2>1 DEF WorldOK
  <2>3. Elements(messages[ch]) \subseteq Holder
    BY <2>2 DEF StoreOK, Elements
  <2>4. StoreOK'
    <3>1. <<>> \in Seq(Holder)
      OBVIOUS
    <3>2. messages' \in [Chan -> Seq(Holder)]
      BY <2>1, <2>2, <3>1 DEF StoreOK
    <3>3. freed' \subseteq Holder /\ sent' = sent
      BY <1>14, <2>1, <2>3 DEF OwnPart, StoreOK
    <3> QED BY <3>2, <3>3 DEF StoreOK
  <2>5. ThreadOK'
    BY <1>14, <2>1, <2>2 DEF OwnPart, ThreadOK, Goto, ThreadPoints
  <2> QED BY <1>14, <2>4, <2>5, Kept DEF OwnPart
<1>15. CASE TestActive(c)
  <2>1. ThreadOK'
    BY <1>15, <1>5 DEF TestActive, ThreadPoints
  <2> QED BY <1>15, <2>1, Kept DEF TestActive
<1>16. CASE PostCleared(c)
  <2>1. ThreadOK' /\ tasks' \in Seq(Task)
    BY <1>16, <1>5, <1>6, <1>7 DEF PostCleared, ThreadPoints
  <2> QED BY <1>16, <2>1, Kept DEF PostCleared
<1>17. CASE Erase(c)
  <2>1. ThreadOK'
    BY <1>17, <1>5 DEF Erase, ThreadPoints
  <2>2. WorldOK'
    BY <1>17 DEF Erase, WorldOK
  <2> QED BY <1>17, <2>1, <2>2, Kept DEF Erase
<1>18. CASE PostErased(c)
  <2>1. ThreadOK' /\ tasks' \in Seq(Task)
    BY <1>18, <1>4, <1>6, <1>7 DEF PostErased
  <2> QED BY <1>18, <2>1, Kept DEF PostErased
<1> QED BY <1>1, <1>2, <1>3, <1>9, <1>10, <1>11, <1>12, <1>13, <1>14, <1>15,
           <1>16, <1>17, <1>18 DEF ProcessMessage

\* The head of the queue is taken.
LEMMA TailFacts ==
  ASSUME TypeOK, tasks # <<>>, tasks' = Tail(tasks)
  PROVE  /\ tasks' \in Seq(Task)
         /\ \A task : Queued(task) /\ Head(tasks) # task => Queued(task)'
<1>1. tasks \in Seq(Task) /\ Len(tasks) \in Nat \ {0}
  BY DEF TypeOK
<1>2. /\ Tail(tasks) \in Seq(Task) /\ Len(Tail(tasks)) = Len(tasks) - 1
      /\ Head(tasks) = tasks[1]
      /\ \A i \in 1 .. Len(tasks) - 1 : Tail(tasks)[i] = tasks[i + 1]
  BY <1>1
<1>3. ASSUME NEW task, Queued(task), Head(tasks) # task PROVE Queued(task)'
  <2>1. PICK i \in 1 .. Len(tasks) : tasks[i] = task
    BY <1>1, <1>3 DEF Queued
  <2>2. i - 1 \in 1 .. Len(tasks) - 1 /\ (i - 1) + 1 = i
    BY <1>1, <1>2, <1>3, <2>1
  <2>3. i - 1 \in DOMAIN Tail(tasks) /\ Tail(tasks)[i - 1] = task
    BY <1>2, <2>1, <2>2
  <2> QED BY <2>3 DEF Queued
<1> QED BY <1>2, <1>3

\* A task is put at the end of the queue.
LEMMA PostFacts ==
  ASSUME TypeOK, NEW task \in Task, Post(task)
  PROVE  /\ tasks' \in Seq(Task)
         /\ Queued(task)'
         /\ \A other : Queued(other) => Queued(other)'
<1>1. tasks \in Seq(Task) /\ Len(tasks) \in Nat /\ tasks' = Append(tasks, task)
  BY DEF TypeOK, Post
<1>2. /\ tasks' \in Seq(Task) /\ DOMAIN tasks' = 1 .. Len(tasks) + 1
      /\ tasks'[Len(tasks) + 1] = task
      /\ \A i \in 1 .. Len(tasks) : tasks'[i] = tasks[i]
  BY <1>1
<1> QED BY <1>1, <1>2 DEF Queued

\* The tasks that run keep the types.
LEMMA TaskTypes == ASSUME TypeOK, RunTasks PROVE TypeOK'
<1> USE DEF TypeOK, GuiGoto, GuiAt, Crash
<1>1. CASE BeginTasks
  <2>1. PlaceOK'
    BY <1>1 DEF BeginTasks, PlaceOK, GuiPoints
  <2> QED BY <1>1, <2>1, Kept DEF BeginTasks
<1>2. CASE RunAddContent
  <2>1. PICK h \in Holder :
          /\ tasks # <<>> /\ Head(tasks) = AddContent(h)
          /\ list' = Append(list, h)
          /\ IF h \in freed THEN Crash ELSE UNCHANGED gui
    BY <1>2 DEF RunAddContent
  <2>2. PlaceOK'
    BY <1>2, <2>1 DEF RunAddContent, PlaceOK, GuiPoints
  <2>3. ViewOK'
    <3>1. list' \in Seq(Holder)
      BY <2>1 DEF ViewOK
    <3> QED BY <1>2, <3>1 DEF RunAddContent, ViewOK
  <2>4. tasks' \in Seq(Task)
    BY <1>2, <2>1, TailFacts DEF RunAddContent
  <2> QED BY <1>2, <2>2, <2>3, <2>4, Kept DEF RunAddContent
<1>3. CASE RunPopulate
  <2>1. ViewOK'
    BY <1>3 DEF RunPopulate, ViewOK, WorldOK, ItemsOf
  <2>2. tasks' \in Seq(Task)
    BY <1>3, TailFacts DEF RunPopulate
  <2> QED BY <1>3, <2>1, <2>2, Kept DEF RunPopulate
<1>4. CASE RunDeactivate
  <2>0. <<>> \in Seq(Holder)
    OBVIOUS
  <2>1. ViewOK' /\ HistoryOK'
    BY <1>4, <2>0 DEF RunDeactivate, NothingActive, ViewOK, HistoryOK
  <2>2. tasks' \in Seq(Task)
    BY <1>4, TailFacts DEF RunDeactivate
  <2> QED BY <1>4, <2>1, <2>2, Kept DEF RunDeactivate
<1>5. CASE EndTasks
  <2>1. PlaceOK'
    BY <1>5 DEF EndTasks, PlaceOK, GuiPoints
  <2> QED BY <1>5, <2>1, Kept DEF EndTasks
<1>6. CASE DrawFreed
  <2>1. PlaceOK'
    BY <1>6 DEF DrawFreed, PlaceOK, GuiPoints
  <2> QED BY <1>6, <2>1, Kept DEF DrawFreed
<1> QED BY <1>1, <1>2, <1>3, <1>4, <1>5, <1>6 DEF RunTasks

\* loadChannel keeps the types and leaves the GUI thread where it was or about
\* to fill the list with the messages of the channel.
LEMMA LoadChannelFacts ==
  ASSUME TypeOK, NEW ch \in Chan, ch \in Live, Nodes, LoadChannel(ch)
  PROVE  /\ gui' \in {gui, "fill"} /\ opening' \in {opening, ch}
         /\ active_network' \in Client \cup {None} /\ items' \subseteq Chan
         /\ list' \in Seq(Holder) /\ missed' \subseteq Holder
<1>1. chan[ch].client \in Client
  BY DEF TypeOK, WorldOK, Nodes, Live
<1>2. joined[chan[ch].client] \subseteq Chan
  BY <1>1 DEF TypeOK, WorldOK
<1>3. <<>> \in Seq(Holder)
  OBVIOUS
<1> QED BY <1>1, <1>2, <1>3 DEF LoadChannel, TypeOK, ViewOK, HistoryOK, GuiGoto

\* What the user does keeps the types.
LEMMA UserTypes == ASSUME TypeOK, Nodes, Opened, User PROVE TypeOK'
<1> USE DEF TypeOK, GuiGoto, GuiAt, Crash
<1>1. <<>> \in Seq(Holder)
  OBVIOUS
<1>2. ASSUME NEW c \in Client, OpenNetwork(c) PROVE TypeOK'
  <2>1. conn' \in [Client -> {"idle", "up", "gone"}]
    BY <1>2 DEF OpenNetwork, WorldOK
  <2>2. CASE Lookup(c, Status) = {}
    <3>1. AddChannel(c, Status) /\ UNCHANGED messages
      BY <1>2, <2>2 DEF OpenNetwork
    <3>2. WorldOK'
      BY <2>1, <3>1, AddChannelFacts, ChannelsAssumption DEF WorldOK
    <3>3. joined'[c] \subseteq Chan
      BY <3>2 DEF WorldOK
    <3>4. StoreOK' /\ ViewOK'
      BY <1>2, <3>1, <3>3 DEF OpenNetwork, StoreOK, ViewOK
    <3> QED BY <1>2, <3>2, <3>4, Kept DEF OpenNetwork
  <2>3. CASE Lookup(c, Status) # {}
    <3>1. /\ messages' = [ch \in Chan |->
                            IF ch \in Lookup(c, Status) THEN <<>> ELSE messages[ch]]
          /\ joined' = joined /\ chan' = chan /\ made' = made
      BY <1>2, <2>3 DEF OpenNetwork
    <3>2. WorldOK'
      BY <2>1, <3>1 DEF WorldOK
    <3>3. messages' \in [Chan -> Seq(Holder)]
      BY <1>1, <3>1 DEF StoreOK
    <3>4. joined'[c] \subseteq Chan
      BY <3>2 DEF WorldOK
    <3>5. StoreOK' /\ ViewOK'
      BY <1>2, <3>3, <3>4 DEF OpenNetwork, StoreOK, ViewOK
    <3> QED BY <1>2, <3>2, <3>5, Kept DEF OpenNetwork
  <2> QED BY <2>2, <2>3
<1>3. ASSUME NEW c \in Client, SelectNetwork(c) PROVE TypeOK'
  <2>1. ViewOK' /\ HistoryOK'
    BY <1>3 DEF SelectNetwork, ViewOK, HistoryOK, WorldOK
  <2> QED BY <1>3, <2>1, Kept DEF SelectNetwork
<1>4. ASSUME NEW ch \in Chan, SelectChannel(ch) PROVE TypeOK'
  <2>1. CASE ch \in Live
    <3>1. LoadChannel(ch)
      BY <1>4, <2>1 DEF SelectChannel
    <3>2. PlaceOK' /\ ViewOK' /\ HistoryOK'
      BY <1>4, <2>1, <3>1, LoadChannelFacts
      DEF SelectChannel, PlaceOK, GuiPoints, ViewOK, HistoryOK
    <3> QED BY <1>4, <3>2, Kept DEF SelectChannel
  <2>2. CASE ch \notin Live
    <3>1. PlaceOK' /\ ViewOK' /\ HistoryOK'
      BY <1>4, <2>2 DEF SelectChannel, PlaceOK, GuiPoints, ViewOK, HistoryOK
    <3> QED BY <1>4, <3>1, Kept DEF SelectChannel
  <2> QED BY <2>1, <2>2
<1>5. ASSUME NEW ch \in Chan, QuickSelect(ch) PROVE TypeOK'
  <2>1. PlaceOK' /\ ViewOK' /\ HistoryOK'
    BY <1>5, LoadChannelFacts
    DEF QuickSelect, PlaceOK, GuiPoints, ViewOK, HistoryOK
  <2> QED BY <1>5, <2>1, Kept DEF QuickSelect
<1>6. CASE Fill
  <2>1. messages[opening] \in Seq(Holder)
    BY <1>6 DEF Fill, Opened, PlaceOK, StoreOK
  <2>2. PlaceOK' /\ ViewOK'
    BY <1>6, <2>1 DEF Fill, PlaceOK, GuiPoints, ViewOK
  <2> QED BY <1>6, <2>2, Kept DEF Fill
<1>7. CASE SetActive
  <2>1. PlaceOK' /\ ViewOK'
    BY <1>7 DEF SetActive, PlaceOK, GuiPoints, ViewOK
  <2>2. HistoryOK'
    BY <1>7 DEF SetActive, HistoryOK, PastTest
  <2> QED BY <1>7, <2>1, <2>2, Kept DEF SetActive
<1>8. ASSUME NEW n \in Name, Query(n) PROVE TypeOK'
  <2>1. active_network \in Client /\ AddChannel(active_network, n)
    BY <1>8 DEF Query, ViewOK
  <2>2. WorldOK'
    BY <1>8, <2>1, AddChannelFacts DEF Query, WorldOK
  <2>3. ViewOK'
    BY <1>8, <2>1, <2>2 DEF Query, ViewOK, WorldOK
  <2> QED BY <1>8, <2>2, <2>3, Kept DEF Query
<1>9. ASSUME NEW ch \in Chan, AddMessage(ch, NewHolder(ch)), NewMessage, UNCHANGED freed
      PROVE  StoreOK'
  <2>1. NewHolder(ch) \in Holder /\ sent' \in 0 .. MaxMessages
    BY <1>9, NewMessageFacts
  <2>2. Append(messages[ch], NewHolder(ch)) \in Seq(Holder)
    BY <2>1 DEF StoreOK
  <2> QED BY <1>9, <2>1, <2>2 DEF AddMessage, StoreOK
<1>10. ASSUME NEW ch \in Chan, NewMessage PROVE Append(list, NewHolder(ch)) \in Seq(Holder)
  BY <1>10, NewMessageFacts DEF ViewOK
<1>11. active_network # None => joined[active_network] \subseteq Chan
  BY DEF ViewOK, WorldOK
<1>12. CASE Say
  <2>1. CASE active \in Live /\ Lookup(active_network, chan[active].name) # {}
    <3>1. PICK ch \in Lookup(active_network, chan[active].name) :
            AddMessage(ch, NewHolder(ch)) /\ list' = Append(list, NewHolder(ch))
      BY <1>12, <2>1 DEF Say
    <3>2. ch \in Chan /\ NewMessage /\ UNCHANGED <<gui, freed>>
      BY <1>11, <1>12, <2>1, <3>1 DEF Say, Lookup
    <3>3. StoreOK' /\ list' \in Seq(Holder)
      BY <1>9, <1>10, <3>1, <3>2
    <3>4. PlaceOK' /\ ViewOK'
      BY <1>12, <3>2, <3>3 DEF Say, PlaceOK, ViewOK
    <3> QED BY <1>12, <3>3, <3>4, Kept DEF Say
  <2>2. CASE ~(active \in Live /\ Lookup(active_network, chan[active].name) # {})
    <3>1. PlaceOK' /\ ViewOK' /\ StoreOK'
      BY <1>12, <2>2 DEF Say, PlaceOK, GuiPoints, ViewOK, StoreOK
    <3> QED BY <1>12, <3>1, Kept DEF Say
  <2> QED BY <2>1, <2>2
<1>13. CASE Msg
  <2>1. PICK ch \in joined[active_network] :
          /\ AddMessage(ch, NewHolder(ch))
          /\ list' = IF active = ch THEN Append(list, NewHolder(ch)) ELSE list
    BY <1>13 DEF Msg
  <2>2. ch \in Chan /\ NewMessage /\ UNCHANGED freed
    BY <1>11, <1>13, <2>1 DEF Msg
  <2>3. StoreOK' /\ list' \in Seq(Holder)
    BY <1>9, <1>10, <2>1, <2>2 DEF ViewOK
  <2>4. ViewOK'
    BY <1>13, <2>3 DEF Msg, ViewOK
  <2> QED BY <1>13, <2>3, <2>4, Kept DEF Msg
<1>14. CASE Disconnect
  <2>1. PlaceOK' /\ ViewOK' /\ HistoryOK'
    BY <1>1, <1>14 DEF Disconnect, NothingActive, PlaceOK, GuiPoints, ViewOK, HistoryOK
  <2> QED BY <1>14, <2>1, Kept DEF Disconnect
<1>15. CASE DelServer
  <2>1. PlaceOK' /\ ViewOK' /\ HistoryOK'
    BY <1>1, <1>15 DEF DelServer, NothingActive, PlaceOK, GuiPoints, ViewOK, HistoryOK
  <2> QED BY <1>15, <2>1, Kept DEF DelServer
<1>16. CASE Left
  <2>1. WorldOK'
    BY <1>16 DEF Left, WorldOK
  <2>2. PlaceOK' /\ ViewOK'
    BY <1>16 DEF Left, PlaceOK, GuiPoints, ViewOK
  <2> QED BY <1>16, <2>1, <2>2, Kept DEF Left
<1> QED BY <1>2, <1>3, <1>4, <1>5, <1>6, <1>7, <1>8, <1>12, <1>13, <1>14, <1>15, <1>16
        DEF User

\* Every step keeps the types.
LEMMA StepTypes == ASSUME TypeOK, Nodes, Working, Opened, [Next]_vars PROVE TypeOK'
<1>1. ASSUME UNCHANGED vars PROVE TypeOK'
  BY <1>1, Kept DEF vars, TypeOK
<1>2. CASE Stopped
  BY <1>1, <1>2 DEF Stopped
<1> QED BY <1>1, <1>2, ThreadTypes, TaskTypes, UserTypes DEF Next

-----------------------------------------------------------------------------
(* What the three kinds of steps leave alone                               *)

\* A step of a connection thread leaves the window to the GUI thread.
LEMMA ThreadFrame ==
  ASSUME ThreadOK, NEW c \in Client, ProcessMessage(c)
  PROVE  /\ Alive /\ conn' = conn
         /\ gui' = gui /\ opening' = opening /\ leaving' = leaving
         /\ active_network' = active_network /\ active' = active
         /\ items' = items /\ list' = list
         /\ late' = late /\ browsed' = browsed
         /\ \A d \in Client \ {c} : at'[d] = at[d] /\ work'[d] = work[d]
                                    /\ held'[d] = held[d] /\ then'[d] = then[d]
<1> USE DEF ThreadOK, At, Goto, Return, Post, world, store, thread, place, view, history
<1>1. CASE OwnJoin(c) \/ FirstMessage(c) \/ Message(c)
  BY <1>1 DEF OwnJoin, FirstMessage, Message
<1>2. CASE TestNetwork(c) \/ PostAdded(c) \/ StoreMessage(c)
  BY <1>2 DEF TestNetwork, PostAdded, StoreMessage
<1>3. CASE TestShown(c) \/ PostMessage(c) \/ OwnPart(c)
  BY <1>3 DEF TestShown, PostMessage, OwnPart
<1>4. CASE TestActive(c) \/ PostCleared(c) \/ Erase(c) \/ PostErased(c)
  BY <1>4 DEF TestActive, PostCleared, Erase, PostErased
<1> QED BY <1>1, <1>2, <1>3, <1>4 DEF ProcessMessage

\* Only two steps of a thread make a channel, and one erases one.
LEMMA ThreadWorld ==
  ASSUME NEW c \in Client, ProcessMessage(c),
         ~OwnJoin(c), ~FirstMessage(c), ~Erase(c)
  PROVE  joined' = joined /\ chan' = chan /\ made' = made
<1> USE DEF world
<1>1. CASE Message(c) \/ TestNetwork(c) \/ PostAdded(c) \/ StoreMessage(c)
  BY <1>1 DEF Message, TestNetwork, PostAdded, StoreMessage
<1>2. CASE TestShown(c) \/ PostMessage(c) \/ OwnPart(c)
  BY <1>2 DEF TestShown, PostMessage, OwnPart
<1>3. CASE TestActive(c) \/ PostCleared(c) \/ PostErased(c)
  BY <1>3 DEF TestActive, PostCleared, PostErased
<1> QED BY <1>1, <1>2, <1>3 DEF ProcessMessage

\* The tasks that run change neither a channel nor a thread.
LEMMA TaskFrame ==
  ASSUME RunTasks
  PROVE  /\ conn' = conn /\ joined' = joined /\ chan' = chan /\ made' = made
         /\ at' = at /\ work' = work /\ held' = held /\ then' = then
         /\ opening' = opening /\ leaving' = leaving /\ active_network' = active_network
         /\ gui \in {"events", "tasks"} /\ gui' \in {"events", "tasks", "crashed"}
  BY DEF RunTasks, BeginTasks, RunAddContent, RunPopulate, RunDeactivate, EndTasks,
         DrawFreed, NothingActive, GuiAt, GuiGoto, Crash, world, thread, place, view

\* What the user does leaves the threads and the queue alone.
LEMMA UserFrame ==
  ASSUME User
  PROVE  at' = at /\ work' = work /\ held' = held /\ then' = then /\ tasks' = tasks
<1> USE DEF thread
<1>1. ASSUME NEW c \in Client, OpenNetwork(c) \/ SelectNetwork(c)
      PROVE  UNCHANGED <<thread, tasks>>
  BY <1>1 DEF OpenNetwork, SelectNetwork
<1>2. ASSUME NEW ch \in Chan, SelectChannel(ch) \/ QuickSelect(ch)
      PROVE  UNCHANGED <<thread, tasks>>
  BY <1>2 DEF SelectChannel, QuickSelect
<1>3. ASSUME NEW n \in Name, Query(n) PROVE UNCHANGED <<thread, tasks>>
  BY <1>3 DEF Query
<1>4. CASE Fill \/ SetActive \/ Say \/ Msg
  BY <1>4 DEF Fill, SetActive, Say, Msg
<1>5. CASE Disconnect \/ DelServer \/ Left
  BY <1>5 DEF Disconnect, DelServer, Left
<1> QED BY <1>1, <1>2, <1>3, <1>4, <1>5 DEF User

\* Of the user's steps, two make a channel and one erases those of a network.
LEMMA UserWorld ==
  ASSUME User, ~Left, \A c \in Client : ~OpenNetwork(c), \A n \in Name : ~Query(n)
  PROVE  joined' = joined /\ chan' = chan /\ made' = made
<1> USE DEF world
<1>1. ASSUME NEW c \in Client, SelectNetwork(c) PROVE UNCHANGED world
  BY <1>1 DEF SelectNetwork
<1>2. ASSUME NEW ch \in Chan, SelectChannel(ch) \/ QuickSelect(ch) PROVE UNCHANGED world
  BY <1>2 DEF SelectChannel, QuickSelect
<1>3. CASE Fill \/ SetActive \/ Say \/ Msg
  BY <1>3 DEF Fill, SetActive, Say, Msg
<1>4. CASE Disconnect \/ DelServer
  BY <1>4 DEF Disconnect, DelServer
<1> QED BY <1>1, <1>2, <1>3, <1>4 DEF User

\* What holds of the channels after any step: those that were made stay.
ChannelsStay == \A ch \in Chan : chan[ch] # None => chan'[ch] = chan[ch]

\* A new channel keeps Nodes.
LEMMA NodesAdd ==
  ASSUME WorldOK, Nodes, NEW c \in Client, NEW n \in Name, AddChannel(c, n)
  PROVE  Nodes' /\ ChannelsStay
<1> DEFINE new == [client |-> c, name |-> n]
<1>1. /\ made' \in Chan /\ made' > made /\ chan[made'] = None /\ chan'[made'] = new
      /\ \A ch \in Chan \ {made'} : chan'[ch] = chan[ch]
      /\ joined'[c] = joined[c] \cup {made'}
      /\ \A d \in Client \ {c} : joined'[d] = joined[d]
  BY AddChannelFacts
<1>2. /\ made \in Nat /\ \A ch \in Chan : ch \in Nat
      /\ \A d \in Client : joined[d] \subseteq Chan
  BY ChannelsAssumption DEF WorldOK, Chan
<1>3. new # None /\ new.client = c
  <2>1. new \in [client : Client, name : Name]
    OBVIOUS
  <2> QED BY <2>1, ChannelsAssumption
<1> HIDE DEF new
<1>4. ASSUME NEW ch \in Chan, ch > made' PROVE chan'[ch] = None
  <2>1. ch > made /\ ch # made'
    BY <1>1, <1>2, <1>4
  <2> QED BY <1>1, <2>1 DEF Nodes
<1>5. ASSUME NEW d \in Client, NEW ch \in joined'[d]
      PROVE  chan'[ch] # None /\ chan'[ch].client = d
  <2>1. CASE ch = made'
    <3>1. made' \notin joined[d]
      BY <1>1 DEF Nodes
    <3> QED BY <1>1, <1>3, <1>5, <2>1, <3>1
  <2>2. CASE ch # made'
    <3>1. ch \in joined[d] /\ ch \in Chan
      BY <1>1, <1>2, <1>5, <2>2
    <3> QED BY <1>1, <2>2, <3>1 DEF Nodes
  <2> QED BY <2>1, <2>2
<1>6. ChannelsStay
  BY <1>1 DEF ChannelsStay
<1> QED BY <1>4, <1>5, <1>6 DEF Nodes

\* Every step keeps Nodes and the channels that were made.
LEMMA NodesStep ==
  ASSUME TypeOK, Nodes, Opened, [Next]_vars PROVE Nodes' /\ ChannelsStay
<1> USE DEF TypeOK
<1>1. ASSUME joined' = joined, chan' = chan, made' = made PROVE Nodes' /\ ChannelsStay
  BY <1>1 DEF Nodes, ChannelsStay
<1>2. ASSUME NEW c \in Client, ProcessMessage(c) PROVE Nodes' /\ ChannelsStay
  <2>1. CASE OwnJoin(c) \/ FirstMessage(c)
    <3>1. PICK n \in Name : AddChannel(c, n)
      BY <2>1 DEF OwnJoin, FirstMessage
    <3> QED BY <3>1, NodesAdd
  <2>2. CASE Erase(c)
    BY <2>2 DEF Erase, Nodes, ChannelsStay, WorldOK
  <2> QED BY <1>1, <1>2, <2>1, <2>2, ThreadWorld
<1>3. CASE User
  <2>1. ASSUME NEW n \in Name, Query(n) PROVE Nodes' /\ ChannelsStay
    <3>1. active_network \in Client /\ AddChannel(active_network, n)
      BY <2>1 DEF Query, ViewOK
    <3> QED BY <3>1, NodesAdd
  <2>2. ASSUME NEW c \in Client, OpenNetwork(c) PROVE Nodes' /\ ChannelsStay
    <3>1. CASE AddChannel(c, Status)
      BY <3>1, NodesAdd, ChannelsAssumption
    <3>2. CASE UNCHANGED <<joined, chan, made>>
      BY <1>1, <3>2
    <3> QED BY <2>2, <3>1, <3>2 DEF OpenNetwork
  <2>3. CASE Left
    BY <2>3 DEF Left, Nodes, ChannelsStay, WorldOK
  <2> QED BY <1>1, <1>3, <2>1, <2>2, <2>3, UserWorld
<1>4. CASE RunTasks
  BY <1>1, <1>4, TaskFrame
<1>5. CASE UNCHANGED vars
  BY <1>1, <1>5 DEF vars, world
<1> QED BY <1>2, <1>3, <1>4, <1>5 DEF Next, Stopped

\* A thread that stays where it is still works on its channel.
LEMMA WorksOnStays ==
  ASSUME ThreadOK, Working, ChannelsStay, NEW d \in Client,
         at'[d] = at[d], work'[d] = work[d], held'[d] = held[d], then'[d] = then[d]
  PROVE  WorksOn(d)'
  BY DEF ThreadOK, Working, WorksOn, ChannelsStay

\* Every step keeps Working.
LEMMA WorkingStep ==
  ASSUME TypeOK, Nodes, Working, Opened, [Next]_vars PROVE Working'
<1> USE DEF TypeOK
<1>0. ChannelsStay
  BY NodesStep
<1>1. ASSUME at' = at, work' = work, held' = held, then' = then PROVE Working'
  BY <1>0, <1>1, WorksOnStays DEF Working
<1>2. ASSUME NEW c \in Client, ProcessMessage(c) PROVE WorksOn(c)'
  <2>0. /\ WorksOn(c) /\ at \in [Client -> ThreadPoints]
        /\ work \in [Client -> Chan \cup {NoChan}] /\ work[c] \in Chan \cup {NoChan}
        /\ held \in [Client -> Holder \cup {NoHolder}]
        /\ then \in [Client -> {"read", "store"}]
    BY DEF Working, ThreadOK
  <2>1. /\ \A ch \in Chan : ch # NoChan
        /\ \A h \in Holder : h # NoHolder
    <3>1. \A ch \in Chan : ch # NoChan
      BY DEF Chan, NoChan
    <3>2. ASSUME NEW h \in Holder PROVE h # NoHolder
      BY <3>1 DEF Holder, NoHolder
    <3> QED BY <3>1, <3>2
  <2>2. CASE OwnJoin(c) \/ FirstMessage(c)
    <3>1. PICK n \in Name : AddChannel(c, n)
      BY <2>2 DEF OwnJoin, FirstMessage
    <3>2. made' \in Chan /\ chan'[made'] = [client |-> c, name |-> n]
      BY <3>1, AddChannelFacts
    <3>3. chan'[made'] # None /\ chan'[made'].client = c
      <4>1. [client |-> c, name |-> n] \in [client : Client, name : Name]
        OBVIOUS
      <4> QED BY <3>2, <4>1, ChannelsAssumption
    <3>4. at'[c] = "added" /\ work'[c] = made'
      BY <2>0, <2>2 DEF OwnJoin, FirstMessage, Goto
    <3>5. then'[c] = "store" => held'[c] # NoHolder
      <4>1. CASE OwnJoin(c)
        BY <2>0, <4>1 DEF OwnJoin
      <4>2. CASE FirstMessage(c)
        BY <2>0, <2>1, <3>2, <4>2, NewMessageFacts DEF FirstMessage
      <4> QED BY <2>2, <4>1, <4>2
    <3> QED BY <2>1, <3>2, <3>3, <3>4, <3>5 DEF WorksOn
  <2>3. CASE Message(c)
    <3>1. PICK ch \in joined[c] : /\ work' = [work EXCEPT ![c] = ch]
                                  /\ held' = [held EXCEPT ![c] = NewHolder(ch)]
      BY <2>3 DEF Message
    <3>2. ch \in Chan /\ chan[ch] # None /\ chan[ch].client = c
      BY <3>1 DEF Nodes, WorldOK
    <3>3. NewHolder(ch) \in Holder
      BY <2>3, <3>2, NewMessageFacts DEF Message
    <3>4. at'[c] = "store" /\ work'[c] = ch /\ held'[c] = NewHolder(ch)
      BY <2>0, <2>3, <3>1 DEF Message, Goto
    <3> QED BY <1>0, <2>1, <3>2, <3>3, <3>4 DEF WorksOn, ChannelsStay
  <2>4. CASE OwnPart(c)
    <3>1. PICK ch \in joined[c] : work' = [work EXCEPT ![c] = ch]
      BY <2>4 DEF OwnPart
    <3>2. ch \in Chan /\ chan[ch] # None /\ chan[ch].client = c
      BY <3>1 DEF Nodes, WorldOK
    <3>3. at'[c] = "removed" /\ work'[c] = ch
      BY <2>0, <2>4, <3>1 DEF OwnPart, Goto
    <3> QED BY <1>0, <2>1, <3>2, <3>3 DEF WorksOn, ChannelsStay
  <2>5. ASSUME at[c] # "read", work'[c] = work[c]
        PROVE  work'[c] # NoChan /\ chan'[work'[c]] # None /\ chan'[work'[c]].client = c
    BY <1>0, <2>0, <2>1, <2>5 DEF WorksOn, ChannelsStay
  <2>6. ASSUME NEW point \in ThreadPoints, Goto(c, point), UNCHANGED <<work, held, then>>
        PROVE  at'[c] = point /\ work'[c] = work[c] /\ held'[c] = held[c] /\ then'[c] = then[c]
    BY <2>0, <2>6 DEF Goto
  <2>7. ASSUME NEW point \in {"read", "store"}, Return(c, point)
        PROVE  /\ at'[c] = point
               /\ point = "store" => work'[c] = work[c] /\ held'[c] = held[c]
    BY <2>0, <2>7 DEF Return, Goto
  <2>8. ASSUME at'[c] = "read" PROVE WorksOn(c)'
    BY <2>8 DEF WorksOn
  <2>9. CASE TestNetwork(c) \/ PostAdded(c)
    <3>1. at[c] \in {"added", "announce"}
      BY <2>9 DEF TestNetwork, PostAdded, At
    <3>2. Return(c, then[c]) \/ (Goto(c, "announce") /\ UNCHANGED <<work, held, then>>)
      BY <2>9 DEF TestNetwork, PostAdded
    <3>3. CASE Return(c, then[c])
      BY <2>0, <2>5, <2>7, <2>8, <3>1, <3>3 DEF WorksOn
    <3>4. CASE Goto(c, "announce") /\ UNCHANGED <<work, held, then>>
      BY <2>0, <2>5, <2>6, <3>1, <3>4 DEF WorksOn, ThreadPoints
    <3> QED BY <3>2, <3>3, <3>4
  <2>10. CASE StoreMessage(c) \/ TestShown(c) \/ PostMessage(c)
    <3>1. at[c] \in {"store", "stored", "show"}
      BY <2>10 DEF StoreMessage, TestShown, PostMessage, At
    <3>2. \/ Return(c, "read")
          \/ Goto(c, "stored") /\ UNCHANGED <<work, held, then>>
          \/ Goto(c, "show") /\ UNCHANGED <<work, held, then>>
      BY <2>10 DEF StoreMessage, TestShown, PostMessage
    <3> QED BY <2>0, <2>5, <2>6, <2>7, <2>8, <3>1, <3>2 DEF WorksOn, ThreadPoints
  <2>11. CASE TestActive(c) \/ PostCleared(c) \/ Erase(c) \/ PostErased(c)
    <3>1. at[c] \in {"removed", "clear", "erase", "erased"}
      BY <2>11 DEF TestActive, PostCleared, Erase, PostErased, At
    <3>2. \/ Return(c, "read")
          \/ Goto(c, "clear") /\ UNCHANGED <<work, held, then>>
          \/ Goto(c, "erase") /\ UNCHANGED <<work, held, then>>
          \/ Goto(c, "erased") /\ UNCHANGED <<work, held, then>>
      BY <2>11 DEF TestActive, PostCleared, Erase, PostErased
    <3> QED BY <2>0, <2>5, <2>6, <2>7, <2>8, <3>1, <3>2 DEF WorksOn, ThreadPoints
  <2> QED BY <1>2, <2>2, <2>3, <2>4, <2>9, <2>10, <2>11 DEF ProcessMessage
<1>3. ASSUME NEW c \in Client, ProcessMessage(c) PROVE Working'
  <2>1. \A d \in Client \ {c} : WorksOn(d)'
    BY <1>0, <1>3, ThreadFrame, WorksOnStays
  <2> QED BY <1>2, <1>3, <2>1 DEF Working
<1>4. CASE UNCHANGED vars
  BY <1>1, <1>4 DEF vars, thread
<1> QED BY <1>1, <1>3, <1>4, TaskFrame, UserFrame DEF Next, Stopped
-----------------------------------------------------------------------------
(* What the window refers to                                               *)

\* The parts of the invariant that are about the GUI thread alone.
Window == Opened /\ Displayed /\ TypedGoesToShown

\* A step that leaves the window alone keeps them.
LEMMA WindowStays ==
  ASSUME PlaceOK, ViewOK, Window, ChannelsStay,
         gui' = gui, opening' = opening, leaving' = leaving, items' = items,
         active_network' = active_network, active' = active, browsed' = browsed
  PROVE  Window'
  BY DEF PlaceOK, ViewOK, Window, Opened, Displayed, TypedGoesToShown, ChannelsStay, Alive

\* Tasks keep them.
LEMMA WindowTasks ==
  ASSUME TypeOK, Nodes, Window, RunTasks PROVE Window'
<1> USE DEF TypeOK, Window
<1>1. /\ chan' = chan /\ joined' = joined /\ opening' = opening /\ leaving' = leaving
      /\ active_network' = active_network
      /\ gui \in {"events", "tasks"} /\ gui' \in {"events", "tasks", "crashed"}
  BY TaskFrame
<1>2. \/ active' = active /\ items' = items /\ browsed' = browsed
      \/ active' = active /\ items' = ItemsOf(active_network) /\ browsed' = browsed
      \/ active' = NoChan /\ items' = items
  BY DEF RunTasks, BeginTasks, RunAddContent, RunPopulate, RunDeactivate, EndTasks,
         DrawFreed, NothingActive, view, history
<1>3. Opened'
  BY <1>1, <1>2 DEF Opened
<1>4. Displayed'
  <2>1. \A ch \in ItemsOf(active_network) :
          chan[ch] # None /\ chan[ch].client = active_network
    BY DEF ItemsOf, Nodes, ViewOK
  <2> QED BY <1>1, <1>2, <2>1 DEF Displayed, Alive
<1>5. TypedGoesToShown'
  BY <1>1, <1>2 DEF TypedGoesToShown
<1> QED BY <1>3, <1>4, <1>5

\* What loadChannel makes of the list and of the network on display.
LEMMA LoadChannelOpens ==
  ASSUME TypeOK, Nodes, Window, gui = "events", NEW ch \in Chan, ch \in Live,
         LoadChannel(ch)
  PROVE  /\ \/ UNCHANGED <<gui, opening, active_network, items>>
            \/ /\ gui' = "fill" /\ opening' = ch /\ chan[ch] # None
               /\ active_network' = chan[ch].client
         /\ \A i \in items' : chan[i] # None /\ chan[i].client = active_network'
<1>1. chan[ch] # None /\ chan[ch].client \in Client
  BY DEF TypeOK, WorldOK, Nodes, Live
<1>2. \A i \in items : chan[i] # None /\ chan[i].client = active_network
  BY DEF Window, Displayed, Alive
<1>3. \A i \in joined[chan[ch].client] : chan[i] # None /\ chan[i].client = chan[ch].client
  BY <1>1 DEF Nodes
<1> QED BY <1>1, <1>2, <1>3 DEF LoadChannel, GuiGoto

\* The user's steps keep them.
LEMMA WindowUser ==
  ASSUME TypeOK, Nodes, Window, User PROVE Window'
<1> USE DEF TypeOK, GuiGoto, GuiAt, Crash, Alive
<1>0. Nodes' /\ ChannelsStay
  BY NodesStep DEF Next, Window
<1>1. ASSUME NEW c \in Client, OpenNetwork(c) PROVE Window'
  <2>1. /\ gui' = gui /\ opening' = opening /\ leaving' = leaving
        /\ active_network' = active_network /\ active' = active /\ browsed' = browsed
        /\ items' = IF active_network = c THEN joined'[c] ELSE items
    BY <1>1 DEF OpenNetwork, place, history
  <2>2. Opened' /\ TypedGoesToShown'
    BY <1>0, <2>1 DEF Window, Opened, TypedGoesToShown, ChannelsStay, PlaceOK, ViewOK
  <2>3. \A ch \in joined'[c] : chan'[ch] # None /\ chan'[ch].client = c
    BY <1>0 DEF Nodes
  <2>4. Displayed'
    BY <1>0, <2>1, <2>3 DEF Window, Displayed, ChannelsStay, ViewOK
  <2> QED BY <2>2, <2>4 DEF Window
<1>2. ASSUME NEW n \in Name, Query(n) PROVE Window'
  <2>1. /\ gui' = gui /\ opening' = opening /\ leaving' = leaving
        /\ active_network' = active_network /\ active' = active /\ browsed' = browsed
        /\ items' = joined'[active_network] /\ active_network \in Client
    BY <1>2 DEF Query, place, history, ViewOK
  <2>2. Opened' /\ TypedGoesToShown'
    BY <1>0, <2>1 DEF Window, Opened, TypedGoesToShown, ChannelsStay, PlaceOK, ViewOK
  <2>3. Displayed'
    BY <1>0, <2>1 DEF Displayed, Nodes
  <2> QED BY <2>2, <2>3 DEF Window
<1>3. ASSUME NEW c \in Client, SelectNetwork(c) PROVE Window'
  <2>1. /\ gui = "events" /\ gui' = gui /\ opening' = opening /\ leaving' = leaving
        /\ active_network' = c /\ active' = active /\ items' = joined[c]
        /\ chan' = chan /\ browsed' = (active # NoChan /\ chan[active].client # c)
    BY <1>3 DEF SelectNetwork, place, world
  <2>2. Opened' /\ TypedGoesToShown'
    BY <2>1 DEF Window, Opened, TypedGoesToShown
  <2>3. Displayed'
    BY <2>1 DEF Displayed, Nodes
  <2> QED BY <2>2, <2>3 DEF Window
<1>4. ASSUME NEW ch \in Chan, SelectChannel(ch) \/ QuickSelect(ch) PROVE Window'
  <2>1. /\ gui = "events" /\ leaving' = leaving /\ active' = active
        /\ chan' = chan /\ browsed' = browsed
    BY <1>4 DEF SelectChannel, QuickSelect, world
  <2>2. CASE ch \in Live
    <3>1. LoadChannel(ch)
      BY <1>4, <2>2 DEF SelectChannel, QuickSelect
    <3>2. /\ \/ UNCHANGED <<gui, opening, active_network, items>>
             \/ /\ gui' = "fill" /\ opening' = ch /\ chan[ch] # None
                /\ active_network' = chan[ch].client
          /\ \A i \in items' : chan[i] # None /\ chan[i].client = active_network'
      BY <2>1, <2>2, <3>1, LoadChannelOpens
    <3>3. ch # NoChan
      BY DEF Chan, NoChan
    <3>4. Opened' /\ TypedGoesToShown'
      BY <2>1, <3>2, <3>3 DEF Window, Opened, TypedGoesToShown
    <3>5. Displayed'
      BY <2>1, <3>2 DEF Displayed
    <3> QED BY <3>4, <3>5 DEF Window
  <2>3. CASE ch \notin Live
    <3>1. gui' = "crashed" /\ opening' = opening
      BY <1>4, <2>3 DEF SelectChannel, QuickSelect
    <3> QED BY <2>1, <3>1 DEF Window, Opened, Displayed, TypedGoesToShown
  <2> QED BY <2>2, <2>3
<1>5. CASE Fill \/ Msg
  <2>1. /\ chan' = chan /\ opening' = opening /\ leaving' = leaving /\ items' = items
        /\ active_network' = active_network /\ active' = active /\ browsed' = browsed
        /\ \/ gui' = gui
           \/ gui = "fill" /\ gui' = "set"
    BY <1>5 DEF Fill, Msg, world, place, history
  <2> QED BY <2>1 DEF Window, Opened, Displayed, TypedGoesToShown
<1>6. CASE SetActive
  <2>1. /\ chan' = chan /\ active' = opening /\ opening' = NoChan /\ leaving' = leaving
        /\ items' = items /\ active_network' = active_network
        /\ gui = "set" /\ gui' = "events"
    BY <1>6 DEF SetActive, world
  <2> QED BY <2>1 DEF Window, Opened, Displayed, TypedGoesToShown
<1>7. CASE Say
  <2>1. /\ chan' = chan /\ opening' = opening /\ leaving' = leaving /\ items' = items
        /\ active_network' = active_network /\ active' = active /\ browsed' = browsed
        /\ gui = "events" /\ gui' \in {gui, "crashed"}
    BY <1>7 DEF Say, world, history
  <2> QED BY <2>1 DEF Window, Opened, Displayed, TypedGoesToShown
<1>8. CASE Disconnect \/ DelServer
  <2>1. /\ chan' = chan /\ active' = NoChan /\ items' = items /\ gui' = "join"
        /\ leaving' = active_network /\ active_network # None
        /\ active_network' \in {active_network, None}
    BY <1>8 DEF Disconnect, DelServer, NothingActive, world
  <2> QED BY <2>1 DEF Window, Opened, Displayed, TypedGoesToShown
<1>9. CASE Left
  <2>1. /\ gui = "join" /\ gui' = "events" /\ active' = active /\ items' = {}
    BY <1>9 DEF Left
  <2> QED BY <2>1 DEF Window, Opened, Displayed, TypedGoesToShown
<1> QED BY <1>1, <1>2, <1>3, <1>4, <1>5, <1>6, <1>7, <1>8, <1>9 DEF User

\* Every step keeps them.
LEMMA WindowStep ==
  ASSUME TypeOK, Nodes, Window, [Next]_vars PROVE Window'
<1>1. ChannelsStay
  BY NodesStep DEF Window
<1>2. ASSUME NEW c \in Client, ProcessMessage(c) PROVE Window'
  BY <1>1, <1>2, ThreadFrame, WindowStays DEF TypeOK
<1>3. CASE UNCHANGED vars
  BY <1>1, <1>3, WindowStays DEF TypeOK, vars, place, view, history
<1> QED BY <1>2, <1>3, WindowTasks, WindowUser DEF Next, Stopped
-----------------------------------------------------------------------------
(* A channel that is erased while it is shown                              *)

\* A step of a thread keeps every queued task.
LEMMA ThreadQueue ==
  ASSUME TypeOK, Working, NEW c \in Client, ProcessMessage(c)
  PROVE  /\ \A task : Queued(task) => Queued(task)'
         /\ PostCleared(c) => Queued(Deactivate)'
         /\ PostAdded(c) \/ PostErased(c) => Queued(Populate)'
<1>1. ASSUME tasks' = tasks PROVE \A task : Queued(task) => Queued(task)'
  BY <1>1 DEF Queued
<1>2. Populate \in Task /\ Deactivate \in Task /\ \A h \in Holder : AddContent(h) \in Task
  BY DEF Task
<1>3. CASE PostCleared(c)
  BY <1>2, <1>3, PostFacts DEF PostCleared, PostAdded, PostErased, At
<1>4. CASE PostAdded(c) \/ PostErased(c)
  BY <1>2, <1>4, PostFacts DEF PostCleared, PostAdded, PostErased, At
<1>5. CASE PostMessage(c)
  <2>1. held[c] \in Holder
    BY <1>5 DEF PostMessage, At, Working, WorksOn, TypeOK, ThreadOK
  <2>2. Post(AddContent(held[c])) /\ at[c] = "show"
    BY <1>5 DEF PostMessage, At
  <2> QED BY <1>2, <2>1, <2>2, PostFacts DEF PostCleared, PostAdded, PostErased, At
<1>6. CASE OwnJoin(c) \/ FirstMessage(c) \/ Message(c) \/ TestNetwork(c)
  BY <1>1, <1>3, <1>4, <1>6 DEF OwnJoin, FirstMessage, Message, TestNetwork
<1>7. CASE StoreMessage(c) \/ TestShown(c) \/ OwnPart(c) \/ TestActive(c) \/ Erase(c)
  BY <1>1, <1>3, <1>4, <1>7 DEF StoreMessage, TestShown, OwnPart, TestActive, Erase
<1> QED BY <1>3, <1>4, <1>5, <1>6, <1>7 DEF ProcessMessage

\* What erasing and being covered say of the channel that is shown.
Covered == Erasing /\ ActiveCovered

\* A thread keeps it: it erases a channel that is shown only after its post.
LEMMA CoveredThreads ==
  ASSUME TypeOK, Nodes, Working, Covered, NEW c \in Client, ProcessMessage(c)
  PROVE  Covered'
<1> USE DEF TypeOK, Covered
<1>1. /\ Alive /\ Alive' /\ active' = active /\ late' = late
      /\ \A d \in Client \ {c} : at'[d] = at[d] /\ work'[d] = work[d]
  BY ThreadFrame DEF Alive
<1>2. Queued(Deactivate) => Queued(Deactivate)'
  BY ThreadQueue
<1>3. CASE Queued(Deactivate)
  BY <1>2, <1>3 DEF Erasing, ActiveCovered
<1>4. CASE PostCleared(c)
  BY <1>4, ThreadQueue DEF Erasing, ActiveCovered
<1>5. ASSUME ~Queued(Deactivate), ~PostCleared(c), active # NoChan, ~late
      PROVE  /\ \A d \in Client : ~(at'[d] = "erase" /\ work'[d] = active)
             /\ active \in Live'
  <2>1. active \in Live /\ \A d \in Client : ~(at[d] = "erase" /\ work[d] = active)
    BY <1>1, <1>5 DEF Erasing, ActiveCovered
  <2>2. ~(at'[c] = "erase" /\ work'[c] = active)
    <3> USE DEF ThreadOK, At, Goto, Return
    <3>1. CASE TestActive(c)
      BY <3>1 DEF TestActive
    <3>2. CASE OwnJoin(c) \/ FirstMessage(c) \/ Message(c) \/ OwnPart(c) \/ Erase(c)
      BY <3>2 DEF OwnJoin, FirstMessage, Message, OwnPart, Erase
    <3>3. CASE TestNetwork(c) \/ PostAdded(c) \/ StoreMessage(c)
      BY <3>3 DEF TestNetwork, PostAdded, StoreMessage
    <3>4. CASE TestShown(c) \/ PostMessage(c) \/ PostErased(c)
      BY <3>4 DEF TestShown, PostMessage, PostErased
    <3> QED BY <1>5, <3>1, <3>2, <3>3, <3>4 DEF ProcessMessage
  <2>3. active \in Live'
    <3>1. PICK d \in Client : active \in joined[d]
      BY <2>1 DEF Live
    <3>2. CASE OwnJoin(c) \/ FirstMessage(c)
      <4>1. PICK n \in Name : AddChannel(c, n)
        BY <3>2 DEF OwnJoin, FirstMessage
      <4>2. joined[d] \subseteq joined'[d]
        BY <4>1, AddChannelFacts
      <4> QED BY <3>1, <4>2 DEF Live
    <3>3. CASE Erase(c)
      <4>1. at[c] = "erase" /\ work[c] # active
        BY <2>1, <3>3 DEF Erase, At
      <4>2. active \in joined'[d]
        BY <3>1, <3>3, <4>1 DEF Erase, WorldOK
      <4> QED BY <4>2 DEF Live
    <3> QED BY <3>1, <3>2, <3>3, ThreadWorld DEF Live
  <2> QED BY <1>1, <2>1, <2>2, <2>3
<1> QED BY <1>1, <1>3, <1>4, <1>5 DEF Erasing, ActiveCovered

\* Tasks keep it: the one that clears the window leaves nothing to cover.
LEMMA CoveredTasks == ASSUME TypeOK, Covered, RunTasks PROVE Covered'
<1>1. joined' = joined /\ at' = at /\ work' = work /\ Alive
  BY TaskFrame DEF Alive
<1>2. CASE active' = NoChan
  BY <1>2 DEF Covered, Erasing, ActiveCovered
<1>3. CASE active' # NoChan
  <2>1. active' = active /\ late' = late
    BY <1>3 DEF RunTasks, BeginTasks, RunAddContent, RunPopulate, RunDeactivate, EndTasks,
                DrawFreed, NothingActive, view, history
  <2>2. Populate # Deactivate /\ \A h \in Holder : AddContent(h) # Deactivate
    BY DEF AddContent, Deactivate, Populate
  <2>3. \/ tasks' = tasks
        \/ tasks # <<>> /\ tasks' = Tail(tasks) /\ Head(tasks) # Deactivate
    BY <1>3, <2>2 DEF RunTasks, BeginTasks, RunAddContent, RunPopulate, RunDeactivate, EndTasks,
                DrawFreed, NothingActive
  <2>4. Queued(Deactivate) => Queued(Deactivate)'
    BY <2>3, TailFacts DEF Queued
  <2> QED BY <1>1, <2>1, <2>4 DEF Covered, Erasing, ActiveCovered, Live
<1> QED BY <1>2, <1>3

\* The user keeps it: a channel chosen too late is noted as late.
LEMMA CoveredUser ==
  ASSUME TypeOK, Nodes, Window, Covered, User PROVE Covered'
<1> USE DEF TypeOK
<1>1. at' = at /\ work' = work /\ tasks' = tasks
  BY UserFrame
<1>2. ASSUME UNCHANGED <<active, late>>, Alive, active \in Live => active \in Live'
      PROVE  Covered'
  BY <1>1, <1>2 DEF Covered, Erasing, ActiveCovered, Queued
<1>3. ASSUME active' = NoChan PROVE Covered'
  BY <1>3 DEF Covered, Erasing, ActiveCovered
<1>4. ASSUME joined' = joined, UNCHANGED <<active, late>>, Alive PROVE Covered'
  BY <1>2, <1>4 DEF Live
<1>5. ASSUME NEW c \in Client, NEW n \in Name, AddChannel(c, n),
             UNCHANGED <<active, late>>, Alive
      PROVE  Covered'
  <2>1. \A d \in Client : joined[d] \subseteq joined'[d]
    BY <1>5, AddChannelFacts
  <2> QED BY <1>2, <1>5, <2>1 DEF Live
<1>6. ASSUME NEW c \in Client, OpenNetwork(c) PROVE Covered'
  <2>1. UNCHANGED <<active, late>> /\ Alive
    BY <1>6 DEF OpenNetwork, Alive, GuiAt, history
  <2>2. AddChannel(c, Status) \/ joined' = joined
    BY <1>6 DEF OpenNetwork
  <2> QED BY <1>4, <1>5, <2>1, <2>2, ChannelsAssumption
<1>7. ASSUME NEW n \in Name, Query(n) PROVE Covered'
  <2>1. active_network \in Client /\ AddChannel(active_network, n)
        /\ UNCHANGED <<active, late>> /\ Alive
    BY <1>7 DEF Query, ViewOK, Alive, GuiAt, history
  <2> QED BY <1>5, <2>1
<1>8. ASSUME NEW c \in Client, SelectNetwork(c) PROVE Covered'
  BY <1>4, <1>8 DEF SelectNetwork, Alive, GuiAt, world
<1>9. ASSUME NEW ch \in Chan, SelectChannel(ch) \/ QuickSelect(ch) PROVE Covered'
  BY <1>4, <1>9 DEF SelectChannel, QuickSelect, Alive, GuiAt, world
<1>10. CASE Fill \/ Say \/ Msg
  BY <1>4, <1>10 DEF Fill, Say, Msg, Alive, GuiAt, world, history
<1>11. CASE SetActive
  <2>1. active' = opening /\ late' = PastTest(opening) /\ joined' = joined
    BY <1>11 DEF SetActive, world
  <2>2. CASE PastTest(opening)
    BY <2>1, <2>2 DEF Covered, Erasing, ActiveCovered
  <2>3. CASE ~PastTest(opening)
    BY <1>1, <2>1, <2>3 DEF Covered, Erasing, ActiveCovered, PastTest, Live
  <2> QED BY <2>2, <2>3
<1>12. CASE Disconnect \/ DelServer
  BY <1>3, <1>12 DEF Disconnect, DelServer, NothingActive
<1>13. CASE Left
  <2>1. active = NoChan /\ active' = active
    BY <1>13 DEF Left, GuiAt, Window, Opened
  <2> QED BY <1>3, <2>1
<1> QED BY <1>6, <1>7, <1>8, <1>9, <1>10, <1>11, <1>12, <1>13 DEF User

\* Every step keeps it.
LEMMA CoveredStep ==
  ASSUME TypeOK, Nodes, Working, Window, Covered, [Next]_vars PROVE Covered'
<1>1. CASE UNCHANGED vars
  BY <1>1 DEF vars, world, thread, place, view, history, Covered, Erasing, ActiveCovered,
              Queued, Live, Alive
<1> QED BY <1>1, CoveredThreads, CoveredTasks, CoveredUser DEF Next, Stopped
-----------------------------------------------------------------------------
(* The list on the left                                                    *)

Current(ch) == ch \in items <=> ch \in ItemsOf(active_network)

\* A populate is queued, or a thread is on its way to post one for the channel.
Pending(ch) ==
  \/ Queued(Populate)
  \/ \E c \in Client : work[c] = ch /\ at[c] \in {"added", "announce", "erased"}

LEMMA ItemsByChannel ==
  ItemsCurrent <=> \A ch \in Chan : Alive /\ gui # "join" /\ ~Current(ch) => Pending(ch)
  BY DEF ItemsCurrent, Current, Pending

\* Threads keep it: what they add or erase is theirs until they have posted.
LEMMA ItemsThreads ==
  ASSUME TypeOK, Nodes, Working, Window, ItemsCurrent, NEW c \in Client, ProcessMessage(c)
  PROVE  ItemsCurrent'
<1> USE DEF TypeOK
<1>1. /\ Alive /\ gui' = gui /\ items' = items /\ active_network' = active_network
      /\ \A d \in Client \ {c} : at'[d] = at[d] /\ work'[d] = work[d]
  BY ThreadFrame
<1> SUFFICES ASSUME NEW ch \in Chan, gui # "join", ~Current(ch)', ~Queued(Populate)'
             PROVE  Pending(ch)'
  <2>1. ItemsCurrent' <=> \A ch \in Chan :
          Alive' /\ gui' # "join" /\ ~Current(ch)' => Pending(ch)'
    BY DEF ItemsCurrent, Current, Pending
  <2> QED BY <1>1, <2>1 DEF Pending
<1>2. ~Queued(Populate) /\ ~PostAdded(c) /\ ~PostErased(c)
  BY ThreadQueue
<1>3. /\ at \in [Client -> ThreadPoints] /\ work \in [Client -> Chan \cup {NoChan}]
      /\ joined \in [Client -> SUBSET Chan]
  BY DEF ThreadOK, WorldOK
<1>4. CASE work'[c] = ch /\ at'[c] \in {"added", "announce", "erased"}
  BY <1>4 DEF Pending
<1>5. CASE ~(work'[c] = ch /\ at'[c] \in {"added", "announce", "erased"})
  <2>1. \A d \in Client : ch \in joined'[d] <=> ch \in joined[d]
    <3>1. CASE OwnJoin(c) \/ FirstMessage(c)
      <4>1. PICK n \in Name : AddChannel(c, n)
        BY <3>1 DEF OwnJoin, FirstMessage
      <4>2. work'[c] = made' /\ at'[c] = "added"
        BY <1>3, <3>1 DEF OwnJoin, FirstMessage, Goto
      <4>3. ch # made'
        BY <1>5, <4>2
      <4>4. /\ joined'[c] = joined[c] \cup {made'}
            /\ \A d \in Client \ {c} : joined'[d] = joined[d]
        BY <4>1, AddChannelFacts
      <4> QED BY <4>3, <4>4
    <3>2. CASE Erase(c)
      <4>1. work'[c] = work[c] /\ at'[c] = "erased"
        BY <1>3, <3>2 DEF Erase, Goto
      <4> QED BY <1>3, <1>5, <3>2, <4>1 DEF Erase
    <3> QED BY <3>1, <3>2, ThreadWorld
  <2>2. ~Current(ch)
    BY <1>1, <2>1 DEF Current, ItemsOf, ViewOK
  <2>3. PICK d \in Client : work[d] = ch /\ at[d] \in {"added", "announce", "erased"}
    BY <1>1, <1>2, <2>2, ItemsByChannel DEF Pending
  <2>4. CASE d # c
    BY <1>1, <2>3, <2>4 DEF Pending
  <2>5. CASE d = c
    <3>1. TestNetwork(c)
      BY <1>2, <2>3, <2>5 DEF ProcessMessage, At, OwnJoin, FirstMessage, Message,
         StoreMessage, TestShown, PostMessage, OwnPart, TestActive, PostCleared, Erase
    <3>2. active_network # c
      BY <1>3, <1>5, <2>3, <2>5, <3>1 DEF TestNetwork, Goto
    <3>3. chan[ch].client = c
      BY <2>3, <2>5 DEF Working, WorksOn
    <3>4. ch \notin items
      BY <1>1, <3>2, <3>3 DEF Window, Displayed
    <3>5. ch \notin ItemsOf(active_network)
      BY <3>2, <3>3 DEF ItemsOf, Nodes, ViewOK
    <3> QED BY <2>2, <3>4, <3>5 DEF Current
  <2> QED BY <2>4, <2>5
<1> QED BY <1>4, <1>5

\* A step that leaves the threads and the list alone, or that fills it afresh.
LEMMA ItemsKept ==
  ASSUME ItemsCurrent, at' = at, work' = work,
         \/ ~Alive'
         \/ gui' = "join"
         \/ items' = ItemsOf(active_network)'
         \/ /\ Alive /\ gui # "join" /\ items' = items
            /\ ItemsOf(active_network)' = ItemsOf(active_network)
            /\ Queued(Populate) => Queued(Populate)'
  PROVE  ItemsCurrent'
<1>1. CASE ~Alive' \/ gui' = "join" \/ items' = ItemsOf(active_network)'
  BY <1>1 DEF ItemsCurrent
<1>2. CASE /\ Alive /\ gui # "join" /\ items' = items
           /\ ItemsOf(active_network)' = ItemsOf(active_network)
           /\ Queued(Populate) => Queued(Populate)'
  BY <1>2 DEF ItemsCurrent
<1> QED BY <1>1, <1>2

\* Tasks keep it: the queued populate does what it promised.
LEMMA ItemsTasks == ASSUME TypeOK, ItemsCurrent, RunTasks PROVE ItemsCurrent'
<1>1. /\ joined' = joined /\ at' = at /\ work' = work /\ active_network' = active_network
      /\ Alive /\ gui # "join"
  BY TaskFrame DEF Alive
<1>2. ItemsOf(active_network)' = ItemsOf(active_network)
  BY <1>1 DEF ItemsOf
<1>3. CASE RunPopulate
  BY <1>1, <1>2, <1>3, ItemsKept DEF RunPopulate
<1>4. CASE ~RunPopulate
  <2>1. items' = items
    BY <1>4 DEF RunTasks, BeginTasks, RunAddContent, RunDeactivate, EndTasks, DrawFreed, view
  <2>2. Deactivate # Populate /\ \A h \in Holder : AddContent(h) # Populate
    BY DEF AddContent, Deactivate, Populate
  <2>3. \/ tasks' = tasks
        \/ tasks # <<>> /\ tasks' = Tail(tasks) /\ Head(tasks) # Populate
    BY <1>4, <2>2 DEF RunTasks, BeginTasks, RunAddContent, RunDeactivate, EndTasks, DrawFreed
  <2>4. Queued(Populate) => Queued(Populate)'
    BY <2>3, TailFacts DEF Queued
  <2> QED BY <1>1, <1>2, <2>1, <2>4, ItemsKept
<1> QED BY <1>3, <1>4

\* The user keeps it.
LEMMA ItemsUser ==
  ASSUME TypeOK, Nodes, Window, ItemsCurrent, User PROVE ItemsCurrent'
<1> USE DEF TypeOK
<1>1. at' = at /\ work' = work /\ (Queued(Populate) => Queued(Populate)')
  BY UserFrame DEF Queued
<1>2. ASSUME items' = ItemsOf(active_network)' PROVE ItemsCurrent'
  BY <1>1, <1>2, ItemsKept
<1>3. ASSUME Alive, gui # "join", UNCHANGED <<items, active_network>>,
             active_network # None => joined'[active_network] = joined[active_network]
      PROVE  ItemsCurrent'
  <2>1. ItemsOf(active_network)' = ItemsOf(active_network)
    BY <1>3 DEF ItemsOf
  <2> QED BY <1>1, <1>3, <2>1, ItemsKept
<1>4. ASSUME ~Alive' \/ gui' = "join" PROVE ItemsCurrent'
  BY <1>1, <1>4, ItemsKept
<1>5. ASSUME NEW c \in Client, OpenNetwork(c) PROVE ItemsCurrent'
  <2>1. Alive /\ gui # "join" /\ active_network' = active_network
        /\ items' = IF active_network = c THEN joined'[c] ELSE items
    BY <1>5 DEF OpenNetwork, Alive, GuiAt
  <2>2. CASE active_network = c
    <3>1. c # None
      BY ChannelsAssumption
    <3> QED BY <1>2, <2>1, <2>2, <3>1 DEF ItemsOf
  <2>3. CASE active_network # c
    <3>1. AddChannel(c, Status) \/ joined' = joined
      BY <1>5 DEF OpenNetwork
    <3>2. active_network # None => joined'[active_network] = joined[active_network]
      BY <2>3, <3>1, AddChannelFacts, ChannelsAssumption DEF ViewOK
    <3> QED BY <1>3, <2>1, <2>3, <3>2
  <2> QED BY <2>2, <2>3
<1>6. ASSUME NEW n \in Name, Query(n) PROVE ItemsCurrent'
  BY <1>2, <1>6 DEF Query, ItemsOf
<1>7. ASSUME NEW c \in Client, SelectNetwork(c) PROVE ItemsCurrent'
  <2>1. c # None
    BY ChannelsAssumption
  <2> QED BY <1>2, <1>7, <2>1 DEF SelectNetwork, ItemsOf, world
<1>8. ASSUME NEW ch \in Chan, SelectChannel(ch) \/ QuickSelect(ch) PROVE ItemsCurrent'
  <2>1. joined' = joined /\ Alive /\ gui # "join"
    BY <1>8 DEF SelectChannel, QuickSelect, Alive, GuiAt, world
  <2>2. CASE ch \in Live
    <3>1. LoadChannel(ch) /\ chan[ch].client \in Client
      BY <1>8, <2>2 DEF SelectChannel, QuickSelect, Live, Nodes
    <3>2. chan[ch].client # None
      BY <3>1, ChannelsAssumption
    <3>3. CASE UNCHANGED <<items, active_network>>
      BY <1>3, <2>1, <3>3
    <3>4. CASE items' = joined[chan[ch].client] /\ active_network' = chan[ch].client
      BY <1>2, <2>1, <3>2, <3>4 DEF ItemsOf
    <3> QED BY <3>1, <3>3, <3>4 DEF LoadChannel
  <2>3. CASE ch \notin Live
    BY <1>4, <1>8, <2>3 DEF SelectChannel, QuickSelect, Crash, GuiGoto, Alive
  <2> QED BY <2>2, <2>3
<1>9. CASE Fill \/ SetActive \/ Say \/ Msg
  BY <1>3, <1>9 DEF Fill, SetActive, Say, Msg, Alive, GuiAt, world
<1>10. CASE Disconnect \/ DelServer
  BY <1>4, <1>10 DEF Disconnect, DelServer, GuiGoto
<1>11. CASE Left
  <2>1. active_network \in {leaving, None} /\ leaving \in Client
    BY <1>11 DEF Left, GuiAt, Window, Opened, PlaceOK
  <2>2. joined'[leaving] = {} /\ items' = {} /\ active_network' = active_network
    BY <1>11, <2>1 DEF Left, WorldOK
  <2>3. ItemsOf(active_network)' = {}
    BY <2>1, <2>2 DEF ItemsOf
  <2> QED BY <1>2, <2>2, <2>3
<1> QED BY <1>5, <1>6, <1>7, <1>8, <1>9, <1>10, <1>11 DEF User

\* Every step keeps it.
LEMMA ItemsStep ==
  ASSUME TypeOK, Nodes, Working, Window, ItemsCurrent, [Next]_vars PROVE ItemsCurrent'
<1>1. CASE UNCHANGED vars
  BY <1>1 DEF vars, world, thread, place, view, ItemsCurrent, ItemsOf, Queued, Alive
<1> QED BY <1>1, ItemsThreads, ItemsTasks, ItemsUser DEF Next, Stopped
-----------------------------------------------------------------------------
(* Who has a message                                                       *)

Holders == Owned /\ Deleted /\ Carried

LEMMA ElementsAppend ==
  ASSUME NEW S, NEW s \in Seq(S), NEW x \in S
  PROVE  Elements(Append(s, x)) = Elements(s) \cup {x}
<1>1. /\ Len(s) \in Nat /\ DOMAIN s = 1 .. Len(s) /\ DOMAIN Append(s, x) = 1 .. Len(s) + 1
      /\ Append(s, x)[Len(s) + 1] = x
      /\ \A i \in 1 .. Len(s) : Append(s, x)[i] = s[i]
  OBVIOUS
<1>2. ASSUME NEW y \in Elements(Append(s, x)) PROVE y \in Elements(s) \cup {x}
  <2>1. PICK i \in 1 .. Len(s) + 1 : y = Append(s, x)[i]
    BY <1>1 DEF Elements
  <2>2. i \in 1 .. Len(s) \/ i = Len(s) + 1
    BY <1>1
  <2> QED BY <1>1, <2>1, <2>2 DEF Elements
<1>3. ASSUME NEW y \in Elements(s) \cup {x} PROVE y \in Elements(Append(s, x))
  <2>1. CASE y = x
    <3>1. Len(s) + 1 \in 1 .. Len(s) + 1
      BY <1>1
    <3> QED BY <1>1, <2>1, <3>1 DEF Elements
  <2>2. CASE y \in Elements(s)
    <3>1. PICK i \in 1 .. Len(s) : y = s[i]
      BY <1>1, <2>2 DEF Elements
    <3>2. i \in 1 .. Len(s) + 1
      BY <1>1
    <3> QED BY <1>1, <3>1, <3>2 DEF Elements
  <2> QED BY <2>1, <2>2
<1> QED BY <1>2, <1>3

\* The numbers of the messages that are kept, and their channels.
LEMMA HolderFacts ==
  ASSUME TypeOK
  PROVE  /\ \A ch \in Chan : Elements(messages[ch]) \subseteq Holder
         /\ Elements(list) \subseteq Holder
         /\ \A h \in Holder : h[1] \in Chan /\ h[2] \in Nat
         /\ \A c \in Client : held[c] # NoHolder => held[c] \in Holder
         /\ sent \in Nat
<1>1. \A h \in Holder : h[1] \in Chan /\ h[2] \in Nat
  BY DEF Holder
<1>2. \A ch \in Chan : Elements(messages[ch]) \subseteq Holder
  BY DEF TypeOK, StoreOK, Elements
<1>3. Elements(list) \subseteq Holder
  BY DEF TypeOK, ViewOK, Elements
<1> QED BY <1>1, <1>2, <1>3 DEF TypeOK, StoreOK, ThreadOK

\* A message that is made is not one that there was.
LEMMA NewHolderIsNew ==
  ASSUME TypeOK, Holders, NewMessage, NEW ch \in Chan
  PROVE  /\ NewHolder(ch) \in Holder /\ NewHolder(ch)[1] = ch /\ NewHolder(ch)[2] = sent + 1
         /\ sent' = sent + 1 /\ sent \in Nat
         /\ NewHolder(ch) \notin freed
         /\ \A d \in Chan : NewHolder(ch) \notin Elements(messages[d])
         /\ \A c \in Client : Carries(c) => held[c] # NewHolder(ch)
<1>1. /\ NewHolder(ch)[1] = ch /\ NewHolder(ch)[2] = sent + 1 /\ sent' = sent + 1
      /\ NewHolder(ch) \in Holder
  BY NewMessageFacts DEF NewHolder, NewMessage, TypeOK
<1>2. sent \in Nat /\ ~(sent + 1 <= sent)
  BY HolderFacts
<1> QED BY <1>1, <1>2 DEF Holders, Owned, Deleted, Carried

\* What a thread does between two messages.
Moves(d) ==
  /\ Carries(d)' => Carries(d) /\ held'[d] = held[d] /\ work'[d] = work[d]
  /\ Unstored(d)' => Unstored(d)
  /\ at[d] \in {"removed", "clear", "erase"} =>
       at'[d] \in {"removed", "clear", "erase"} /\ work'[d] = work[d]

\* A channel is never made where one was.
NoneRevived == \A ch \in Chan : chan[ch] # None => (ch \in Live' => ch \in Live)

LEMMA RemovingMoves ==
  ASSUME \A d \in Client : Moves(d), NEW ch, Removing(ch)
  PROVE  Removing(ch)'
BY DEF Moves, Removing

\* A thread that carries a message works on a channel of its network, which
\* no other thread works on.
LEMMA CarrierWorks ==
  ASSUME TypeOK, Working, NEW d \in Client, at[d] # "read"
  PROVE  /\ work[d] \in Chan /\ chan[work[d]] # None /\ chan[work[d]].client = d
         /\ Carries(d) => held[d] \in Holder \/ held[d] = NoHolder
<1>1. WorksOn(d) /\ work[d] \in Chan \cup {NoChan} /\ held[d] \in Holder \cup {NoHolder}
  BY DEF TypeOK, ThreadOK, Working
<1> QED BY <1>1 DEF WorksOn

LEMMA CarriesBusy == ASSUME NEW d \in Client, Carries(d) PROVE at[d] # "read"
BY DEF Carries, Unstored

\* A step that neither stores nor deletes a message, nor erases a channel; it
\* may have a channel start afresh.
LEMMA HoldersMove ==
  ASSUME TypeOK, Working, Holders, ChannelsStay, NoneRevived, UNCHANGED <<freed, sent>>,
         \A ch \in Chan : Elements(messages'[ch]) \subseteq Elements(messages[ch]),
         \A d \in Client : Moves(d)
  PROVE  Holders'
<1>1. Owned'
  BY DEF Holders, Owned
<1>2. Deleted'
  <2> SUFFICES ASSUME NEW h \in freed
               PROVE  h[2] <= sent /\ chan'[h[1]] # None /\ (h[1] \in Live' => Removing(h[1])')
    BY DEF Deleted
  <2>1. h \in Holder /\ h[1] \in Chan
    BY HolderFacts DEF TypeOK, StoreOK
  <2>2. h[2] <= sent /\ chan[h[1]] # None /\ (h[1] \in Live => Removing(h[1]))
    BY DEF Holders, Deleted
  <2> QED BY <2>1, <2>2, RemovingMoves DEF ChannelsStay, NoneRevived
<1>3. Carried'
  <2> SUFFICES ASSUME NEW c \in Client
               PROVE  /\ Carries(c)' => held'[c][1] = work'[c] /\ held'[c][2] <= sent
                      /\ Unstored(c)' => held'[c] \notin freed \cup Elements(messages'[work'[c]])
    BY DEF Carried
  <2>1. /\ Carries(c)' => Carries(c) /\ held'[c] = held[c] /\ work'[c] = work[c]
        /\ Unstored(c)' => Unstored(c) /\ Carries(c)'
    BY DEF Moves, Carries
  <2>2. /\ Carries(c) => held[c][1] = work[c] /\ held[c][2] <= sent
        /\ Unstored(c) => held[c] \notin freed \cup Elements(messages[work[c]])
    BY DEF Holders, Carried
  <2>3. Carries(c) => work[c] \in Chan
    BY CarrierWorks, CarriesBusy
  <2> QED BY <2>1, <2>2, <2>3
<1> QED BY <1>1, <1>2, <1>3 DEF Holders

\* New channels do not have the node of an old one.
LEMMA AddRevivesNone ==
  ASSUME WorldOK, Nodes, NEW c \in Client, NEW n \in Name, AddChannel(c, n)
  PROVE  NoneRevived
<1>1. /\ chan[made'] = None /\ joined'[c] = joined[c] \cup {made'}
      /\ \A d \in Client \ {c} : joined'[d] = joined[d]
  BY AddChannelFacts
<1> QED BY <1>1 DEF NoneRevived, Live

\* A thread that works on another network stays where it is.
LEMMA OthersMove ==
  ASSUME ThreadOK, NEW c \in Client, ProcessMessage(c)
  PROVE  \A d \in Client \ {c} : Moves(d)
BY ThreadFrame DEF Moves, Carries, Unstored

\* The steps of a thread that store or delete no message.
LEMMA HoldersQuiet ==
  ASSUME TypeOK, Nodes, Working, Opened, Holders, NEW c \in Client, ProcessMessage(c),
         \/ OwnJoin(c) \/ TestNetwork(c) \/ PostAdded(c) \/ TestShown(c) \/ PostMessage(c)
         \/ TestActive(c) \/ PostCleared(c) \/ PostErased(c)
  PROVE  Holders'
<1> USE DEF TypeOK
<1>1. /\ at \in [Client -> ThreadPoints] /\ work \in [Client -> Chan \cup {NoChan}]
      /\ held \in [Client -> Holder \cup {NoHolder}] /\ then \in [Client -> {"read", "store"}]
  BY DEF ThreadOK
<1>2. Moves(c)
  <2> USE DEF Moves, Carries, Unstored, At, Goto
  <2>1. CASE OwnJoin(c)
    BY <1>1, <2>1 DEF OwnJoin
  <2>2. CASE TestNetwork(c)
    BY <1>1, <2>2 DEF TestNetwork, Return
  <2>3. CASE PostAdded(c)
    BY <1>1, <2>3 DEF PostAdded, Return
  <2>4. CASE TestShown(c) \/ PostMessage(c)
    BY <1>1, <2>4 DEF TestShown, PostMessage, Return
  <2>5. CASE TestActive(c) \/ PostCleared(c) \/ PostErased(c)
    BY <1>1, <2>5 DEF TestActive, PostCleared, PostErased, Return
  <2> QED BY <2>1, <2>2, <2>3, <2>4, <2>5
<1>3. NoneRevived
  <2>1. CASE OwnJoin(c)
    <3>1. PICK n \in Name : AddChannel(c, n)
      BY <2>1 DEF OwnJoin
    <3> QED BY <3>1, AddRevivesNone
  <2>2. CASE ~OwnJoin(c)
    <3>1. joined' = joined
      BY <2>2 DEF TestNetwork, PostAdded, TestShown, PostMessage, TestActive, PostCleared,
                  PostErased, world
    <3> QED BY <3>1 DEF NoneRevived, Live
  <2> QED BY <2>1, <2>2
<1>4. UNCHANGED store
  BY DEF OwnJoin, TestNetwork, PostAdded, TestShown, PostMessage, TestActive, PostCleared,
         PostErased
<1>5. ChannelsStay
  BY NodesStep DEF Next
<1> QED BY <1>2, <1>3, <1>4, <1>5, OthersMove, HoldersMove DEF store

\* A message that was carried goes to the channel of the thread.
LEMMA HoldersStore ==
  ASSUME TypeOK, Nodes, Working, Holders, NEW c \in Client, StoreMessage(c)
  PROVE  Holders'
<1> USE DEF TypeOK
<1>1. /\ at[c] = "store" /\ at' = [at EXCEPT ![c] = "stored"]
      /\ AddMessage(work[c], held[c])
      /\ joined' = joined /\ chan' = chan /\ freed' = freed /\ sent' = sent
      /\ work' = work /\ held' = held /\ then' = then
  BY DEF StoreMessage, At, Goto, world
<1>2. /\ at \in [Client -> ThreadPoints] /\ messages \in [Chan -> Seq(Holder)]
      /\ at'[c] = "stored" /\ \A d \in Client \ {c} : at'[d] = at[d]
  BY <1>1 DEF ThreadOK, StoreOK
<1>3. /\ work[c] \in Chan /\ chan[work[c]].client = c /\ held[c] \in Holder
      /\ held[c][1] = work[c] /\ held[c][2] <= sent
      /\ held[c] \notin freed \cup Elements(messages[work[c]])
  <2>1. Unstored(c) /\ Carries(c) /\ at[c] # "read"
    BY <1>1 DEF Unstored, Carries
  <2>2. held[c] \in Holder
    BY <1>1 DEF Working, WorksOn, ThreadOK
  <2> QED BY <2>1, <2>2, CarrierWorks DEF Holders, Carried
<1>4. /\ \A ch \in Chan \ {work[c]} : messages'[ch] = messages[ch]
      /\ Elements(messages'[work[c]]) = Elements(messages[work[c]]) \cup {held[c]}
  <2>1. messages'[work[c]] = Append(messages[work[c]], held[c])
    BY <1>1, <1>2, <1>3 DEF AddMessage
  <2>2. messages[work[c]] \in Seq(Holder)
    BY <1>2, <1>3
  <2>3. Elements(Append(messages[work[c]], held[c])) = Elements(messages[work[c]]) \cup {held[c]}
    BY <1>3, <2>2, ElementsAppend
  <2> QED BY <1>1, <1>2, <2>1, <2>3 DEF AddMessage
<1>5. \A d \in Client : Moves(d)
  BY <1>1, <1>2 DEF Moves, Carries, Unstored
<1>6. Owned'
  <2> SUFFICES ASSUME NEW ch \in Chan, NEW h \in Elements(messages'[ch])
               PROVE  h[1] = ch /\ h[2] <= sent /\ h \notin freed
    BY <1>1 DEF Owned
  <2>1. CASE h \in Elements(messages[ch])
    BY <2>1 DEF Holders, Owned
  <2>2. CASE h \notin Elements(messages[ch])
    BY <1>3, <1>4, <2>2
  <2> QED BY <2>1, <2>2
<1>7. Deleted'
  <2> SUFFICES ASSUME NEW h \in freed
               PROVE  h[2] <= sent /\ chan[h[1]] # None /\ (h[1] \in Live => Removing(h[1])')
    BY <1>1 DEF Deleted, Live
  <2> QED BY <1>5, RemovingMoves DEF Holders, Deleted
<1>8. Carried'
  <2> SUFFICES ASSUME NEW d \in Client
               PROVE  /\ Carries(d)' => held[d][1] = work[d] /\ held[d][2] <= sent
                      /\ Unstored(d)' => held[d] \notin freed \cup Elements(messages'[work[d]])
    BY <1>1 DEF Carried
  <2>1. /\ Carries(d)' => Carries(d)
        /\ Unstored(d)' => Unstored(d) /\ Carries(d)
    BY <1>5 DEF Moves, Carries
  <2>2. /\ Carries(d) => held[d][1] = work[d] /\ held[d][2] <= sent
        /\ Unstored(d) => held[d] \notin freed \cup Elements(messages[work[d]])
    BY DEF Holders, Carried
  <2>3. ASSUME Unstored(d)' PROVE messages'[work[d]] = messages[work[d]]
    <3>1. d # c
      BY <1>2, <2>3 DEF Unstored
    <3>2. work[d] \in Chan /\ chan[work[d]].client = d
      BY <2>1, <2>3, CarrierWorks, CarriesBusy
    <3> QED BY <1>3, <1>4, <3>1, <3>2
  <2> QED BY <2>1, <2>2, <2>3
<1> QED BY <1>6, <1>7, <1>8 DEF Holders

\* A thread takes up a new message of the server.
LEMMA HoldersTake ==
  ASSUME TypeOK, Nodes, Working, Opened, Holders, NEW c \in Client,
         FirstMessage(c) \/ Message(c)
  PROVE  Holders'
<1> USE DEF TypeOK
<1>1. PICK ch \in Chan : /\ NewMessage /\ work'[c] = ch /\ held'[c] = NewHolder(ch)
                         /\ NoneRevived
  <2>1. CASE FirstMessage(c)
    <3>1. PICK n \in Name : AddChannel(c, n)
      BY <2>1 DEF FirstMessage
    <3>2. made' \in Chan /\ NoneRevived
      BY <3>1, AddChannelFacts, AddRevivesNone
    <3>3. NewMessage /\ work'[c] = made' /\ held'[c] = NewHolder(made')
      BY <2>1 DEF FirstMessage, ThreadOK
    <3> QED BY <3>2, <3>3
  <2>2. CASE Message(c)
    <3>1. PICK ch \in joined[c] : /\ work' = [work EXCEPT ![c] = ch]
                                  /\ held' = [held EXCEPT ![c] = NewHolder(ch)]
      BY <2>2 DEF Message
    <3>2. NewMessage /\ joined' = joined
      BY <2>2 DEF Message, world
    <3>3. ch \in Chan
      BY <3>1 DEF WorldOK
    <3>4. NoneRevived
      BY <3>2 DEF NoneRevived, Live
    <3> QED BY <3>1, <3>2, <3>3, <3>4 DEF ThreadOK
  <2> QED BY <2>1, <2>2
<1>2. /\ at[c] = "read" /\ at'[c] \in {"added", "store"}
      /\ messages' = messages /\ freed' = freed
  BY DEF FirstMessage, Message, At, Goto, ThreadOK
<1>3. /\ NewHolder(ch)[1] = ch /\ NewHolder(ch)[2] = sent + 1 /\ sent' = sent + 1
      /\ sent \in Nat /\ NewHolder(ch) \notin freed
      /\ \A d \in Chan : NewHolder(ch) \notin Elements(messages[d])
  BY <1>1, NewHolderIsNew
<1>4. \A d \in Client \ {c} : Moves(d)
  BY OthersMove DEF ProcessMessage
<1>5. \A h \in Holder : h[2] \in Nat
  BY HolderFacts
<1>6. Owned'
  <2> SUFFICES ASSUME NEW d \in Chan, NEW h \in Elements(messages[d])
               PROVE  h[1] = d /\ h[2] <= sent + 1 /\ h \notin freed
    BY <1>2, <1>3 DEF Owned
  <2>1. h[1] = d /\ h[2] <= sent /\ h \notin freed /\ h \in Holder
    BY HolderFacts DEF Holders, Owned
  <2> QED BY <1>3, <1>5, <2>1
<1>7. Deleted'
  <2> SUFFICES ASSUME NEW h \in freed
               PROVE  h[2] <= sent + 1 /\ chan'[h[1]] # None
                      /\ (h[1] \in Live' => Removing(h[1])')
    BY <1>2, <1>3 DEF Deleted
  <2>1. h \in Holder /\ h[1] \in Chan /\ h[2] \in Nat
    BY HolderFacts DEF StoreOK
  <2>2. h[2] <= sent /\ chan[h[1]] # None /\ (h[1] \in Live => Removing(h[1]))
    BY DEF Holders, Deleted
  <2>3. ChannelsStay
    BY NodesStep DEF Next, ProcessMessage
  <2>4. Moves(c) \/ ~(at[c] \in {"removed", "clear", "erase"})
    BY <1>2
  <2>5. Removing(h[1]) => Removing(h[1])'
    BY <1>2, <1>4 DEF Removing, Moves
  <2> QED BY <1>1, <1>3, <2>1, <2>2, <2>3, <2>5 DEF ChannelsStay, NoneRevived
<1>8. Carried'
  <2> SUFFICES ASSUME NEW d \in Client
               PROVE  /\ Carries(d)' => held'[d][1] = work'[d] /\ held'[d][2] <= sent + 1
                      /\ Unstored(d)' => held'[d] \notin freed \cup Elements(messages[work'[d]])
    BY <1>2, <1>3 DEF Carried
  <2>1. CASE d = c
    BY <1>1, <1>3, <2>1
  <2>2. CASE d # c
    <3>1. /\ Carries(d)' => Carries(d) /\ held'[d] = held[d] /\ work'[d] = work[d]
          /\ Unstored(d)' => Unstored(d) /\ Carries(d)'
      BY <1>4, <2>2 DEF Moves, Carries
    <3>2. /\ Carries(d) => held[d][1] = work[d] /\ held[d][2] <= sent
          /\ Unstored(d) => held[d] \notin freed \cup Elements(messages[work[d]])
      BY DEF Holders, Carried
    <3>3. Carries(d) => held[d][2] \in Nat
      <4>1. ASSUME Carries(d) PROVE held[d] \in Holder \cup {NoHolder}
        BY DEF ThreadOK
      <4>2. NoHolder[2] \in Nat
        BY DEF NoHolder
      <4> QED BY <1>5, <4>1, <4>2
    <3> QED BY <1>3, <3>1, <3>2, <3>3
  <2> QED BY <2>1, <2>2
<1> QED BY <1>6, <1>7, <1>8 DEF Holders

\* The messages of a channel are deleted before the channel is erased.
LEMMA HoldersPart ==
  ASSUME TypeOK, Nodes, Working, Holders, NEW c \in Client, OwnPart(c)
  PROVE  Holders'
<1> USE DEF TypeOK
<1>1. PICK ch \in joined[c] : /\ work' = [work EXCEPT ![c] = ch]
                              /\ messages' = [messages EXCEPT ![ch] = <<>>]
                              /\ freed' = freed \cup Elements(messages[ch])
  BY DEF OwnPart
<1>2. ch \in Chan /\ chan[ch] # None /\ chan[ch].client = c
  BY <1>1 DEF WorldOK, Nodes
<1>3. /\ at[c] = "read" /\ at'[c] = "removed" /\ work'[c] = ch
      /\ joined' = joined /\ chan' = chan /\ sent' = sent
  BY <1>1 DEF OwnPart, At, Goto, ThreadOK, world
<1>4. /\ Elements(messages'[ch]) = {}
      /\ \A d \in Chan \ {ch} : messages'[d] = messages[d]
  BY <1>1, <1>2 DEF StoreOK, Elements
<1>5. \A d \in Client : Moves(d)
  <2>1. Moves(c)
    BY <1>3 DEF Moves, Carries, Unstored
  <2> QED BY <2>1, OthersMove DEF ProcessMessage
<1>6. \A h \in Elements(messages[ch]) : h[1] = ch /\ h[2] <= sent
  BY <1>2 DEF Holders, Owned
<1>7. Owned'
  <2> SUFFICES ASSUME NEW d \in Chan, NEW h \in Elements(messages'[d])
               PROVE  h[1] = d /\ h[2] <= sent /\ h \notin freed'
    BY <1>3 DEF Owned
  <2>1. d # ch /\ h \in Elements(messages[d])
    BY <1>4
  <2>2. h[1] = d /\ h[2] <= sent /\ h \notin freed
    BY <2>1 DEF Holders, Owned
  <2> QED BY <1>1, <1>6, <2>1, <2>2
<1>8. Deleted'
  <2> SUFFICES ASSUME NEW h \in freed'
               PROVE  h[2] <= sent /\ chan[h[1]] # None /\ (h[1] \in Live => Removing(h[1])')
    BY <1>3 DEF Deleted, Live
  <2>1. CASE h \in freed
    BY <1>5, <2>1, RemovingMoves DEF Holders, Deleted
  <2>2. CASE h \notin freed
    <3>1. h[1] = ch /\ h[2] <= sent
      BY <1>1, <1>6, <2>2
    <3> QED BY <1>2, <1>3, <3>1 DEF Removing
  <2> QED BY <2>1, <2>2
<1>9. Carried'
  <2> SUFFICES ASSUME NEW d \in Client
               PROVE  /\ Carries(d)' => held'[d][1] = work'[d] /\ held'[d][2] <= sent
                      /\ Unstored(d)' =>
                           held'[d] \notin freed' \cup Elements(messages'[work'[d]])
    BY <1>3 DEF Carried
  <2>1. /\ Carries(d)' => Carries(d) /\ held'[d] = held[d] /\ work'[d] = work[d]
        /\ Unstored(d)' => Unstored(d) /\ Carries(d)'
    BY <1>5 DEF Moves, Carries
  <2>2. /\ Carries(d) => held[d][1] = work[d] /\ held[d][2] <= sent
        /\ Unstored(d) => held[d] \notin freed \cup Elements(messages[work[d]])
    BY DEF Holders, Carried
  <2>3. ASSUME Unstored(d)' PROVE work[d] \in Chan /\ work[d] # ch
    <3>1. d # c
      BY <1>3, <2>3 DEF Unstored
    <3>2. work[d] \in Chan /\ chan[work[d]].client = d
      BY <2>1, <2>3, CarrierWorks, CarriesBusy
    <3> QED BY <1>2, <3>1, <3>2
  <2>4. ASSUME Unstored(d)' PROVE held[d] \notin Elements(messages[ch])
    BY <1>6, <2>1, <2>2, <2>3, <2>4
  <2> QED BY <1>1, <1>4, <2>1, <2>2, <2>3, <2>4
<1> QED BY <1>7, <1>8, <1>9 DEF Holders

\* A channel is erased by the thread that deleted its messages.
LEMMA HoldersErase ==
  ASSUME TypeOK, Nodes, Working, Holders, NEW c \in Client, Erase(c)
  PROVE  Holders'
<1> USE DEF TypeOK
<1>1. /\ at[c] = "erase" /\ at'[c] = "erased" /\ work' = work /\ held' = held
      /\ chan' = chan /\ messages' = messages /\ freed' = freed /\ sent' = sent
      /\ \A d \in Client \ {c} : at'[d] = at[d] /\ then'[d] = then[d]
      /\ joined'[c] = joined[c] \ {work[c]}
      /\ \A d \in Client \ {c} : joined'[d] = joined[d]
  BY DEF Erase, At, Goto, ThreadOK, WorldOK, store
<1>2. work[c] \in Chan /\ chan[work[c]].client = c
  BY <1>1, CarrierWorks
<1>3. Owned'
  BY <1>1 DEF Holders, Owned
<1>4. Deleted'
  <2> SUFFICES ASSUME NEW h \in freed
               PROVE  h[2] <= sent /\ chan[h[1]] # None /\ (h[1] \in Live' => Removing(h[1])')
    BY <1>1 DEF Deleted
  <2>1. h[2] <= sent /\ chan[h[1]] # None /\ (h[1] \in Live => Removing(h[1]))
    BY DEF Holders, Deleted
  <2>2. ASSUME h[1] \in Live' PROVE h[1] # work[c] /\ h[1] \in Live
    <3>1. PICK d \in Client : h[1] \in joined'[d]
      BY <2>2 DEF Live
    <3>2. CASE d = c
      BY <1>1, <3>1, <3>2 DEF Live
    <3>3. CASE d # c
      <4>1. h[1] \in joined[d]
        BY <1>1, <3>1, <3>3
      <4>2. chan[h[1]].client = d
        BY <4>1 DEF Nodes
      <4> QED BY <1>2, <3>3, <4>1, <4>2 DEF Live
    <3> QED BY <3>2, <3>3
  <2>3. ASSUME h[1] \in Live' PROVE Removing(h[1])'
    <3>1. PICK d \in Client : work[d] = h[1] /\ at[d] \in {"removed", "clear", "erase"}
      BY <2>1, <2>2, <2>3 DEF Removing
    <3>2. d # c
      BY <2>2, <2>3, <3>1
    <3> QED BY <1>1, <3>1, <3>2 DEF Removing
  <2> QED BY <2>1, <2>3
<1>5. Carried'
  <2>1. \A d \in Client : (Carries(d)' => Carries(d)) /\ (Unstored(d)' => Unstored(d))
    BY <1>1 DEF Carries, Unstored
  <2> QED BY <1>1, <2>1 DEF Holders, Carried
<1> QED BY <1>3, <1>4, <1>5 DEF Holders

\* The user sends a message.
LEMMA HoldersSay ==
  ASSUME TypeOK, Nodes, Working, Holders, NEW ch \in Chan, AddMessage(ch, NewHolder(ch)),
         NewMessage, UNCHANGED <<chan, joined, freed, at, work, held, then>>
  PROVE  Holders'
<1> USE DEF TypeOK
<1>1. /\ NewHolder(ch) \in Holder /\ NewHolder(ch)[1] = ch /\ NewHolder(ch)[2] = sent + 1
      /\ sent' = sent + 1 /\ sent \in Nat /\ NewHolder(ch) \notin freed
      /\ \A d \in Client : Carries(d) => held[d] # NewHolder(ch)
  BY NewHolderIsNew
<1>2. /\ \A d \in Chan \ {ch} : messages'[d] = messages[d]
      /\ Elements(messages'[ch]) = Elements(messages[ch]) \cup {NewHolder(ch)}
  <2>1. messages[ch] \in Seq(Holder) /\ messages'[ch] = Append(messages[ch], NewHolder(ch))
        /\ \A d \in Chan \ {ch} : messages'[d] = messages[d]
    BY DEF AddMessage, StoreOK
  <2>2. Elements(Append(messages[ch], NewHolder(ch))) = Elements(messages[ch]) \cup {NewHolder(ch)}
    BY <1>1, <2>1, ElementsAppend
  <2> QED BY <2>1, <2>2
<1>3. \A h \in Holder : h[2] \in Nat
  BY HolderFacts
<1>4. Owned'
  <2> SUFFICES ASSUME NEW d \in Chan, NEW h \in Elements(messages'[d])
               PROVE  h[1] = d /\ h[2] <= sent + 1 /\ h \notin freed
    BY <1>1 DEF Owned
  <2>1. CASE h \in Elements(messages[d])
    <3>1. h[1] = d /\ h[2] <= sent /\ h \notin freed /\ h \in Holder
      BY <2>1, HolderFacts DEF Holders, Owned
    <3> QED BY <1>1, <1>3, <3>1
  <2>2. CASE h \notin Elements(messages[d])
    <3>1. d = ch /\ h = NewHolder(ch)
      BY <1>2, <2>2
    <3> QED BY <1>1, <3>1
  <2> QED BY <2>1, <2>2
<1>5. Deleted'
  <2> SUFFICES ASSUME NEW h \in freed
               PROVE  h[2] <= sent + 1 /\ chan[h[1]] # None /\ (h[1] \in Live => Removing(h[1]))
    BY <1>1 DEF Deleted, Live, Removing
  <2>1. h \in Holder
    BY DEF StoreOK
  <2>2. h[2] <= sent /\ chan[h[1]] # None /\ (h[1] \in Live => Removing(h[1]))
    BY DEF Holders, Deleted
  <2> QED BY <1>1, <1>3, <2>1, <2>2
<1>6. Carried'
  <2> SUFFICES ASSUME NEW d \in Client
               PROVE  /\ Carries(d) => held[d][1] = work[d] /\ held[d][2] <= sent + 1
                      /\ Unstored(d) => held[d] \notin freed \cup Elements(messages'[work[d]])
    BY <1>1 DEF Carried, Carries, Unstored
  <2>1. /\ Carries(d) => held[d][1] = work[d] /\ held[d][2] <= sent
        /\ Unstored(d) => held[d] \notin freed \cup Elements(messages[work[d]])
        /\ Unstored(d) => Carries(d)
    BY DEF Holders, Carried, Carries
  <2>2. Carries(d) => held[d][2] \in Nat
    <3>1. ASSUME Carries(d) PROVE held[d] \in Holder \cup {NoHolder}
      BY DEF ThreadOK
    <3>2. NoHolder[2] \in Nat
      BY DEF NoHolder
    <3> QED BY <1>3, <3>1, <3>2
  <2>3. Carries(d) => work[d] \in Chan
    BY CarrierWorks, CarriesBusy
  <2> QED BY <1>1, <1>2, <2>1, <2>2, <2>3
<1> QED BY <1>4, <1>5, <1>6 DEF Holders

\* The user's steps.
LEMMA HoldersUser ==
  ASSUME TypeOK, Nodes, Working, Opened, Holders, User PROVE Holders'
<1> USE DEF TypeOK
<1>1. at' = at /\ work' = work /\ held' = held /\ then' = then
  BY UserFrame
<1>2. ChannelsStay
  BY NodesStep DEF Next
<1>3. \A d \in Client : Moves(d)
  BY <1>1 DEF Moves, Carries, Unstored
<1>4. ASSUME NoneRevived, UNCHANGED store PROVE Holders'
  BY <1>2, <1>3, <1>4, HoldersMove DEF store
<1>5. ASSUME joined' = joined PROVE NoneRevived
  BY <1>5 DEF NoneRevived, Live
<1>6. ASSUME NEW c \in Client, OpenNetwork(c) PROVE Holders'
  <2>1. NoneRevived
    BY <1>5, <1>6, AddRevivesNone, ChannelsAssumption DEF OpenNetwork
  <2>2. \A ch \in Chan : Elements(messages'[ch]) \subseteq Elements(messages[ch])
    <3>1. Elements(<<>>) = {}
      BY DEF Elements
    <3> QED BY <1>6, <3>1 DEF OpenNetwork
  <2>3. UNCHANGED <<freed, sent>>
    BY <1>6 DEF OpenNetwork
  <2> QED BY <1>2, <1>3, <2>1, <2>2, <2>3, HoldersMove
<1>7. ASSUME NEW n \in Name, Query(n) PROVE Holders'
  <2>1. active_network \in Client /\ AddChannel(active_network, n) /\ UNCHANGED store
    BY <1>7 DEF Query, ViewOK
  <2>2. NoneRevived
    BY <2>1, AddRevivesNone
  <2> QED BY <1>4, <2>1, <2>2
<1>8. CASE Say
  <2>1. UNCHANGED <<chan, joined, freed, at, work, held, then>>
    BY <1>8 DEF Say, world, thread
  <2>2. CASE active \in Live /\ Lookup(active_network, chan[active].name) # {}
    <3>1. PICK ch \in Lookup(active_network, chan[active].name) :
            AddMessage(ch, NewHolder(ch))
      BY <1>8, <2>2 DEF Say
    <3>2. ch \in Chan /\ NewMessage
      BY <1>8, <2>2, <3>1 DEF Say, Lookup, ViewOK, WorldOK
    <3> QED BY <2>1, <3>1, <3>2, HoldersSay
  <2>3. CASE ~(active \in Live /\ Lookup(active_network, chan[active].name) # {})
    <3>1. UNCHANGED store
      BY <1>8, <2>3 DEF Say, store
    <3> QED BY <1>4, <1>5, <2>1, <3>1
  <2> QED BY <2>2, <2>3
<1>9. CASE Msg
  <2>1. UNCHANGED <<chan, joined, freed, at, work, held, then>>
    BY <1>9 DEF Msg, world, thread
  <2>2. PICK ch \in joined[active_network] : AddMessage(ch, NewHolder(ch))
    BY <1>9 DEF Msg
  <2>3. ch \in Chan /\ NewMessage
    BY <1>9, <2>2 DEF Msg, ViewOK, WorldOK
  <2> QED BY <2>1, <2>2, <2>3, HoldersSay
<1>10. CASE Left
  <2>1. NoneRevived
    BY <1>10 DEF Left, NoneRevived, Live, WorldOK
  <2> QED BY <1>4, <1>10, <2>1 DEF Left
<1>11. ASSUME NEW c \in Client, SelectNetwork(c) PROVE UNCHANGED <<world, store>>
  BY <1>11 DEF SelectNetwork
<1>12. ASSUME NEW ch \in Chan, SelectChannel(ch) \/ QuickSelect(ch)
       PROVE  UNCHANGED <<world, store>>
  BY <1>12 DEF SelectChannel, QuickSelect
<1>13. CASE Fill \/ SetActive \/ Disconnect \/ DelServer
  BY <1>4, <1>5, <1>13 DEF Fill, SetActive, Disconnect, DelServer, world
<1> QED BY <1>4, <1>5, <1>6, <1>7, <1>8, <1>9, <1>10, <1>11, <1>12, <1>13 DEF User, world

\* The tasks leave the messages alone.
LEMMA HoldersTasks ==
  ASSUME TypeOK, Nodes, Working, Opened, Holders, RunTasks PROVE Holders'
<1>1. /\ joined' = joined /\ at' = at /\ work' = work /\ held' = held /\ then' = then
  BY TaskFrame
<1>2. UNCHANGED store
  BY DEF RunTasks, BeginTasks, RunAddContent, RunPopulate, RunDeactivate, EndTasks, DrawFreed
<1>3. ChannelsStay /\ NoneRevived /\ \A d \in Client : Moves(d)
  BY <1>1, NodesStep DEF Next, NoneRevived, Live, Moves, Carries, Unstored
<1> QED BY <1>2, <1>3, HoldersMove DEF store

\* Every step.
LEMMA HoldersStep ==
  ASSUME TypeOK, Nodes, Working, Opened, Holders, [Next]_vars PROVE Holders'
<1>1. ASSUME NEW c \in Client, ProcessMessage(c) PROVE Holders'
  BY <1>1, HoldersQuiet, HoldersStore, HoldersTake, HoldersPart, HoldersErase
  DEF ProcessMessage
<1>2. CASE UNCHANGED vars
  BY <1>2 DEF vars, world, store, thread, Holders, Owned, Deleted, Carried, Removing, Carries,
              Unstored, Live
<1> QED BY <1>1, <1>2, HoldersTasks, HoldersUser DEF Next, Stopped
-----------------------------------------------------------------------------
(* Deleted messages in the list                                            *)

\* A thread keeps it: what it deletes, it has a task posted for.
LEMMA ListedThreads ==
  ASSUME TypeOK, Nodes, Working, Holders, ListCovered, NEW c \in Client, ProcessMessage(c)
  PROVE  ListCovered'
<1> USE DEF TypeOK
<1>1. /\ Alive /\ active' = active /\ list' = list /\ late' = late
      /\ \A d \in Client \ {c} : at'[d] = at[d] /\ work'[d] = work[d]
  BY ThreadFrame
<1>2. SUFFICES ASSUME NEW h \in Elements(list) \cap freed', h[1] = active, ~late
               PROVE  \/ Queued(Deactivate)'
                      \/ \E d \in Client : work'[d] = active /\ at'[d] \in {"removed", "clear"}
  BY <1>1 DEF ListCovered
<1>3. CASE h \in freed
  <2>1. CASE Queued(Deactivate)
    BY <2>1, ThreadQueue
  <2>2. CASE \E d \in Client : work[d] = active /\ at[d] \in {"removed", "clear"}
    <3>1. PICK d \in Client : work[d] = active /\ at[d] \in {"removed", "clear"}
      BY <2>2
    <3>2. CASE d # c
      BY <1>1, <3>1, <3>2
    <3>3. CASE d = c
      <4>1. CASE TestActive(c)
        <5>1. at'[c] = "clear" /\ work'[c] = active
          BY <3>1, <3>3, <4>1 DEF TestActive, Goto, ThreadOK
        <5> QED BY <5>1
      <4>2. CASE PostCleared(c)
        BY <4>2, ThreadQueue
      <4>3. TestActive(c) \/ PostCleared(c)
        BY <3>1, <3>3 DEF ProcessMessage, OwnJoin, FirstMessage, Message, TestNetwork,
           PostAdded, StoreMessage, TestShown, PostMessage, OwnPart, Erase, PostErased, At
      <4> QED BY <4>1, <4>2, <4>3
    <3> QED BY <3>2, <3>3
  <2> QED BY <1>1, <1>2, <1>3, <2>1, <2>2 DEF ListCovered
<1>4. CASE h \notin freed
  <2>1. OwnPart(c)
    BY <1>2, <1>4 DEF ProcessMessage, OwnJoin, FirstMessage, Message, TestNetwork, PostAdded,
       StoreMessage, TestShown, PostMessage, TestActive, PostCleared, Erase, PostErased, store
  <2>2. PICK ch \in joined[c] : /\ work' = [work EXCEPT ![c] = ch]
                                /\ freed' = freed \cup Elements(messages[ch])
    BY <2>1 DEF OwnPart
  <2>3. ch \in Chan /\ h \in Elements(messages[ch])
    BY <1>2, <1>4, <2>2 DEF WorldOK
  <2>4. h[1] = ch
    BY <2>3 DEF Holders, Owned
  <2>5. work'[c] = ch /\ at'[c] = "removed"
    BY <2>1, <2>2 DEF OwnPart, Goto, ThreadOK
  <2> QED BY <1>2, <2>4, <2>5
<1> QED BY <1>3, <1>4

\* Tasks keep it: a deleted message that is added is read at once.
LEMMA ListedTasks == ASSUME TypeOK, ListCovered, RunTasks PROVE ListCovered'
<1> USE DEF TypeOK
<1>1. at' = at /\ work' = work /\ Alive
  BY TaskFrame DEF Alive
<1>2. freed' = freed
  BY DEF RunTasks, BeginTasks, RunAddContent, RunPopulate, RunDeactivate, EndTasks, DrawFreed,
         store
<1>3. ASSUME UNCHANGED <<active, late>>, Queued(Deactivate) => Queued(Deactivate)',
             Alive' => Elements(list') \cap freed \subseteq Elements(list)
      PROVE  ListCovered'
  BY <1>1, <1>2, <1>3 DEF ListCovered
<1>4. CASE RunDeactivate
  <2>1. Elements(list') = {}
    BY <1>4 DEF RunDeactivate, NothingActive, Elements
  <2> QED BY <2>1 DEF ListCovered
<1>5. CASE RunAddContent
  <2>1. PICK h \in Holder : /\ tasks # <<>> /\ Head(tasks) = AddContent(h)
                            /\ list' = Append(list, h)
                            /\ IF h \in freed THEN Crash ELSE UNCHANGED gui
    BY <1>5 DEF RunAddContent
  <2>2. list \in Seq(Holder)
    BY DEF ViewOK
  <2>3. Elements(Append(list, h)) = Elements(list) \cup {h}
    BY <2>2, ElementsAppend
  <2>4. Alive' => h \notin freed
    BY <2>1 DEF Alive, Crash, GuiGoto
  <2>5. AddContent(h) # Deactivate /\ tasks' = Tail(tasks)
    BY <1>5 DEF AddContent, Deactivate, RunAddContent
  <2>6. Queued(Deactivate) => Queued(Deactivate)'
    BY <2>1, <2>5, TailFacts
  <2>7. UNCHANGED <<active, late>>
    BY <1>5 DEF RunAddContent, history
  <2>8. Alive' => Elements(list') \cap freed \subseteq Elements(list)
    BY <2>1, <2>3, <2>4
  <2> QED BY <1>3, <2>6, <2>7, <2>8
<1>6. CASE BeginTasks \/ RunPopulate \/ EndTasks \/ DrawFreed
  <2>1. UNCHANGED <<active, list, late>>
    BY <1>6 DEF BeginTasks, RunPopulate, EndTasks, DrawFreed, view, history
  <2>2. Populate # Deactivate
    BY DEF Populate, Deactivate
  <2>3. Queued(Deactivate) => Queued(Deactivate)'
    BY <1>6, <2>2, TailFacts DEF BeginTasks, RunPopulate, EndTasks, DrawFreed, Queued
  <2> QED BY <1>3, <2>1, <2>3
<1> QED BY <1>4, <1>5, <1>6 DEF RunTasks

\* The user keeps it: a channel whose messages were deleted is opened late, or
\* while the thread has not yet looked.
LEMMA ListedUser ==
  ASSUME TypeOK, Nodes, Working, Opened, Holders, ListCovered, User
  PROVE  ListCovered'
<1> USE DEF TypeOK
<1>1. at' = at /\ work' = work /\ tasks' = tasks
  BY UserFrame
<1>2. ASSUME Alive, UNCHANGED <<active, late, freed>>,
             Elements(list') \cap freed \subseteq Elements(list)
      PROVE  ListCovered'
  BY <1>1, <1>2 DEF ListCovered, Queued
<1>3. ASSUME Elements(list') \cap freed' = {} PROVE ListCovered'
  BY <1>3 DEF ListCovered
<1>4. Elements(<<>>) = {}
  BY DEF Elements
<1>5. CASE ~Alive'
  BY <1>5 DEF ListCovered
<1>6. ASSUME NEW c \in Client, OpenNetwork(c) \/ SelectNetwork(c) PROVE ListCovered'
  <2>1. Alive /\ UNCHANGED <<active, late, freed, list>>
    BY <1>6 DEF OpenNetwork, SelectNetwork, Alive, GuiAt, history, store
  <2> QED BY <1>2, <2>1
<1>7. ASSUME NEW n \in Name, Query(n) PROVE ListCovered'
  <2>1. Alive /\ UNCHANGED <<active, late, freed, list>>
    BY <1>7 DEF Query, Alive, GuiAt, history, store
  <2> QED BY <1>2, <2>1
<1>8. ASSUME NEW ch \in Chan, SelectChannel(ch) \/ QuickSelect(ch) PROVE ListCovered'
  <2>1. Alive /\ UNCHANGED <<active, late, freed>> /\ list' \in {list, <<>>}
    BY <1>8 DEF SelectChannel, QuickSelect, LoadChannel, Alive, GuiAt, store
  <2> QED BY <1>2, <1>3, <1>4, <2>1
<1>9. CASE Fill
  <2>1. list' = messages[opening] /\ opening \in Chan /\ freed' = freed
    BY <1>9 DEF Fill, GuiAt, Opened, PlaceOK, store
  <2> QED BY <1>3, <2>1 DEF Holders, Owned
<1>10. CASE SetActive
  <2>1. /\ active' = opening /\ late' = PastTest(opening) /\ list' = list /\ freed' = freed
    BY <1>10 DEF SetActive, store
  <2>2. SUFFICES ASSUME NEW h \in Elements(list) \cap freed, h[1] = opening, ~PastTest(opening)
                 PROVE  \E c \in Client : work[c] = opening /\ at[c] \in {"removed", "clear"}
    BY <1>1, <2>1 DEF ListCovered
  <2>3. Removing(opening)
    BY <2>2 DEF Holders, Deleted, PastTest
  <2> QED BY <2>2, <2>3 DEF Removing, PastTest
<1>11. ASSUME NEW ch \in Chan, NewMessage, list' \in {list, Append(list, NewHolder(ch))},
              Alive, UNCHANGED <<active, late, freed>>
       PROVE  ListCovered'
  <2>1. NewHolder(ch) \in Holder /\ NewHolder(ch) \notin freed
    BY <1>11, NewHolderIsNew
  <2>2. list \in Seq(Holder)
    BY DEF ViewOK
  <2>3. Elements(Append(list, NewHolder(ch))) = Elements(list) \cup {NewHolder(ch)}
    BY <2>1, <2>2, ElementsAppend
  <2> QED BY <1>2, <1>11, <2>1, <2>3
<1>12. CASE Say
  <2>1. CASE active \in Live /\ Lookup(active_network, chan[active].name) # {}
    <3>1. PICK ch \in Lookup(active_network, chan[active].name) :
            list' = Append(list, NewHolder(ch))
      BY <1>12, <2>1 DEF Say
    <3>2. ch \in Chan /\ NewMessage /\ Alive /\ UNCHANGED <<active, late, freed>>
      BY <1>12, <2>1, <3>1 DEF Say, Lookup, ViewOK, WorldOK, Alive, GuiAt, history
    <3> QED BY <1>11, <3>1, <3>2
  <2>2. CASE ~(active \in Live /\ Lookup(active_network, chan[active].name) # {})
    BY <1>5, <1>12, <2>2 DEF Say, Crash, GuiGoto, Alive
  <2> QED BY <2>1, <2>2
<1>13. CASE Msg
  <2>1. PICK ch \in joined[active_network] :
          list' = IF active = ch THEN Append(list, NewHolder(ch)) ELSE list
    BY <1>13 DEF Msg
  <2>2. ch \in Chan /\ NewMessage /\ Alive /\ UNCHANGED <<active, late, freed>>
    BY <1>13, <2>1 DEF Msg, ViewOK, WorldOK, Alive, GuiAt, history
  <2> QED BY <1>11, <2>1, <2>2
<1>14. CASE Disconnect \/ DelServer
  BY <1>3, <1>4, <1>14 DEF Disconnect, DelServer, NothingActive
<1>15. CASE Left
  <2>1. Alive /\ UNCHANGED <<active, late, freed, list>>
    BY <1>15 DEF Left, Alive, GuiAt, history, store
  <2> QED BY <1>2, <2>1
<1> QED BY <1>6, <1>7, <1>8, <1>9, <1>10, <1>12, <1>13, <1>14, <1>15 DEF User

\* Every step keeps it.
LEMMA ListedStep ==
  ASSUME TypeOK, Nodes, Working, Opened, Holders, ListCovered, [Next]_vars
  PROVE  ListCovered'
<1>1. CASE UNCHANGED vars
  BY <1>1 DEF vars, thread, store, place, view, history, ListCovered, Queued, Alive
<1> QED BY <1>1, ListedThreads, ListedTasks, ListedUser DEF Next, Stopped
-----------------------------------------------------------------------------
(* Messages on their way to the window                                     *)

Due(ch) == \A h \in Elements(messages[ch]) : OnItsWay(h)

Delivered == Filled /\ MessageShown

\* A thread brings each message on its way one point further.
LEMMA ForwardThread ==
  ASSUME TypeOK, Working, Holders, NEW c \in Client, ProcessMessage(c),
         NEW h, h[1] \in {active, opening}, OnItsWay(h)
  PROVE  OnItsWay(h)'
<1> USE DEF TypeOK
<1>1. /\ active' = active /\ opening' = opening /\ list' = list
      /\ \A d \in Client \ {c} : at'[d] = at[d] /\ held'[d] = held[d]
  BY ThreadFrame
<1>2. missed \subseteq missed'
  BY DEF ProcessMessage, OwnJoin, FirstMessage, Message, TestNetwork, PostAdded, StoreMessage,
         TestShown, PostMessage, OwnPart, TestActive, PostCleared, Erase, PostErased, history
<1>3. CASE h \in Elements(list) \cup missed
  BY <1>1, <1>2, <1>3 DEF OnItsWay
<1>4. CASE Queued(AddContent(h))
  BY <1>4, ThreadQueue DEF OnItsWay
<1>5. CASE \E d \in Client : held[d] = h /\ at[d] \in {"stored", "show"}
  <2>1. PICK d \in Client : held[d] = h /\ at[d] \in {"stored", "show"}
    BY <1>5
  <2>2. CASE d # c
    BY <1>1, <2>1, <2>2 DEF OnItsWay
  <2>3. CASE d = c
    <3>1. work[c] = h[1] /\ held[c] \in Holder
      <4>1. Carries(c) /\ held[c] = h
        BY <2>1, <2>3 DEF Carries
      <4>2. held[c] \in Holder
        BY <2>1, <2>3 DEF Working, WorksOn, ThreadOK
      <4> QED BY <4>1, <4>2 DEF Holders, Carried
    <3>2. CASE TestShown(c)
      <4>1. CASE Shown(c)
        <5>1. at'[c] = "show" /\ held'[c] = h
          BY <2>1, <2>3, <3>2, <4>1 DEF TestShown, Goto, ThreadOK
        <5> QED BY <5>1 DEF OnItsWay
      <4>2. CASE ~Shown(c)
        <5>1. h \in missed'
          BY <2>1, <2>3, <3>1, <3>2, <4>2 DEF TestShown
        <5> QED BY <5>1 DEF OnItsWay
      <4> QED BY <4>1, <4>2
    <3>3. CASE PostMessage(c)
      <4>1. Post(AddContent(h)) /\ AddContent(h) \in Task
        BY <2>1, <2>3, <3>1, <3>3 DEF PostMessage, Task
      <4> QED BY <4>1, PostFacts DEF OnItsWay
    <3>4. TestShown(c) \/ PostMessage(c)
      BY <2>1, <2>3 DEF ProcessMessage, OwnJoin, FirstMessage, Message, TestNetwork, PostAdded,
         StoreMessage, OwnPart, TestActive, PostCleared, Erase, PostErased, At
    <3> QED BY <3>2, <3>3, <3>4
  <2> QED BY <2>2, <2>3
<1> QED BY <1>3, <1>4, <1>5 DEF OnItsWay

\* A message that a thread has just stored is on its way.
LEMMA DueThread ==
  ASSUME TypeOK, Working, Holders, NEW c \in Client, ProcessMessage(c),
         NEW ch \in Chan, ch \in {active, opening}, Due(ch)
  PROVE  Due(ch)'
<1> USE DEF TypeOK
<1> SUFFICES ASSUME NEW h \in Elements(messages'[ch]) PROVE OnItsWay(h)'
  BY DEF Due
<1>1. CASE h \in Elements(messages[ch])
  <2>1. h[1] = ch /\ OnItsWay(h)
    BY <1>1 DEF Holders, Owned, Due
  <2> QED BY <2>1, ForwardThread
<1>2. CASE h \notin Elements(messages[ch])
  <2>1. CASE StoreMessage(c)
    <3>1. at[c] = "store" /\ AddMessage(work[c], held[c]) /\ at'[c] = "stored" /\ held' = held
      BY <2>1 DEF StoreMessage, At, Goto, ThreadOK
    <3>2. work[c] \in Chan /\ held[c] \in Holder
      BY <3>1 DEF Working, WorksOn, ThreadOK
    <3>3. work[c] = ch /\ messages'[ch] = Append(messages[ch], held[c])
      BY <1>2, <3>1, <3>2 DEF AddMessage, StoreOK
    <3>4. messages[ch] \in Seq(Holder)
      BY DEF StoreOK
    <3>5. Elements(Append(messages[ch], held[c])) = Elements(messages[ch]) \cup {held[c]}
      BY <3>2, <3>4, ElementsAppend
    <3>6. h = held'[c]
      BY <1>2, <3>1, <3>3, <3>5
    <3> QED BY <3>1, <3>6 DEF OnItsWay
  <2>2. CASE OwnPart(c)
    <3>1. messages'[ch] \in {messages[ch], <<>>}
      BY <2>2 DEF OwnPart, StoreOK
    <3> QED BY <1>2, <3>1 DEF Elements
  <2>3. CASE ~StoreMessage(c) /\ ~OwnPart(c)
    <3>1. messages' = messages
      BY <2>3 DEF ProcessMessage, OwnJoin, FirstMessage, Message, TestNetwork, PostAdded,
         TestShown, PostMessage, TestActive, PostCleared, Erase, PostErased, store
    <3> QED BY <1>2, <3>1
  <2> QED BY <2>1, <2>2, <2>3
<1> QED BY <1>1, <1>2

LEMMA DeliveredThreads ==
  ASSUME TypeOK, Working, Opened, Holders, Delivered, NEW c \in Client, ProcessMessage(c)
  PROVE  Delivered'
<1> USE DEF TypeOK, Delivered
<1>1. gui' = gui /\ active' = active /\ opening' = opening
  BY ThreadFrame
<1>2. Filled'
  <2>1. ASSUME gui = "set" PROVE opening \in Chan /\ Due(opening)
    BY <2>1 DEF Filled, Due, Opened, PlaceOK
  <2>2. ASSUME NEW ch \in Chan, ch = opening, gui = "set" PROVE Due(ch)'
    BY <2>1, <2>2, DueThread
  <2>3. ASSUME gui = "set", NEW h \in Elements(messages'[opening]) PROVE OnItsWay(h)'
    <3>1. PICK ch \in Chan : ch = opening
      BY <2>1, <2>3
    <3>2. Due(ch)' /\ h \in Elements(messages'[ch])
      BY <2>2, <2>3, <3>1
    <3> QED BY <3>2 DEF Due
  <2> QED BY <1>1, <2>3 DEF Filled
<1>3. MessageShown'
  <2>1. ASSUME active # NoChan, gui \in {"events", "tasks"} PROVE active \in Chan /\ Due(active)
    BY <2>1 DEF MessageShown, Due, ViewOK
  <2>2. ASSUME NEW ch \in Chan, ch = active, gui \in {"events", "tasks"} PROVE Due(ch)'
    BY <2>1, <2>2, DueThread DEF NoChan, Chan
  <2>3. ASSUME active # NoChan, gui \in {"events", "tasks"},
               NEW h \in Elements(messages'[active])
        PROVE  OnItsWay(h)'
    <3>1. PICK ch \in Chan : ch = active
      BY <2>1, <2>3
    <3>2. Due(ch)' /\ h \in Elements(messages'[ch])
      BY <2>2, <2>3, <3>1
    <3> QED BY <3>2 DEF Due
  <2> QED BY <1>1, <2>3 DEF MessageShown
<1> QED BY <1>2, <1>3

\* Tasks keep it: the one that leaves the queue puts its message in the list.
LEMMA DeliveredTasks ==
  ASSUME TypeOK, Delivered, RunTasks PROVE Delivered'
<1> USE DEF TypeOK, Delivered
<1>1. /\ at' = at /\ held' = held /\ opening' = opening
      /\ gui \in {"events", "tasks"} /\ gui' \in {"events", "tasks", "crashed"}
  BY TaskFrame
<1>2. Filled'
  BY <1>1 DEF Filled
<1>3. CASE active' = NoChan
  BY <1>2, <1>3 DEF MessageShown
<1>4. CASE active' # NoChan
  <2>1. ~RunDeactivate
    BY <1>4 DEF RunDeactivate, NothingActive
  <2>2. active' = active /\ missed' = missed /\ messages' = messages
    BY <2>1 DEF RunTasks, BeginTasks, RunAddContent, RunPopulate, EndTasks, DrawFreed, view,
                history, store
  <2>3. SUFFICES ASSUME NEW h, OnItsWay(h) PROVE OnItsWay(h)'
    BY <1>1, <1>2, <1>4, <2>2 DEF MessageShown
  <2>4. CASE RunAddContent
    <3>1. PICK k \in Holder : /\ tasks # <<>> /\ Head(tasks) = AddContent(k)
                              /\ list' = Append(list, k)
      BY <2>4 DEF RunAddContent
    <3>2. list \in Seq(Holder) /\ tasks' = Tail(tasks)
      BY <2>4 DEF ViewOK, RunAddContent
    <3>3. Elements(list') = Elements(list) \cup {k}
      BY <3>1, <3>2, ElementsAppend
    <3>4. CASE h = k
      BY <3>3, <3>4 DEF OnItsWay
    <3>5. CASE h # k
      <4>1. AddContent(h) # AddContent(k)
        BY <3>5 DEF AddContent
      <4>2. Queued(AddContent(h)) => Queued(AddContent(h))'
        BY <3>1, <3>2, <4>1, TailFacts
      <4> QED BY <1>1, <2>2, <2>3, <3>3, <4>2 DEF OnItsWay
    <3> QED BY <3>4, <3>5
  <2>5. CASE ~RunAddContent
    <3>1. list' = list
      BY <2>1, <2>5 DEF RunTasks, BeginTasks, RunPopulate, EndTasks, DrawFreed, view
    <3>2. Populate # AddContent(h)
      BY DEF Populate, AddContent
    <3>3. Queued(AddContent(h)) => Queued(AddContent(h))'
      BY <2>1, <2>5, <3>2, TailFacts
      DEF RunTasks, BeginTasks, RunPopulate, EndTasks, DrawFreed, Queued
    <3> QED BY <1>1, <2>2, <2>3, <3>1, <3>3 DEF OnItsWay
  <2> QED BY <2>4, <2>5
<1> QED BY <1>3, <1>4

\* The user keeps it: what is opened is filled before it is active.
LEMMA DeliveredUser ==
  ASSUME TypeOK, Opened, Holders, Delivered, User PROVE Delivered'
<1> USE DEF TypeOK, Delivered, GuiAt, GuiGoto
<1>1. at' = at /\ held' = held /\ tasks' = tasks
  BY UserFrame
<1>2. ASSUME NEW h, OnItsWay(h), missed' = missed, Elements(list) \subseteq Elements(list')
      PROVE  OnItsWay(h)'
  BY <1>1, <1>2 DEF OnItsWay, Queued
<1>3. ASSUME gui = "events", gui' \in {"events", "crashed"}, active' = active,
             missed' = missed, Elements(list) \subseteq Elements(list'),
             active # NoChan =>
               Elements(messages'[active]) \subseteq Elements(messages[active]) \cup Elements(list')
      PROVE  Delivered'
  <2>1. Filled'
    BY <1>3 DEF Filled
  <2>2. MessageShown'
    <3> SUFFICES ASSUME active # NoChan, NEW h \in Elements(messages'[active])
                 PROVE  OnItsWay(h)'
      BY <1>3 DEF MessageShown
    <3>1. CASE h \in Elements(list')
      BY <3>1 DEF OnItsWay
    <3>2. CASE h \in Elements(messages[active])
      <4>1. OnItsWay(h)
        BY <1>3, <3>2 DEF MessageShown
      <4> QED BY <1>2, <1>3, <4>1
    <3> QED BY <1>3, <3>1, <3>2
  <2> QED BY <2>1, <2>2
<1>4. ASSUME gui' \in {"fill", "join", "crashed"} PROVE Delivered'
  BY <1>4 DEF Filled, MessageShown
<1>5. ASSUME NEW c \in Client, OpenNetwork(c) PROVE Delivered'
  <2>1. \A ch \in Chan : Elements(messages'[ch]) \subseteq Elements(messages[ch])
    <3>1. Elements(<<>>) = {}
      BY DEF Elements
    <3> QED BY <1>5, <3>1 DEF OpenNetwork
  <2>2. active # NoChan => active \in Chan
    BY DEF ViewOK
  <2>3. gui = "events" /\ UNCHANGED <<gui, active, list, missed>>
    BY <1>5 DEF OpenNetwork, place, history
  <2> QED BY <1>3, <2>1, <2>2, <2>3
<1>6. ASSUME NEW c \in Client, SelectNetwork(c) PROVE Delivered'
  <2>1. gui = "events" /\ UNCHANGED <<gui, active, list, missed, messages>>
    BY <1>6 DEF SelectNetwork, place, store
  <2> QED BY <1>3, <2>1
<1>7. ASSUME NEW n \in Name, Query(n) PROVE Delivered'
  <2>1. gui = "events" /\ UNCHANGED <<gui, active, list, missed, messages>>
    BY <1>7 DEF Query, place, store, history
  <2> QED BY <1>3, <2>1
<1>8. ASSUME NEW ch \in Chan, SelectChannel(ch) \/ QuickSelect(ch) PROVE Delivered'
  <2>1. gui = "events" /\ active' = active /\ messages' = messages
    BY <1>8 DEF SelectChannel, QuickSelect, store
  <2>2. gui' \in {"fill", "crashed"} \/ UNCHANGED <<gui, list, missed>>
    BY <1>8 DEF SelectChannel, QuickSelect, LoadChannel, Crash
  <2> QED BY <1>3, <1>4, <2>1, <2>2
<1>9. CASE Fill
  <2>1. gui' = "set" /\ opening' = opening /\ list' = messages[opening] /\ messages' = messages
    BY <1>9 DEF Fill, store
  <2> QED BY <2>1 DEF Filled, MessageShown, OnItsWay
<1>10. CASE SetActive
  <2>1. /\ gui = "set" /\ gui' = "events" /\ active' = opening
        /\ UNCHANGED <<list, missed, messages>>
    BY <1>10 DEF SetActive, store
  <2>2. Filled'
    BY <2>1 DEF Filled
  <2>3. MessageShown'
    BY <1>2, <2>1 DEF Filled, MessageShown
  <2> QED BY <2>2, <2>3
<1>11. ASSUME NEW ch \in Chan, NewMessage, AddMessage(ch, NewHolder(ch)),
              list' = Append(list, NewHolder(ch)) \/ (list' = list /\ active # ch),
              gui = "events", UNCHANGED <<gui, active, missed>>
       PROVE  Delivered'
  <2>1. NewHolder(ch) \in Holder /\ list \in Seq(Holder) /\ messages[ch] \in Seq(Holder)
    BY <1>11, NewHolderIsNew DEF ViewOK, StoreOK
  <2>2. Elements(Append(list, NewHolder(ch))) = Elements(list) \cup {NewHolder(ch)}
    BY <2>1, ElementsAppend
  <2>3. /\ Elements(messages'[ch]) = Elements(messages[ch]) \cup {NewHolder(ch)}
        /\ \A d \in Chan \ {ch} : messages'[d] = messages[d]
    <3>1. Elements(Append(messages[ch], NewHolder(ch)))
            = Elements(messages[ch]) \cup {NewHolder(ch)}
      BY <2>1, ElementsAppend
    <3> QED BY <1>11, <3>1 DEF AddMessage, StoreOK
  <2>4. active # NoChan => active \in Chan
    BY DEF ViewOK
  <2>5. active # NoChan =>
          Elements(messages'[active]) \subseteq Elements(messages[active]) \cup Elements(list')
    BY <1>11, <2>2, <2>3, <2>4
  <2> QED BY <1>3, <1>11, <2>2, <2>5
<1>12. CASE Say
  <2>1. gui = "events" /\ UNCHANGED <<active, missed>>
    BY <1>12 DEF Say, history
  <2>2. CASE active \in Live /\ Lookup(active_network, chan[active].name) # {}
    <3>1. PICK ch \in Lookup(active_network, chan[active].name) :
            AddMessage(ch, NewHolder(ch)) /\ list' = Append(list, NewHolder(ch))
      BY <1>12, <2>2 DEF Say
    <3>2. ch \in Chan /\ NewMessage /\ gui' = gui
      BY <1>12, <2>2, <3>1 DEF Say, Lookup, ViewOK, WorldOK
    <3> QED BY <1>11, <2>1, <3>1, <3>2
  <2>3. CASE ~(active \in Live /\ Lookup(active_network, chan[active].name) # {})
    BY <1>4, <1>12, <2>3 DEF Say, Crash
  <2> QED BY <2>2, <2>3
<1>13. CASE Msg
  <2>1. PICK ch \in joined[active_network] :
          /\ AddMessage(ch, NewHolder(ch))
          /\ list' = IF active = ch THEN Append(list, NewHolder(ch)) ELSE list
    BY <1>13 DEF Msg
  <2>2. ch \in Chan /\ NewMessage /\ gui = "events" /\ UNCHANGED <<gui, active, missed>>
    BY <1>13, <2>1 DEF Msg, ViewOK, WorldOK, place, history
  <2> QED BY <1>11, <2>1, <2>2
<1>14. CASE Disconnect \/ DelServer
  BY <1>4, <1>14 DEF Disconnect, DelServer
<1>15. CASE Left
  <2>1. active = NoChan /\ active' = active /\ gui' = "events"
    BY <1>15 DEF Left, Opened
  <2> QED BY <2>1 DEF Filled, MessageShown
<1> QED BY <1>5, <1>6, <1>7, <1>8, <1>9, <1>10, <1>12, <1>13, <1>14, <1>15 DEF User

\* Every step keeps it.
LEMMA DeliveredStep ==
  ASSUME TypeOK, Working, Opened, Holders, Delivered, [Next]_vars PROVE Delivered'
<1>1. CASE UNCHANGED vars
  BY <1>1 DEF vars, thread, store, place, view, history, Delivered, Filled, MessageShown,
              OnItsWay, Queued
<1> QED BY <1>1, DeliveredThreads, DeliveredTasks, DeliveredUser DEF Next, Stopped
-----------------------------------------------------------------------------
LEMMA InitIInv == Init => IInv
<1> SUFFICES ASSUME Init PROVE IInv
  OBVIOUS
<1> USE ChannelsAssumption DEF Init
<1>1. TypeOK
  <2>1. <<>> \in Seq(Holder) /\ <<>> \in Seq(Task)
    OBVIOUS
  <2>2. WorldOK /\ ThreadOK
    BY DEF WorldOK, ThreadOK, ThreadPoints
  <2>3. StoreOK
    BY <2>1 DEF StoreOK
  <2>4. PlaceOK /\ ViewOK /\ HistoryOK
    BY <2>1 DEF PlaceOK, GuiPoints, ViewOK, HistoryOK
  <2> QED BY <2>1, <2>2, <2>3, <2>4 DEF TypeOK
<1>2. Nodes /\ Working /\ Opened /\ Displayed
  BY DEF Nodes, Working, WorksOn, Opened, Displayed
<1>3. Erasing /\ ActiveCovered /\ ItemsCurrent /\ TypedGoesToShown
  BY DEF Erasing, ActiveCovered, ItemsCurrent, TypedGoesToShown, ItemsOf, Live
<1>4. Owned /\ Deleted /\ Carried /\ Filled
  BY DEF Owned, Deleted, Carried, Filled, Elements, Carries, Unstored
<1>5. ListCovered /\ MessageShown
  BY DEF ListCovered, MessageShown
<1> QED BY <1>1, <1>2, <1>3, <1>4, <1>5 DEF IInv

LEMMA Invariance == Spec => []IInv
<1>1. IInv /\ [Next]_vars => IInv'
  <2> SUFFICES ASSUME IInv, [Next]_vars PROVE IInv'
    OBVIOUS
  <2>1. /\ TypeOK /\ Nodes /\ Working /\ Opened /\ Window /\ Covered /\ ItemsCurrent
        /\ Holders /\ ListCovered /\ Delivered
    BY DEF IInv, Window, Covered, Holders, Delivered
  <2>2. TypeOK' /\ Nodes' /\ Working' /\ Window' /\ Covered' /\ ItemsCurrent'
    BY <2>1, StepTypes, NodesStep, WorkingStep, WindowStep, CoveredStep, ItemsStep
  <2>3. Holders' /\ ListCovered' /\ Delivered'
    BY <2>1, HoldersStep, ListedStep, DeliveredStep
  <2> QED BY <2>2, <2>3 DEF IInv, Window, Covered, Holders, Delivered
<1> QED BY InitIInv, <1>1, PTL DEF Spec

\* For any networks, names and bounds: the types of what the threads share.
THEOREM TypeCorrect == Spec => []TypeOK
<1>1. IInv => TypeOK
  BY DEF IInv
<1> QED BY Invariance, <1>1, PTL

\* What is typed goes to the network of the channel that is shown, unless
\* another network was chosen since (irc_event_handler.cc:659-675).
THEOREM TypedLineReachesShownChannel == Spec => []TypedGoesToShown
<1>1. IInv => TypedGoesToShown
  BY DEF IInv
<1> QED BY Invariance, <1>1, PTL

\* An erased channel is shown only until a queued task clears the window,
\* unless it was opened while it was being erased (irc_event_handler.cc:442-448).
THEOREM ErasedChannelIsCleared == Spec => []ActiveCovered
<1>1. IInv => ActiveCovered
  BY DEF IInv
<1> QED BY Invariance, <1>1, PTL

\* The list on the left is that of the network on display, or is about to be
\* filled afresh (irc_event_handler.cc:448-450, 496-499).
THEOREM ListIsMended == Spec => []ItemsCurrent
<1>1. IInv => ItemsCurrent
  BY DEF IInv
<1> QED BY Invariance, <1>1, PTL

\* A message that was deleted with its channel stays in the list only until a
\* task that is posted, or about to be, empties it: a reader of the list while
\* that channel is shown has the deletion announced (irc_event_handler.cc:444-447).
THEOREM DeletedMessagesAreCleared == Spec => []ListCovered
<1>1. IInv => ListCovered
  BY DEF IInv
<1> QED BY Invariance, <1>1, PTL

\* Every message of the channel that is shown is in the list or on its way,
\* whatever the threads and the user do in between, but for those whose test
\* came while the channel was being opened or another network was on display
\* (irc_event_handler.cc:404-410, 765-772).
THEOREM MessagesReachTheWindow == Spec => []MessageShown
<1>1. IInv => MessageShown
  BY DEF IInv
<1> QED BY Invariance, <1>1, PTL
=============================================================================
