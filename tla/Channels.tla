------------------------------ MODULE Channels ------------------------------
(***************************************************************************)
(* IrcEventHandler (src/src/irc/irc_event_handler.cc): the channels of the *)
(* networks, their messages, and what the window shows of them.  One       *)
(* connection thread per network runs processMessage; the GUI thread opens *)
(* networks and channels, sends what is typed, disconnects and deletes.    *)
(* Threads change the view only through runLater, whose queue is the one   *)
(* of TaskQueue; a post waits while the GUI thread runs the queue.  One    *)
(* step is one access to what another thread reads or writes.              *)
(* A channel is the node of joinedChannels it lives in: nodes are not      *)
(* reused.  What a cache file held when a channel is first looked at is    *)
(* left out, and so are the raw buffer and the topic and user lists.       *)
(***************************************************************************)
EXTENDS Naturals, Sequences

CONSTANTS Client,        \* the networks of the configuration
          Name,          \* names of channels and of users who write
          Status,        \* the name a network is listed by (given_name)
          None,          \* a null pointer
          MaxChannels,   \* bound: channels made in a run
          MaxMessages    \* bound: messages in a run

ASSUME ChannelsAssumption ==
  /\ Status \in Name
  /\ None \notin Client \cup [client : Client, name : Name]
  /\ MaxChannels \in Nat /\ MaxMessages \in Nat

Chan == 1 .. MaxChannels
Holder == Chan \X (1 .. MaxMessages)    \* a MessageHolder, by its channel
NoChan == 0
NoHolder == <<NoChan, 0>>

VARIABLES conn,            \* per network: not connected, connected, deleted
          joined,          \* IrcClient::joinedChannels
          chan,            \* client and name of a channel
          made,            \* how many channels were made
          messages,        \* MessageState::state, by channel
          freed,           \* holders deleted by remove_channel
          sent,            \* how many messages there were
          at,              \* where a connection thread is in processMessage
          work,            \* the channel it works on
          held,            \* the message it works on
          then,            \* where addChannel returns to
          tasks,           \* handed to the GUI thread and not yet run
          gui,             \* where the GUI thread is
          opening,         \* the channel activateChannel is called with
          leaving,         \* the network disconnect() waits for
          active_network,  \* IrcEventHandler::active_network
          active,          \* IrcEventHandler::active_channel_ptr
          items,           \* IrcEventHandler::channel_items, the pointers
          list,            \* GuiComponents::message_list
          late,            \* history: activated while it was being removed
          browsed,         \* history: another network was chosen meanwhile
          missed           \* history: messages whose test came too early

world == <<conn, joined, chan, made>>
store == <<messages, freed, sent>>
thread == <<at, work, held, then>>
place == <<gui, opening, leaving>>
view == <<active_network, active, items, list>>
history == <<late, browsed, missed>>
vars == <<world, store, thread, tasks, place, view, history>>

ThreadPoints == {"read", "added", "announce", "store", "stored", "show",
                 "removed", "clear", "erase", "erased"}
GuiPoints == {"events", "tasks", "fill", "set", "join", "crashed"}

AddContent(h) == <<"add", h>>
Populate == <<"populate", NoHolder>>
Deactivate == <<"deactivate", NoHolder>>
Task == {AddContent(h) : h \in Holder} \cup {Populate, Deactivate}

WorldOK ==
  /\ conn \in [Client -> {"idle", "up", "gone"}]
  /\ joined \in [Client -> SUBSET Chan]
  /\ chan \in [Chan -> [client : Client, name : Name] \cup {None}]
  /\ made \in 0 .. MaxChannels

StoreOK ==
  /\ messages \in [Chan -> Seq(Holder)]
  /\ freed \subseteq Holder
  /\ sent \in 0 .. MaxMessages

ThreadOK ==
  /\ at \in [Client -> ThreadPoints]
  /\ work \in [Client -> Chan \cup {NoChan}]
  /\ held \in [Client -> Holder \cup {NoHolder}]
  /\ then \in [Client -> {"read", "store"}]

PlaceOK ==
  /\ gui \in GuiPoints
  /\ opening \in Chan \cup {NoChan}
  /\ leaving \in Client \cup {None}

ViewOK ==
  /\ active_network \in Client \cup {None}
  /\ active \in Chan \cup {NoChan}
  /\ items \subseteq Chan
  /\ list \in Seq(Holder)

HistoryOK == late \in BOOLEAN /\ browsed \in BOOLEAN /\ missed \subseteq Holder

TypeOK == /\ WorldOK /\ StoreOK /\ ThreadOK
          /\ tasks \in Seq(Task)
          /\ PlaceOK /\ ViewOK /\ HistoryOK

Init ==
  /\ conn = [c \in Client |-> "idle"]
  /\ joined = [c \in Client |-> {}]
  /\ chan = [ch \in Chan |-> None] /\ made = 0
  /\ messages = [ch \in Chan |-> <<>>] /\ freed = {} /\ sent = 0
  /\ at = [c \in Client |-> "read"]
  /\ work = [c \in Client |-> NoChan]
  /\ held = [c \in Client |-> NoHolder]
  /\ then = [c \in Client |-> "read"]
  /\ tasks = <<>>
  /\ gui = "events" /\ opening = NoChan /\ leaving = None
  /\ active_network = None /\ active = NoChan /\ items = {} /\ list = <<>>
  /\ late = FALSE /\ browsed = FALSE /\ missed = {}
-----------------------------------------------------------------------------
Elements(s) == {s[i] : i \in DOMAIN s}
Live == UNION {joined[c] : c \in Client}
Alive == gui # "crashed"

\* The channel of a network with a name, as a set of at most one.
Lookup(c, n) == {ch \in joined[c] : chan[ch].name = n}

\* What populateChannels shows of a network.
ItemsOf(c) == IF c = None THEN {} ELSE joined[c]

\* addChannel under a name that is not taken, up to its runLater.
AddChannel(c, n) ==
  /\ made < MaxChannels
  /\ made' = made + 1
  /\ chan' = [chan EXCEPT ![made'] = [client |-> c, name |-> n]]
  /\ joined' = [joined EXCEPT ![c] = @ \cup {made'}]

\* The next message, of the server or of the user.
NewMessage == sent < MaxMessages /\ sent' = sent + 1
NewHolder(ch) == <<ch, sent + 1>>

\* add_message: a holder at the end of the channel's messages.
AddMessage(ch, h) == messages' = [messages EXCEPT ![ch] = Append(@, h)]
-----------------------------------------------------------------------------
(* The connection threads                                                  *)

At(c, point) == Alive /\ conn[c] = "up" /\ at[c] = point
Goto(c, point) == at' = [at EXCEPT ![c] = point]

\* processMessage returns, or what it created leads on to a message.
Return(c, point) ==
  /\ Goto(c, point)
  /\ then' = [then EXCEPT ![c] = "read"]
  /\ work' = IF point = "read" THEN [work EXCEPT ![c] = NoChan] ELSE work
  /\ held' = IF point = "read" THEN [held EXCEPT ![c] = NoHolder] ELSE held

\* runLater waits for the mutex while render runs the queue.
Post(task) == gui # "tasks" /\ tasks' = Append(tasks, task)

\* The user has joined a channel that is not known.
OwnJoin(c) ==
  /\ At(c, "read")
  /\ \E n \in Name \ {Status} : Lookup(c, n) = {} /\ AddChannel(c, n)
  /\ work' = [work EXCEPT ![c] = made']
  /\ then' = [then EXCEPT ![c] = "read"]
  /\ Goto(c, "added")
  /\ UNCHANGED <<conn, store, held, tasks, place, view, history>>

\* A message to the user: the channel is named after its sender.
FirstMessage(c) ==
  /\ At(c, "read")
  /\ \E n \in Name : Lookup(c, n) = {} /\ AddChannel(c, n)
  /\ work' = [work EXCEPT ![c] = made']
  /\ then' = [then EXCEPT ![c] = "store"]
  /\ NewMessage
  /\ held' = [held EXCEPT ![c] = NewHolder(made')]
  /\ Goto(c, "added")
  /\ UNCHANGED <<conn, messages, freed, tasks, place, view, history>>

\* Mutant: the holder is not allocated.
MessageUnallocated(c) ==
  /\ At(c, "read")
  /\ NewMessage
  /\ \E ch \in joined[c] : work' = [work EXCEPT ![c] = ch]
  /\ Goto(c, "store")
  /\ UNCHANGED <<world, messages, freed, held, then, tasks, place, view, history>>

\* A message in a channel that is known.
Message(c) ==
  /\ At(c, "read")
  /\ NewMessage
  /\ \E ch \in joined[c] : /\ work' = [work EXCEPT ![c] = ch]
                           /\ held' = [held EXCEPT ![c] = NewHolder(ch)]
  /\ Goto(c, "store")
  /\ UNCHANGED <<world, messages, freed, then, tasks, place, view, history>>

\* Mutant: a new channel is not announced.
TestNetworkNever(c) ==
  /\ At(c, "added")
  /\ Return(c, then[c])
  /\ UNCHANGED <<world, store, tasks, place, view, history>>

TestNetwork(c) ==
  /\ At(c, "added")
  /\ IF active_network = c
     THEN Goto(c, "announce") /\ UNCHANGED <<work, held, then>>
     ELSE Return(c, then[c])
  /\ UNCHANGED <<world, store, tasks, place, view, history>>

PostAdded(c) ==
  /\ At(c, "announce")
  /\ Post(Populate)
  /\ Return(c, then[c])
  /\ UNCHANGED <<world, store, place, view, history>>

StoreMessage(c) ==
  /\ At(c, "store")
  /\ AddMessage(work[c], held[c])
  /\ Goto(c, "stored")
  /\ UNCHANGED <<world, freed, sent, work, held, then, tasks, place, view, history>>

Shown(c) == active_network = c /\ active = work[c]

\* "missed" notes a test that fails for a channel that is shown under another
\* active_network, or that the GUI thread is about to show.
TestShown(c) ==
  /\ At(c, "stored")
  /\ IF Shown(c)
     THEN Goto(c, "show") /\ UNCHANGED <<work, held, then>>
     ELSE Return(c, "read")
  /\ missed' = IF ~Shown(c) /\ (active = work[c] \/ opening = work[c])
               THEN missed \cup {held[c]} ELSE missed
  /\ UNCHANGED <<world, store, tasks, place, view, late, browsed>>

PostMessage(c) ==
  /\ At(c, "show")
  /\ Post(AddContent(held[c]))
  /\ Return(c, "read")
  /\ UNCHANGED <<world, store, place, view, history>>

\* The user has left a channel: persistChannel and remove_channel.
OwnPart(c) ==
  /\ At(c, "read")
  /\ \E ch \in joined[c] \ Lookup(c, Status) :
       /\ work' = [work EXCEPT ![c] = ch]
       /\ messages' = [messages EXCEPT ![ch] = <<>>]
       /\ freed' = freed \cup Elements(messages[ch])
  /\ Goto(c, "removed")
  /\ UNCHANGED <<world, sent, held, then, tasks, place, view, history>>

\* Mutant: the view is left as it is.
TestActiveNever(c) ==
  /\ At(c, "removed")
  /\ Goto(c, "erase")
  /\ UNCHANGED <<world, store, work, held, then, tasks, place, view, history>>

TestActive(c) ==
  /\ At(c, "removed")
  /\ Goto(c, IF active = work[c] THEN "clear" ELSE "erase")
  /\ UNCHANGED <<world, store, work, held, then, tasks, place, view, history>>

PostCleared(c) ==
  /\ At(c, "clear")
  /\ Post(Deactivate)
  /\ Goto(c, "erase")
  /\ UNCHANGED <<world, store, work, held, then, place, view, history>>

Erase(c) ==
  /\ At(c, "erase")
  /\ joined' = [joined EXCEPT ![c] = @ \ {work[c]}]
  /\ Goto(c, "erased")
  /\ UNCHANGED <<conn, chan, made, store, work, held, then, tasks, place, view, history>>

PostErased(c) ==
  /\ At(c, "erased")
  /\ Post(Populate)
  /\ Return(c, "read")
  /\ UNCHANGED <<world, store, place, view, history>>

ProcessMessage(c) ==
  \/ OwnJoin(c) \/ FirstMessage(c) \/ Message(c) \/ TestNetwork(c)
  \/ PostAdded(c) \/ StoreMessage(c) \/ TestShown(c) \/ PostMessage(c)
  \/ OwnPart(c) \/ TestActive(c) \/ PostCleared(c) \/ Erase(c) \/ PostErased(c)
-----------------------------------------------------------------------------
(* The GUI thread: tasks                                                   *)

GuiAt(point) == gui = point
GuiGoto(point) == gui' = point
Crash == GuiGoto("crashed")

BeginTasks ==
  /\ GuiAt("events")
  /\ tasks # <<>>
  /\ GuiGoto("tasks")
  /\ UNCHANGED <<world, store, thread, tasks, opening, leaving, view, history>>

\* RenderMessage reads the holder at once.
RunAddContent ==
  /\ GuiAt("tasks")
  /\ \E h \in Holder :
       /\ tasks # <<>> /\ Head(tasks) = AddContent(h)
       /\ list' = Append(list, h)
       /\ IF h \in freed THEN Crash ELSE UNCHANGED gui
  /\ tasks' = Tail(tasks)
  /\ UNCHANGED <<world, store, thread, opening, leaving, active_network, active,
                 items, history>>

RunPopulate ==
  /\ GuiAt("tasks")
  /\ tasks # <<>> /\ Head(tasks) = Populate
  /\ tasks' = Tail(tasks)
  /\ items' = ItemsOf(active_network)
  /\ UNCHANGED <<world, store, thread, place, active_network, active, list, history>>

\* activateChannel(nullptr)
NothingActive ==
  /\ active' = NoChan /\ list' = <<>>
  /\ late' = FALSE /\ browsed' = FALSE /\ missed' = {}

RunDeactivate ==
  /\ GuiAt("tasks")
  /\ tasks # <<>> /\ Head(tasks) = Deactivate
  /\ tasks' = Tail(tasks)
  /\ NothingActive
  /\ UNCHANGED <<world, store, thread, place, active_network, items>>

EndTasks ==
  /\ GuiAt("tasks")
  /\ tasks = <<>>
  /\ GuiGoto("events")
  /\ UNCHANGED <<world, store, thread, tasks, opening, leaving, view, history>>

\* A frame reads every message of the list; this one reads a deleted one.
DrawFreed ==
  /\ GuiAt("events")
  /\ Elements(list) \cap freed # {}
  /\ Crash
  /\ UNCHANGED <<world, store, thread, tasks, opening, leaving, view, history>>

RunTasks ==
  \/ BeginTasks \/ RunAddContent \/ RunPopulate \/ RunDeactivate \/ EndTasks
  \/ DrawFreed
-----------------------------------------------------------------------------
(* The GUI thread: the user                                                *)

\* itemSelected on an idle network.  Under a name that is taken the channel
\* starts afresh, with another id, in the same node.
OpenNetwork(c) ==
  /\ GuiAt("events")
  /\ conn[c] = "idle"
  /\ conn' = [conn EXCEPT ![c] = "up"]
  /\ IF Lookup(c, Status) = {}
     THEN AddChannel(c, Status) /\ UNCHANGED messages
     ELSE /\ messages' = [ch \in Chan |->
                            IF ch \in Lookup(c, Status) THEN <<>> ELSE messages[ch]]
          /\ UNCHANGED <<joined, chan, made>>
  /\ items' = IF active_network = c THEN joined'[c] ELSE items
  /\ UNCHANGED <<freed, sent, thread, tasks, place, active_network, active, list, history>>

\* itemSelected on any other network.
SelectNetwork(c) ==
  /\ GuiAt("events")
  /\ conn[c] = "up"
  /\ active_network' = c
  /\ items' = joined[c]
  /\ browsed' = (active # NoChan /\ chan[active].client # c)
  /\ UNCHANGED <<world, store, thread, tasks, place, active, list, late, missed>>

\* Mutant: a channel of the quick search leaves the network as it is.
LoadChannelOnly(ch) ==
  /\ opening' = ch
  /\ list' = <<>>
  /\ GuiGoto("fill")
  /\ missed' = {}
  /\ UNCHANGED <<active_network, items>>

\* loadChannel, up to the first half of activateChannel: clearList.
LoadChannel(ch) ==
  LET client == chan[ch].client IN
  IF active_network = client /\ active = ch
  THEN UNCHANGED <<opening, list, gui, missed, active_network, items>>
  ELSE /\ active_network' = client
       /\ items' = IF active_network = client THEN items ELSE joined[client]
       /\ opening' = ch
       /\ list' = <<>>
       /\ GuiGoto("fill")
       /\ missed' = {}

\* itemSelected on a channel: the item may point to an erased channel.
SelectChannel(ch) ==
  /\ GuiAt("events")
  /\ ch \in items
  /\ IF ch \in Live
     THEN LoadChannel(ch)
     ELSE Crash /\ UNCHANGED <<opening, list, missed, active_network, items>>
  /\ UNCHANGED <<world, store, thread, tasks, leaving, active, late, browsed>>

\* A channel of the quick search, which lists those of every network.
QuickSelect(ch) ==
  /\ GuiAt("events")
  /\ ch \in Live
  /\ LoadChannel(ch)
  /\ UNCHANGED <<world, store, thread, tasks, leaving, active, late, browsed>>

\* Mutant: the list is cleared after it was filled.
FillThenClear ==
  /\ GuiAt("fill")
  /\ list' = <<>>
  /\ GuiGoto("set")
  /\ UNCHANGED <<world, store, thread, tasks, opening, leaving, active_network, active,
                 items, history>>

Fill ==
  /\ GuiAt("fill")
  /\ list' = messages[opening]
  /\ GuiGoto("set")
  /\ UNCHANGED <<world, store, thread, tasks, opening, leaving, active_network, active,
                 items, history>>

\* The thread that removes the channel no longer looks at active_channel_ptr.
PastTest(ch) ==
  ch \notin Live \/ \E c \in Client : work[c] = ch /\ at[c] = "erase"

SetActive ==
  /\ GuiAt("set")
  /\ active' = opening
  /\ opening' = NoChan
  /\ late' = PastTest(opening)
  /\ browsed' = FALSE
  /\ GuiGoto("events")
  /\ UNCHANGED <<world, store, thread, tasks, leaving, active_network, items, list, missed>>

\* /query: the new channel is shown at once, runLater does not wait.
Query(n) ==
  /\ GuiAt("events")
  /\ active_network # None
  /\ Lookup(active_network, n) = {}
  /\ AddChannel(active_network, n)
  /\ items' = joined'[active_network]
  /\ UNCHANGED <<conn, store, thread, tasks, place, active_network, active, list, history>>

\* A line typed for the channel that is shown is stored under its name in
\* active_network.  Without such a channel operator[] makes one that has no
\* client, and add_message dereferences it.
Say ==
  /\ GuiAt("events")
  /\ active_network # None
  /\ active # NoChan
  /\ IF active \in Live /\ Lookup(active_network, chan[active].name) # {}
     THEN /\ \E ch \in Lookup(active_network, chan[active].name) :
               AddMessage(ch, NewHolder(ch)) /\ list' = Append(list, NewHolder(ch))
          /\ NewMessage
          /\ UNCHANGED gui
     ELSE Crash /\ UNCHANGED <<messages, sent, list>>
  /\ UNCHANGED <<world, freed, thread, tasks, opening, leaving, active_network, active, items,
                 history>>

\* /msg to a channel that exists; to another one it is Query and then this.
Msg ==
  /\ GuiAt("events")
  /\ active_network # None
  /\ \E ch \in joined[active_network] :
       /\ AddMessage(ch, NewHolder(ch))
       /\ list' = IF active = ch THEN Append(list, NewHolder(ch)) ELSE list
  /\ NewMessage
  /\ UNCHANGED <<world, freed, thread, tasks, place, active_network, active, items,
                 history>>

\* disconnect(): the GUI thread then waits for the connection thread.
Disconnect ==
  /\ GuiAt("events")
  /\ active_network # None
  /\ conn[active_network] = "up"     \* otherwise see IrcConnection, WriteQuit
  /\ NothingActive
  /\ leaving' = active_network
  /\ GuiGoto("join")
  /\ UNCHANGED <<world, store, thread, tasks, opening, active_network, items>>

\* Mutant: the channel of the deleted network stays active.
DelServerKeepsChannel ==
  /\ GuiAt("events")
  /\ active_network # None
  /\ leaving' = active_network
  /\ active_network' = None
  /\ GuiGoto("join")
  /\ UNCHANGED <<world, store, thread, tasks, opening, active, items, list, history>>

\* removeNetwork on the active network.
DelServer ==
  /\ GuiAt("events")
  /\ active_network # None
  /\ NothingActive
  /\ leaving' = active_network
  /\ active_network' = None
  /\ GuiGoto("join")
  /\ UNCHANGED <<world, store, thread, tasks, opening, items>>

\* join(), reset() and populateChannels; /delserver then deletes the client.
Left ==
  /\ GuiAt("join")
  /\ at[leaving] = "read"
  /\ joined' = [joined EXCEPT ![leaving] = {}]
  /\ conn' = [conn EXCEPT ![leaving] = IF active_network = None THEN "gone" ELSE "idle"]
  /\ items' = {}
  /\ leaving' = None
  /\ GuiGoto("events")
  /\ UNCHANGED <<chan, made, store, thread, tasks, opening, active_network, active, list,
                 history>>

User ==
  \/ \E c \in Client : OpenNetwork(c) \/ SelectNetwork(c)
  \/ \E ch \in Chan : SelectChannel(ch) \/ QuickSelect(ch)
  \/ Fill \/ SetActive
  \/ \E n \in Name : Query(n)
  \/ Say \/ Msg \/ Disconnect \/ DelServer \/ Left

\* The program has crashed, or waits for a user who has no network left or
\* would exceed the bound.
Stopped ==
  /\ \/ ~Alive
     \/ GuiAt("events") /\ (made = MaxChannels \/ \A c \in Client : conn[c] = "gone")
  /\ UNCHANGED vars

Next == (\E c \in Client : ProcessMessage(c)) \/ RunTasks \/ User \/ Stopped

Spec == Init /\ [][Next]_vars
-----------------------------------------------------------------------------
(* Properties                                                              *)

Queued(task) == \E i \in DOMAIN tasks : tasks[i] = task

\* irc_event_handler.cc:448-450, 496-499: a channel is in the list on the left
\* exactly when the network on display has it, or a populate is on its way;
\* so no pointer to an erased channel stays there.
ItemsCurrent ==
  \A ch \in Chan :
    /\ Alive /\ gui # "join"
    /\ ~(ch \in items <=> ch \in ItemsOf(active_network))
    => \/ Queued(Populate)
       \/ \E c \in Client : work[c] = ch /\ at[c] \in {"added", "announce", "erased"}

\* irc_event_handler.cc:442-448: active_channel_ptr points to an erased channel
\* only until a queued task clears it, unless the user opened that channel
\* between the test of the thread and the erase.
ActiveCovered ==
  Alive /\ active \notin Live \cup {NoChan} /\ ~late => Queued(Deactivate)

\* irc_event_handler.cc:444-447: neither does the window keep a deleted message
\* of the channel it shows.
ListCovered ==
  \A h \in Elements(list) \cap freed :
    (Alive /\ h[1] = active /\ ~late) =>
      \/ Queued(Deactivate)
      \/ \E c \in Client : work[c] = active /\ at[c] \in {"removed", "clear"}

OnItsWay(h) ==
  \/ h \in Elements(list) \cup missed
  \/ Queued(AddContent(h))
  \/ \E c \in Client : held[c] = h /\ at[c] \in {"stored", "show"}

\* irc_event_handler.cc:404-410 against 765-772: a message of the channel that
\* is shown is in the window or on its way there, unless its test came while
\* the channel was being opened or another network was on display.
MessageShown ==
  active # NoChan /\ gui \in {"events", "tasks"} =>
    \A h \in Elements(messages[active]) : OnItsWay(h)

\* irc_event_handler.cc:659-675: what is typed goes to the network of the
\* channel that is shown, unless the user chose another network since.
TypedGoesToShown ==
  active # NoChan /\ ~browsed /\ gui \in {"events", "tasks"} =>
    active_network = chan[active].client
-----------------------------------------------------------------------------
(* The inductive invariant that the proved properties rest on               *)

\* A node is a channel of the network it was made for, and of no other.
Nodes ==
  /\ \A ch \in Chan : ch > made => chan[ch] = None
  /\ \A c \in Client : \A ch \in joined[c] : chan[ch] # None /\ chan[ch].client = c

\* A connection thread works on a channel of its network and, where it is
\* about to store or show one, on a message.
WorksOn(c) ==
  /\ at[c] # "read" =>
       work[c] # NoChan /\ chan[work[c]] # None /\ chan[work[c]].client = c
  /\ \/ at[c] \in {"store", "stored", "show"}
     \/ at[c] \in {"added", "announce"} /\ then[c] = "store"
     => held[c] # NoHolder

Working == \A c \in Client : WorksOn(c)

\* Where the GUI thread is tells what the window refers to.
Opened ==
  /\ active # NoChan => chan[active] # None
  /\ gui \in {"fill", "set"} =>
       opening # NoChan /\ chan[opening] # None /\ active_network = chan[opening].client
  /\ gui = "join" =>
       active = NoChan /\ leaving # None /\ active_network \in {leaving, None}

\* The list on the left names channels of the network on display only.
Displayed ==
  Alive /\ gui # "join" =>
    \A ch \in items : chan[ch] # None /\ chan[ch].client = active_network

\* A channel about to be erased is shown only with a task to clear it.
Erasing ==
  \A c \in Client :
    Alive /\ active # NoChan /\ ~late /\ at[c] = "erase" /\ work[c] = active
      => Queued(Deactivate)

\* A message that a connection thread has not yet added, or handed on.
Unstored(c) ==
  at[c] = "store" \/ (at[c] \in {"added", "announce"} /\ then[c] = "store")
Carries(c) == at[c] \in {"stored", "show"} \/ Unstored(c)

Removing(ch) == \E c \in Client : work[c] = ch /\ at[c] \in {"removed", "clear", "erase"}

\* A message is kept by its own channel, and none that was deleted.
Owned == \A ch \in Chan : \A h \in Elements(messages[ch]) :
  h[1] = ch /\ h[2] <= sent /\ h \notin freed

\* Messages are deleted with their channel.
Deleted == \A h \in freed :
  h[2] <= sent /\ chan[h[1]] # None /\ (h[1] \in Live => Removing(h[1]))

\* No other thread and no channel has a message before it is stored.
Carried == \A c \in Client :
  /\ Carries(c) => held[c][1] = work[c] /\ held[c][2] <= sent
  /\ Unstored(c) => held[c] \notin freed \cup Elements(messages[work[c]])

\* The list was filled, and active_channel_ptr is not yet set.
Filled == gui = "set" => \A h \in Elements(messages[opening]) : OnItsWay(h)

IInv ==
  /\ TypeOK /\ Nodes /\ Working /\ Opened /\ Displayed /\ Erasing
  /\ ItemsCurrent /\ ActiveCovered /\ TypedGoesToShown
  /\ Owned /\ Deleted /\ Carried /\ Filled /\ ListCovered /\ MessageShown
=============================================================================
