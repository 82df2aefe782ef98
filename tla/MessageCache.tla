---------------------------- MODULE MessageCache ----------------------------
(***************************************************************************)
(* MessageState (src/src/irc/message_state.cc) with the cache files of     *)
(* utils/config.cc: the messages of the channels of one network, the flag  *)
(* that says there is something to save, and one file per channel from     *)
(* which the next start of the program reads them again.  The connection   *)
(* thread and the GUI thread work on the same map without a lock; a step   *)
(* is one access to what the other thread reads or writes.                 *)
(* A file is truncated when it is opened and filled when it is closed: a   *)
(* crash in between leaves it torn, and a torn file ends the program that  *)
(* reads it, since nobody catches what json::parse throws.                 *)
(* An erased channel or a removed state that is still used ends the run    *)
(* (undefined).  Left out: the raw buffer, which has no file of its own.   *)
(***************************************************************************)
EXTENDS Integers, Sequences

CONSTANTS Names,         \* names a channel can have: 1 .. Names, map order
          FileNames,     \* the ways names can be mapped to files
          CacheSize,     \* DecConfig::getCacheSize
          None,          \* no entry in a map
          Absent, Torn,  \* a file that is not there, one that does not parse
          MaxIds,        \* bound: channel ids of a run of the program
          MaxMessages,   \* bound: messages over all runs
          MaxStarts      \* bound: how often the program is started

Thread == {"conn", "gui"}
Name == 1 .. Names
NoName == 0
Id == 0 .. MaxIds - 1
NoFile == 0                        \* a name no file can have (a '/' in it)

ASSUME MessageCacheAssumption ==
  /\ Names \in Nat /\ CacheSize \in Nat
  /\ FileNames \subseteq [Name -> 0 .. Names]
  /\ MaxIds \in Nat \ {0} /\ MaxMessages \in Nat /\ MaxStarts \in Nat
  /\ None \notin Id

VARIABLES run,        \* the program: up, down, undefined
          starts,     \* how often it was started
          fileOf,     \* the file of a name, by the first name that has it
          file,       \* what is on disk
          focused,    \* AppState::focused
          joined,     \* joinedChannels: the id of the channel of a name
          count,      \* global_channel_count
          state,      \* MessageState::state, by channel id
          sent,       \* how many messages there were
          at,         \* where each thread is and what it works on
          stale,      \* threads whose open file was written by the other one
          slipped,    \* history: ids whose flag missed a message
          disturbed   \* history: ids given twice, or read in or
                      \* saved by both threads at once

disk == <<fileOf, file>>
model == <<joined, count, state>>
history == <<slipped, disturbed>>
vars == <<run, starts, disk, focused, model, sent, at, stale, history>>

Message == [by : Thread, number : 1 .. MaxMessages]
ChannelState == [messages : Seq(Message), received : BOOLEAN]

ASSUME ValueAssumption ==
  Absent \notin Seq(Message) /\ Torn \notin Seq(Message) /\ None \notin ChannelState

\* The newest messages, as many as the cache keeps.
Cached(s) == IF Len(s) <= CacheSize THEN s
             ELSE SubSeq(s, Len(s) - CacheSize + 1, Len(s))

Points == {"idle", "register", "get", "load", "insert", "mark",
           "push", "test", "save", "open", "write", "reset", "remove",
           "erase", "advance", "close"}
Job == {"none", "open", "add", "part", "focus", "exit"}

\* The locals of a thread: the channel it works on by name and id, the
\* message it adds, and what it read from a file or is about to write.
Place == [pc : Points, job : Job, name : 0 .. Names, id : Id,
          msg : Message \cup {None}, buffer : Seq(Message)]
AtRest == [pc |-> "idle", job |-> "none", name |-> NoName, id |-> 0,
           msg |-> None, buffer |-> <<>>]

DiskOK ==
  /\ fileOf \in [Name -> 0 .. Names]
  /\ file \in [Name -> Seq(Message) \cup {Absent, Torn}]
ModelOK ==
  /\ joined \in [Name -> Id \cup {None}] /\ count \in 0 .. MaxIds
  /\ state \in [Id -> ChannelState \cup {None}]
TypeOK ==
  /\ run \in {"up", "down", "undefined"} /\ starts \in Nat
  /\ focused \in BOOLEAN /\ sent \in 0 .. MaxMessages
  /\ DiskOK /\ ModelOK
  /\ at \in [Thread -> Place]
  /\ stale \subseteq Thread /\ slipped \subseteq Id /\ disturbed \subseteq Id

Init ==
  /\ run = "up" /\ starts = 1
  /\ fileOf \in FileNames
  /\ file = [n \in Name |-> Absent]
  /\ focused = TRUE
  /\ joined = [n \in Name |-> None] /\ count = 0
  /\ state = [i \in Id |-> None]
  /\ sent = 0
  /\ at = [t \in Thread |-> AtRest]
  /\ stale = {} /\ slipped = {} /\ disturbed = {}

-----------------------------------------------------------------------------
\* The steps of a thread.

At(t, p) == run = "up" /\ at[t].pc = p
\* What a thread still needs of its locals at its next point.
Moved(place, p) ==
  IF p \in {"idle", "close"} THEN [AtRest EXCEPT !.pc = p]
  ELSE [place EXCEPT !.pc = p,
          !.msg = IF p \in {"load", "mark", "push"} THEN @ ELSE None,
          !.buffer = IF p \in {"write", "reset"} THEN @ ELSE <<>>]
GoTo(t, p) == at' = [at EXCEPT ![t] = Moved(@, p)]
CurrentFile(t) == fileOf[at[t].name]
HasFile(t) == CurrentFile(t) # NoFile

\* The channel a thread was given is still the one of that name.
ChannelThere(t) == joined[at[t].name] = at[t].id
StateThere(t) == state[at[t].id] # None

UsesChannel(p) == p \in {"get", "load", "insert", "save", "open", "remove"}
UsesState(p) == p \in {"mark", "push", "reset"}

\* What is left when the program ends: the files.
Ends(how) ==
  /\ run' = how
  /\ focused' = TRUE
  /\ joined' = [n \in Name |-> None] /\ count' = 0
  /\ state' = [i \in Id |-> None]
  /\ at' = [t \in Thread |-> AtRest]
  /\ stale' = {} /\ slipped' = {} /\ disturbed' = {}
  /\ UNCHANGED <<starts, disk, sent>>

\* A use of an erased channel or of a removed state: anything may follow.
Dangling(t) ==
  /\ run = "up"
  /\ \/ UsesChannel(at[t].pc) /\ ~ChannelThere(t)
     \/ UsesState(at[t].pc) /\ ~StateThere(t)
     \/ at[t].pc = "advance" /\ at[t].name # NoName /\ ~ChannelThere(t)
  /\ Ends("undefined")

\* addChannel: the counter is read, then written back and the channel
\* registered, over one of that name if there is one by now.
AddChannel(t, n) ==
  /\ At(t, "idle")
  /\ joined[n] = None
  /\ t = "gui" => focused
  /\ count < MaxIds
  /\ at' = [at EXCEPT ![t].pc = "register", ![t].name = n, ![t].id = count]
  /\ UNCHANGED <<run, starts, disk, focused, model, sent, stale, history>>

Register(t) ==
  /\ At(t, "register")
  /\ count' = at[t].id + 1
  /\ joined' = [joined EXCEPT ![at[t].name] = at[t].id]
  /\ disturbed' = IF count = at[t].id THEN disturbed ELSE Id
  /\ GoTo(t, "idle")
  /\ UNCHANGED <<run, starts, disk, focused, state, sent, stale, slipped>>

\* get: the entry that is there, or a new one with what the file holds.
Begin(t, n, p, j, m) ==
  /\ At(t, "idle")
  /\ joined[n] # None
  /\ at' = [at EXCEPT ![t] = [pc |-> p, job |-> j, name |-> n,
                              id |-> joined[n], msg |-> m, buffer |-> <<>>]]
  /\ UNCHANGED <<run, starts, disk, focused, model, stale, history>>

AddMessage(t, n) ==
  /\ sent < MaxMessages
  /\ t = "gui" => focused
  /\ Begin(t, n, "get", "add", [by |-> t, number |-> sent + 1])
  /\ sent' = sent + 1

OpenChannel(n) ==
  /\ focused
  /\ Begin("gui", n, "get", "open", None)
  /\ sent' = sent

Got(t) == IF at[t].job = "add" THEN "mark" ELSE "idle"

Get(t) ==
  /\ At(t, "get") /\ ChannelThere(t)
  /\ GoTo(t, IF StateThere(t) THEN Got(t) ELSE "load")
  /\ UNCHANGED <<run, starts, disk, focused, model, sent, stale, history>>

ReadsTornFile(t) == HasFile(t) /\ file[CurrentFile(t)] = Torn

\* Mutant: the file is taken to be there.
LoadWithoutTest(t) ==
  /\ At(t, "load") /\ ChannelThere(t)
  /\ ~ReadsTornFile(t)
  /\ at' = [at EXCEPT ![t].pc = "insert", ![t].buffer =
              IF HasFile(t) THEN file[CurrentFile(t)] ELSE <<>>]
  /\ UNCHANGED <<run, starts, disk, focused, model, sent, stale, history>>

\* Mutant: a file that does not parse is taken for an empty one.
LoadOverTorn(t) ==
  /\ At(t, "load") /\ ChannelThere(t)
  /\ at' = [at EXCEPT ![t].pc = "insert", ![t].buffer =
              IF HasFile(t) /\ file[CurrentFile(t)] \notin {Absent, Torn}
              THEN file[CurrentFile(t)] ELSE <<>>]
  /\ UNCHANGED <<run, starts, disk, focused, model, sent, stale, history>>

Load(t) ==
  /\ At(t, "load") /\ ChannelThere(t)
  /\ ~ReadsTornFile(t)
  /\ at' = [at EXCEPT ![t].pc = "insert", ![t].buffer =
              IF HasFile(t) /\ file[CurrentFile(t)] # Absent
              THEN file[CurrentFile(t)] ELSE <<>>]
  /\ UNCHANGED <<run, starts, disk, focused, model, sent, stale, history>>

\* Mutant: what was read is added to what is in memory by now.
InsertBehind(t) ==
  /\ At(t, "insert") /\ ChannelThere(t)
  /\ state' = [state EXCEPT ![at[t].id] =
       [messages |-> (IF StateThere(t) THEN @.messages ELSE <<>>) \o at[t].buffer,
        received |-> FALSE]]
  /\ disturbed' = IF StateThere(t) THEN disturbed \cup {at[t].id}
                  ELSE disturbed
  /\ GoTo(t, Got(t))
  /\ UNCHANGED <<run, starts, disk, focused, joined, count, sent, stale,
                 slipped>>

Insert(t) ==
  /\ At(t, "insert") /\ ChannelThere(t)
  /\ state' = [state EXCEPT ![at[t].id] =
                 [messages |-> at[t].buffer, received |-> FALSE]]
  /\ disturbed' = IF StateThere(t) THEN disturbed \cup {at[t].id}
                  ELSE disturbed
  /\ GoTo(t, Got(t))
  /\ UNCHANGED <<run, starts, disk, focused, joined, count, sent, stale,
                 slipped>>

\* Mutant: the flag is not set.
MarkNothing(t) ==
  /\ At(t, "mark") /\ StateThere(t)
  /\ slipped' = slipped \ {at[t].id}
  /\ GoTo(t, "push")
  /\ UNCHANGED <<run, starts, disk, focused, model, sent, stale, disturbed>>

\* add_message: the flag, the message, and what an unfocused window adds.
Mark(t) ==
  /\ At(t, "mark") /\ StateThere(t)
  /\ state' = [state EXCEPT ![at[t].id].received = TRUE]
  /\ slipped' = slipped \ {at[t].id}
  /\ GoTo(t, "push")
  /\ UNCHANGED <<run, starts, disk, focused, joined, count, sent, stale,
                 disturbed>>

Push(t) ==
  /\ At(t, "push") /\ StateThere(t)
  /\ state' = [state EXCEPT ![at[t].id].messages = Append(@, at[t].msg)]
  /\ GoTo(t, "test")
  /\ UNCHANGED <<run, starts, disk, focused, joined, count, sent, stale,
                 history>>

\* Mutant: a message never saves.
TestFocusNever(t) ==
  /\ At(t, "test")
  /\ GoTo(t, "idle")
  /\ UNCHANGED <<run, starts, disk, focused, model, sent, stale, history>>

TestFocus(t) ==
  /\ At(t, "test")
  /\ GoTo(t, IF focused THEN "idle" ELSE "save")
  /\ UNCHANGED <<run, starts, disk, focused, model, sent, stale, history>>

\* persistChannel, and where its callers go on.
Saved(t) == CASE at[t].job = "add"  -> "idle"
              [] at[t].job = "part" -> "remove"
              [] OTHER              -> "advance"

Save(t) ==
  /\ At(t, "save") /\ ChannelThere(t)
  /\ IF StateThere(t) /\ state[at[t].id].received
     THEN at' = [at EXCEPT ![t].pc = "open",
                           ![t].buffer = Cached(state[at[t].id].messages)]
     ELSE GoTo(t, Saved(t))
  /\ UNCHANGED <<run, starts, disk, focused, model, sent, stale, history>>

\* A file that cannot be opened is not written, and nobody is told.
OpenFile(t) ==
  /\ At(t, "open") /\ ChannelThere(t)
  /\ IF HasFile(t)
     THEN /\ file' = [file EXCEPT ![CurrentFile(t)] = Torn]
          /\ stale' = stale \ {t}
          /\ GoTo(t, "write")
     ELSE GoTo(t, "reset") /\ UNCHANGED <<file, stale>>
  /\ UNCHANGED <<run, starts, fileOf, focused, model, sent, history>>

\* Written over what the other thread wrote since, a longer text shows.
Overlays(t) == t \in stale /\ file[CurrentFile(t)] # at[t].buffer

WriteFile(t) ==
  /\ At(t, "write")
  /\ \E content \in {at[t].buffer} \cup (IF Overlays(t) THEN {Torn} ELSE {}) :
       file' = [file EXCEPT ![CurrentFile(t)] = content]
  /\ disturbed' = IF Overlays(t) THEN disturbed \cup {at[t].id} ELSE disturbed
  /\ stale' = (stale \ {t}) \cup {u \in Thread \ {t} :
                at[u].pc = "write" /\ CurrentFile(u) = CurrentFile(t)}
  /\ GoTo(t, "reset")
  /\ UNCHANGED <<run, starts, fileOf, focused, model, sent, slipped>>

\* A message came since it was copied, or is marked and about to come.
Misses(t) ==
  \/ Cached(state[at[t].id].messages) # at[t].buffer
  \/ \E u \in Thread \ {t} : at[u].pc = "push" /\ at[u].id = at[t].id

Reset(t) ==
  /\ At(t, "reset") /\ StateThere(t)
  /\ state' = [state EXCEPT ![at[t].id].received = FALSE]
  /\ slipped' = IF Misses(t) THEN slipped \cup {at[t].id} ELSE slipped
  /\ GoTo(t, Saved(t))
  /\ UNCHANGED <<run, starts, disk, focused, joined, count, sent, stale,
                 disturbed>>

-----------------------------------------------------------------------------
\* An own PART, on the connection thread.

Part(n) == Begin("conn", n, "save", "part", None) /\ sent' = sent

RemoveChannel ==
  /\ At("conn", "remove") /\ ChannelThere("conn")
  /\ state' = [state EXCEPT ![at["conn"].id] = None]
  /\ GoTo("conn", "erase")
  /\ UNCHANGED <<run, starts, disk, focused, joined, count, sent, stale,
                 history>>

EraseChannel ==
  /\ At("conn", "erase")
  /\ joined' = [joined EXCEPT ![at["conn"].name] = None]
  /\ GoTo("conn", "idle")
  /\ UNCHANGED <<run, starts, disk, focused, count, state, sent, stale,
                 history>>

-----------------------------------------------------------------------------
\* The window: losing the focus and the end of the program save everything.

PersistChannels(j) ==
  /\ At("gui", "idle")
  /\ at' = [at EXCEPT !["gui"].pc = "advance", !["gui"].job = j]
  /\ UNCHANGED <<run, starts, disk, model, sent, stale, history>>

LoseFocus == focused /\ focused' = FALSE /\ PersistChannels("focus")
EndLoop == focused' = focused /\ PersistChannels("exit")

GainFocus ==
  /\ At("gui", "idle") /\ ~focused
  /\ focused' = TRUE
  /\ UNCHANGED <<run, starts, disk, model, sent, at, stale, history>>

\* The next channel of joinedChannels, in the order of the map.
Later == {n \in Name : n > at["gui"].name /\ joined[n] # None}

Advance ==
  /\ At("gui", "advance")
  /\ at["gui"].name # NoName => ChannelThere("gui")
  /\ \/ /\ Later = {}
        /\ GoTo("gui", IF at["gui"].job = "exit" THEN "close" ELSE "idle")
     \/ \E n \in Later :
          /\ \A m \in Later : n <= m
          /\ at' = [at EXCEPT !["gui"].pc = "save", !["gui"].name = n,
                              !["gui"].id = joined[n]]
  /\ UNCHANGED <<run, starts, disk, focused, model, sent, stale, history>>

\* disconnect() waits for the thread; reset() forgets the channels and
\* leaves their states behind.
Disconnect ==
  /\ At("gui", "idle") /\ At("conn", "idle") /\ focused
  /\ joined' = [n \in Name |-> None]
  /\ UNCHANGED <<run, starts, disk, focused, count, state, sent, at, stale,
                 history>>

-----------------------------------------------------------------------------
\* Ends and starts of the program.

CloseAll == At("gui", "close") /\ At("conn", "idle") /\ Ends("down")
Crash == run = "up" /\ Ends("down")

ParseError(t) ==
  /\ At(t, "load") /\ ChannelThere(t)
  /\ ReadsTornFile(t)
  /\ Ends("down")

Start ==
  /\ run = "down" /\ starts < MaxStarts
  /\ run' = "up"
  /\ starts' = starts + 1
  /\ UNCHANGED <<disk, focused, model, sent, at, stale, history>>

ThreadStep(t) ==
  \/ \E n \in Name : AddChannel(t, n) \/ AddMessage(t, n)
  \/ Register(t) \/ Get(t) \/ Load(t) \/ Insert(t)
  \/ Mark(t) \/ Push(t) \/ TestFocus(t)
  \/ Save(t) \/ OpenFile(t) \/ WriteFile(t) \/ Reset(t)
  \/ Dangling(t) \/ ParseError(t)

ConnStep == (\E n \in Name : Part(n)) \/ RemoveChannel \/ EraseChannel

GuiStep ==
  \/ \E n \in Name : OpenChannel(n)
  \/ LoseFocus \/ GainFocus \/ EndLoop \/ Advance \/ Disconnect \/ CloseAll

Next ==
  \/ \E t \in Thread : ThreadStep(t)
  \/ ConnStep \/ GuiStep \/ Crash \/ Start

Spec == Init /\ [][Next]_vars

-----------------------------------------------------------------------------
\* Properties.

Readable(f) == file[f] \notin {Absent, Torn}
OnDisk(n) == IF fileOf[n] # NoFile /\ Readable(fileOf[n])
             THEN file[fileOf[n]] ELSE <<>>

\* The messages of one sender are stored, and saved, in the order they came
\* and each at most once, over restarts too: get() reads a file only for a
\* channel that is not in memory, and what it reads goes in front.
Ordered(s) ==
  \A i, j \in 1 .. Len(s) :
     i < j /\ s[i].by = s[j].by => s[i].number < s[j].number
InOrder ==
  /\ \A i \in Id : state[i] # None => Ordered(state[i].messages)
  /\ \A n \in Name : Readable(n) => Ordered(file[n])

\* A channel with a file to itself whose id is its own.
OwnFile(n) ==
  /\ fileOf[n] # NoFile
  /\ \A m \in Name \ {n} : fileOf[m] # fileOf[n]
Undisturbed(n) == OwnFile(n) /\ joined[n] \notin disturbed

\* A channel in memory, and a thread in the middle of it.
InMemory(n) == joined[n] # None /\ state[joined[n]] # None
Busy(n) == \E t \in Thread :
              at[t].name = n /\ at[t].pc \in 
                {"push", "open", "write", "reset", "erase"}

\* received_message is set whenever memory and file differ (outside of
\* add_message and persistChannel): what the flag does not mark is never
\* saved.  Except when a message came between the copy persistChannel made
\* and its reset of the flag (slipped), and when both threads read the
\* channel in or wrote its file together or got one id for two channels
\* (disturbed).  A file that is torn by anything else would show here.
UnsavedIsMarked ==
  \A n \in Name :
     run = "up" /\ InMemory(n) /\ ~Busy(n) /\ Undisturbed(n)
       /\ joined[n] \notin slipped
       /\ ~state[joined[n]].received
     => OnDisk(n) = Cached(state[joined[n]].messages)

\* While the window has no focus and nobody is at work, the file of every
\* channel holds its newest messages, with the same exceptions: whichever
\* comes first, the loop over the channels or the message, one of them saves.
SavedWhenUnfocused ==
  \A n \in Name :
     run = "up" /\ ~focused /\ (\A t \in Thread : at[t].pc = "idle")
       /\ InMemory(n) /\ Undisturbed(n) /\ joined[n] \notin slipped
     => OnDisk(n) = Cached(state[joined[n]].messages)

\* No channel of file f is in memory, and no thread has read f or writes it.
Untouched(f) ==
  /\ \A n \in Name : fileOf[n] = f => ~InMemory(n)
  /\ \A t \in Thread :
       at[t].pc \in {"insert", "mark", "push", "test", "open", "write"}
         => CurrentFile(t) # f

\* A torn file is never repaired, in this run of the program or a later one:
\* every write to it comes from a channel in memory, and whoever wants it
\* there must read the file first and ends at that.  Except after a clash of
\* ids, which gives a channel the state of another one (disturbed).
UnreadableStays ==
  [][\A f \in Name :
       disturbed = {} /\ file[f] = Torn /\ Untouched(f)
       => file'[f] = Torn /\ (disturbed' = {} => Untouched(f)')]_vars

-----------------------------------------------------------------------------
\* The inductive invariant of the proofs.

Adding(t) ==
  /\ at[t].job = "add"
  /\ at[t].pc \in {"get", "load", "insert", "mark", "push"}

\* A thread in the middle of something has a channel; one that adds a
\* message has that, too, and it is its own.
Working ==
  \A t \in Thread :
    /\ at[t].pc \notin {"idle", "advance", "close"} => at[t].name \in Name
    /\ at[t].pc \in {"mark", "push"} => at[t].job = "add"
    /\ Adding(t) => /\ at[t].msg \in Message
                    /\ at[t].msg.by = t /\ at[t].msg.number <= sent

\* Every sequence of messages there is: in memory, on disk, in a thread.
Contents ==
  {state[i].messages : i \in {j \in Id : state[j] # None}}
    \cup {file[f] : f \in {g \in Name : Readable(g)}}
    \cup {at[t].buffer : t \in Thread}

\* The message a thread is about to add is newer than its others.
Older(s) ==
  \A k \in 1 .. Len(s) :
    /\ s[k].number <= sent
    /\ Adding(s[k].by) => s[k].number < at[s[k].by].msg.number

Logged == \A s \in Contents : Ordered(s) /\ Older(s)

\* Unless two threads raced on the counter, an id is new when it is given,
\* and a thread that works with it works on the channel it was given to.
Given(i) == i < count
Using(p) == p \notin {"idle", "register", "advance", "close"}
Counted ==
  disturbed # Id =>
    /\ \A i \in Id : state[i] # None => Given(i)
    /\ \A n \in Name : joined[n] # None => Given(joined[n])
    /\ \A t \in Thread : Using(at[t].pc) => Given(at[t].id)
    /\ \A n, m \in Name : joined[n] # None /\ joined[n] = joined[m] => n = m

\* A name is not joined when the id it gets is the next one.  Only the
\* connection thread takes a channel away, so it has the one it works on.
Homes ==
  disturbed # Id =>
    /\ \A t \in Thread : at[t].pc = "register" =>
         at[t].id <= count /\ (at[t].id = count => joined[at[t].name] = None)
    /\ \A t \in Thread, n \in Name :
         Using(at[t].pc) /\ joined[n] = at[t].id => n = at[t].name
    /\ Using(at["conn"].pc) => ChannelThere("conn")

\* Likewise it has the state it needs, and the GUI thread lacks it only when
\* the connection thread removed it.
NeedsState(p) == p \in {"mark", "push", "open", "write", "reset"}
StatesThere ==
  /\ NeedsState(at["conn"].pc) => StateThere("conn")
  /\ disturbed # Id /\ NeedsState(at["gui"].pc) /\ ~StateThere("gui")
     => \/ at["conn"].pc = "erase" /\ at["conn"].id = at["gui"].id
        \/ ~ChannelThere("gui")

\* The GUI thread writes the file of a channel that was erased meanwhile, and
\* whose state it made again: then it is alone with that file.
Alone ==
  disturbed # Id /\ at["gui"].pc = "write" /\ OwnFile(at["gui"].name) /\ StateThere("gui") =>
    /\ at["conn"].pc = "erase" /\ at["conn"].id = at["gui"].id
       => file[CurrentFile("gui")] = Torn
    /\ ~ChannelThere("gui") =>
         /\ file[CurrentFile("gui")] = Torn
         /\ ~InMemory(at["gui"].name)
         /\ ~(at["conn"].pc = "insert" /\ at["conn"].name = at["gui"].name)

\* What goes to a file, or comes from it, is no longer than the cache.
Short ==
  /\ \A n \in Name : Readable(n) => Len(file[n]) <= CacheSize
  /\ \A t \in Thread : at[t].pc \in {"open", "write", "reset"} => Len(at[t].buffer) <= CacheSize

\* A thread in the middle of a save of n, whose channel and state are gone: it
\* ends the program with its next step.
Stray(t, n) ==
  /\ at[t].name = n /\ at[t].pc \in {"write", "reset"}
  /\ ~ChannelThere(t) /\ ~StateThere(t)

Newest(i) == Cached(state[i].messages)

\* A save of n is under way, or a copy that is out of date was saved: what is
\* on disk is to change, or the thread that saved will notice.
Saving(n) ==
  \/ \E t \in Thread : at[t].name = n /\ at[t].pc = "write"
  \/ \E t \in Thread : at[t].pc = "reset" /\ at[t].name = n /\ at[t].id = joined[n]
                       /\ at[t].buffer # Newest(joined[n])
  \/ \E t \in Thread : Stray(t, n)

\* The state of n was removed, its channel is next.
Erasing(n) == at["conn"].pc = "erase" /\ at["conn"].name = n

\* What was read is still what the file holds.
Reading ==
  \A t \in Thread, n \in Name :
    at[t].pc = "insert" /\ at[t].name = n /\ ChannelThere(t) /\ ~StateThere(t)
      /\ Undisturbed(n)
    => at[t].buffer = OnDisk(n) \/ Erasing(n) \/ \E u \in Thread : Stray(u, n)

Pushes(i) == \E t \in Thread : at[t].pc = "push" /\ at[t].id = i

\* A message that is marked and not yet stored keeps the flag up.
Pushing ==
  \A i \in Id : Pushes(i) /\ state[i] # None /\ i \notin disturbed \cup slipped
    => state[i].received

\* What is not marked, or is about to be unmarked, is on disk.
Settled ==
  \A n \in Name :
    /\ InMemory(n) /\ Undisturbed(n) /\ joined[n] \notin slipped
    /\ ~Saving(n) /\ ~Erasing(n) /\ ~Pushes(joined[n])
    /\ \/ ~state[joined[n]].received
       \/ \E t \in Thread : at[t].pc = "reset" /\ at[t].id = joined[n]
    => OnDisk(n) = Newest(joined[n])

\* Without the focus the GUI thread saves and does nothing else.
Unfocused ==
  /\ \A t \in Thread : at[t].pc \in {"idle", "close"} => at[t].name = NoName
  /\ ~focused => /\ at["gui"].pc \in {"idle", "advance", "save", "open", "write", "reset", "close"}
                 /\ at["gui"].pc \in {"advance", "save", "open", "write", "reset"}
                      => at["gui"].job \notin {"add", "part"}

\* Without the focus a channel is marked only while somebody is about to save
\* it: the GUI thread on its way through the channels, or who marked it.
AboutToSave(t) == at[t].pc \in {"save", "open", "write", "reset"}
Marked ==
  disturbed # Id /\ ~focused => \A n \in Name : InMemory(n) /\ state[joined[n]].received =>
    \/ at["gui"].pc = "advance" /\ at["gui"].name < n
    \/ AboutToSave("gui") /\ at["gui"].name < n
    \/ AboutToSave("gui") /\ at["gui"].name = n /\ ChannelThere("gui")
    \/ at["conn"].id = joined[n] /\ (AboutToSave("conn") \/ at["conn"].pc \in {"push", "test"})

IInv ==
  /\ TypeOK /\ Working /\ Logged /\ Counted
  /\ Homes /\ StatesThere /\ Alone /\ Short
  /\ Reading /\ Pushing /\ Settled /\ Unfocused /\ Marked
=============================================================================
