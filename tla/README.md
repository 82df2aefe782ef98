# DecIRC in TLA+

DecIRC is an IRC client with a GUI of its own (C++17, OpenGL). This directory
holds TLA+ modules of its concurrent core and of the algorithms around it, TLC
configurations that check them on small instances, and TLAPS proofs of what matters
most for every instance.
Paths such as `irc/irc_client.cc:30` are below `src/src/`.

## The system

**Threads.** The GUI thread runs GLFW callbacks, commands and the frame
(`AppState::runGuiLoop`). Each network has a connection thread
(`IrcClient::connect`), which reads the socket and runs
`IrcEventHandler::processMessage` for every line. The HTTP client has a thread
for pictures. Apart from one mutex around the task vector nothing is locked: the
threads share plain fields, maps and vectors, and the rule that the window is
changed only by tasks handed to the GUI thread is a convention.

| Component | State | Operations | Hard behaviour | What makes it correct | Modules |
|---|---|---|---|---|---|
| GUI task queue (`gui_components.h`, `.cc`) | `tasks`, `locked`, `mtx` | `runLater`, first block of `render` | unprotected flag, tasks that post tasks | once, in order, never dropped, no self-deadlock | TaskQueue, GuiTasks |
| IRC connection (`irc/irc_client.cc`, `irc_socket.cc`) | `state`, `connection_thread`, `socket`, `send_ping`, `last_ping` | `connect`, the loop, `write`, `disconnect`, `reset` | outages, retries, a disconnect in any of them | one thread, one owner of the socket, outages reported and ended | IrcConnection, KeepAlive |
| Line splitting (same file) | `recv_buff` | read, cut | lines cut by TCP | segmentation is invisible | LineBuffer |
| Message parsing (`irc_client.cc`, `irc_messages.hpp`, `stream_reader.h`) | none | `handleMessage`, `fromParts`, `build` | malformed lines | equals a reference parse | MessageParser |
| Networks and channels (`irc/irc_event_handler.cc`) | `joinedChannels`, `active_network`, `active_channel_ptr`, `channel_items` | `processMessage`, commands, selection | channels erased under pointers to them | what the window points to exists or is about to be cleared | Channels, Replies |
| Message store and cache (`irc/message_state.cc`, `utils/config.cc`, `file_util.h`) | holders by channel id, one JSON file per channel | add, get, persist, remove | crash while writing, names that collide | nothing shown is lost by a restart after a persist | MessageCache |
| Message list (`components/message_list.cc`) | `messages`, selection, scroll offset, search | add, clear, scroll, select, search, draw | messages that come while one is selected, heights that change | keys and selection agree, the end stays in view | MessageList, Channels |
| Image cache (`irc/image_cache.cc`, `rendering/image.h`) | `images`, requests, textures | fetch, answer, age, decode, dispose | the owner is deleted before the answer | no picture lost, doubled or without its pixels | MessageList |
| Search lists and popovers (`components/search_list.cc`, `channel_list.cc`, `user_list.h`, ...) | items, filter, selected address | set, filter, move, choose | refilled by another thread | the chosen item is the marked one, and of the kind it is taken for | SearchList, Window |
| Input, focus and window (`event_receiver.h`, `AppState.cc`, `gui_components.cc`) | receivers, popover, cursors | key, mouse and focus callbacks | a receiver that goes away | keys go to what is on the screen | Window |
| Text editing (`rendering/text.cc`, `utf8.cc`, `components/chat_input.h`, `text_field.cc`) | code points, cursor | insert, delete, move | boundaries | equals an editor of the two halves of the text | TextBuffer, Encoding |
| Rich text (`rendering/text_box.cc`, `irc/message_util.cc`) | none | codes, lines, strokes, links | truncated codes, long words | equals a description by pieces | RichText |
| Glyphs (`rendering/font_atlas.cc`) | atlas, glyphs by code point | lookup, load | an atlas that is full or grows | glyphs do not overlap and are found again | FontAtlas |
| URL handler (`utils/url_handler.cc`, `url_parser.cc`) | a local socket, `preJoin` | send, accept, handle, parse | first and second instance, JOIN before registration | every URL is handled once, its channels are joined | UrlHandler, UrlParser |
| Configuration (`utils/config.cc`) | `config.json`, clients | load, save | partial files | a restart finds what was saved | Config |

The components meet in two ways. Downwards the GUI thread calls the client
directly: it writes to the socket, connects and disconnects. Upwards a
connection thread changes the model (channels, messages) directly and the view
through `runLater`.

## The modules

**TaskQueue** is the promise of `runLater`: a FIFO queue. **GuiTasks** is the
code: `call[p]` is the place of thread `p` in `runLater` (lock, set the flag,
push, unlock), `render` that of the GUI thread in its block (test, lock, run,
clear, unlock, reset). Each access to `tasks`, `locked` and `mtx` is one action.
`glfwPostEmptyEvent` is not state: the GUI thread waits at most a second and may
always go on. On the GUI thread `runLater` runs the task at once (`RunNow`), also
from inside a task. `ImplementsTaskQueue` maps the queue to the part of the
vector the loop has not run (`Waiting`).

**IrcConnection** is one `IrcClient`. `pc` is the place of the connection thread:
open, pass, nick, user, registered, loop, ping, read for the normal course;
outage, close, delete, reopen, retest, leave for the inner loop of a
reconnection. `gui` and `op` are the place of the GUI thread in `/disconnect`,
`/delserver` or the end of the program. `sock` says what the plain pointer
`socket` points to: nothing, an open socket, one that failed to connect, one that
was closed, or freed memory. Reads and writes of `state` are steps of their own
wherever the other thread can come in between. A write through a null or freed
pointer is undefined; the model lets it end the program (`crashed`). Time is
`quiet`, the silence since `last_ping`, which is reset by every line.
`Authenticated` is declared and never assigned, so it is no state of the type
invariant. **KeepAlive** adds deadlines: the thread looks at every unit of
silence, the server answers a PING within `AnswerDelay`.

**LineBuffer** is the read half of the same loop, byte by byte: what `recv`
returned, the rest kept in `recv_buff`, the copy the inner loop consumes, and the
lines handed to `handleMessage`, which ignores empty ones. `Reconnect` is any new
socket: the rest survives it, as in the code. The reference is a parser that sees
one byte at a time (`Parse`).

**Channels** is `IrcEventHandler` with one connection thread per network: a
message stored, tested against the shown channel and posted; an own JOIN; an own
PART that deletes the holders, tests the shown channel, posts, erases and posts
again; and on the GUI thread the tasks, the choice of a network or a channel,
`/query`, `/msg`, a typed line, `/disconnect` and `/delserver`. A post waits while
the GUI thread runs the queue, which is the mutex of GuiTasks seen from outside.
`activateChannel` is split where a connection thread can come in between: the
list is cleared, filled, and only then `active_channel_ptr` is set. A channel is
a node of the map (the address the window keeps). Using an erased channel or a
deleted holder ends the run (`crashed`).

**MessageCache** is `MessageState` with the cache files, for one network: the
messages of a channel in memory (`state`, by id), its `received_message` flag, the
file it is saved to and read from, `joinedChannels` with its ids and the counter
they come from. Both threads run `add_message`, `get` and `persistChannel` step by
step: `at[t]` is the place of a thread and its locals (the channel by name and by
id, the message, what it read or is about to write). The GUI thread also opens a
channel, and walks over all of them when the window loses the focus or the program
ends; the connection thread parts from one. `string_to_file` is an open, which
truncates, and a write at the close: in between the file is `Torn`. The program may
crash anywhere and start again. A torn file that is read ends it, since
`json::parse` throws and nobody catches. A name may have a file of its own, share
one (`#a` and `_a`) or have none that can be opened (`a/b`): `FileNames` is the set
of such maps. Using a channel that was erased, or replaced by another of its name,
or a state that was removed, ends the run (`undefined`); the code would fare better
only where a replaced channel is assigned in place.

Not in Channels: what a cache file held, topics, user lists, whois, `/list`,
`/names`, `/notify` (all in Replies), the raw buffer, and channel ids
(`global_channel_count`). The files and the ids are in MessageCache, which in turn
leaves the window out. `IrcConnection` says what happens to the socket meanwhile.

**SearchList** is the list behind every popover as a record with operators: the
vector it was given, the addresses it keeps of it (`filtered`, `selected`, places in
the vector or 0), the capacity after which the vector moves and leaves them dangling.
**Window** is who has the keys: `ui` holds the popover, the text and mouse receivers,
which fields draw a cursor, and the two fields of `ChannelList` that say what an item
is (`mode`, `network`). Every key, mouse, focus or selection callback of the GUI thread
is one step; the connection thread clears, pushes to and resets the list of the
channels popover (`filling`) and posts the task that shows it (`shows`), without waiting.
Choosing through an address that dangles, an item of another kind, a user without a
network, a channel of the user information, or `/delserver` without a network ends the
run (`alive`), as in the code.

**MessageList** is the list of messages, `ImageCache`, `Image` and the image overlay.
`view` is the offset, the total and the visible height; `selected_index` counts from
the newest message, `receiver` is who has the keys. A frame (`Draw`) computes the
heights, looks for the searched text, then fetches or disposes the pictures of each
message. `requests` is the HTTP client's queue, `tasks` the pictures on their way back
by `runLater`, one of which may come after the block of `render` that would run it and wait
through the frame. A task knows its message by an address (`at`): a message deleted since is
freed memory (`RunTaskOfFreed`), and a new one may have been made at its address, which
then gets the picture. An image is decoded or not, valid (has a texture) or not, and
its pixels are there or not.

**UrlHandler** is several processes: `maybeSend` of a new one (`Try`, `Send`, `Wait`),
the socket file (`path`: whose socket it names), `bind`, `listen`, the tick that accepts,
reads, handles and answers, and the destructor, which closes and then unlinks. An instance
may be killed anywhere, also after it handled a URL and before it answers (`KillServing`). A write
to a closed end is a SIGPIPE. `net` is how far the client of the network is: absent, idle,
opening its socket, writing its registration (registering), in the loop but before 001
(greeting), registered (up), or left by a `/disconnect`. The user may disconnect, delete or
connect in every one of them. A `/disconnect` writes its QUIT first, which through a null
socket ends the program; then it waits for the connection thread (`joining`), and when it
returns `reset` has forgotten what is joined and kept `preJoin`. One that was begun before
the registration is written is overwritten by `state = Connected` and never returns
(`hung`), and with it the tick. `chan` says what was done for a URL: waiting in `preJoin`,
written before the registration (early), asked for, left. The end is four steps: out
of the loop, `closeAll`, which may wait for the thread, the close of the socket, and the
unlink of the file.

*Pure algorithms.* Seven modules have operators only, over sequences of character
codes or small records; each ends with reference definitions and the properties that
compare the two over bounded inputs. They are checked where a run begins, by the
conjunctions in the table below. **MessageParser**: `StreamReader`, `handleMessage` and the
message classes, against lines put together from their parts; `Stoi` is `std::stoi`, with
the blanks, the sign and the rest it accepts and the two cases in which it throws.
**UrlParser**: the
URL parser, `urlDecode`, and what `handle` asks for. **Replies**: the numeric replies,
NICK, JOIN and PART of others, and the commands that ask, over the fields of one client.
**RichText**: formatting codes, line breaks, underlines, the cursor, links. **FontAtlas**:
where a glyph goes in the texture and which font a character is taken from.
**TextBuffer**: the keys of an input field. **Encoding**: base64 with its tables, in
both byte orders, UTF-8, and the message in a file. **Config**: `/ADDSERVER`, save and load.

## The runs

| Run | Instance | Shows |
|---|---|---|
| `gui_tasks` | two posting threads and the GUI thread, two posts each | FIFO, once, no deadlock, calls return, flagged tasks run, refinement of TaskQueue |
| `gui_tasks_lost` | the same | violated: a task posted between `lk.unlock()` and `locked = false` is not run |
| `irc_connection` | PING after 1, outage after 3, two lines in flight, a password | ownership of socket and thread, one report per outage, one PING per silence, disconnects from the loop and outages end |
| `irc_connection_join` | the same | violated: a disconnect during a registration never returns |
| `irc_connection_write` | the same | violated: a typed line meets a null or deleted socket |
| `keep_alive` | PING at 2, answer by 3, outage at 4 | a connection to a live server is kept, unless `send_ping` was left set by an earlier session |
| `line_buffer` | three bytes (CR, LF, other), streams of up to seven | no byte lost, no line waits, segmentation invisible; `InitiallyTextsParsed`: the references of MessageParser, UrlParser, RichText and FontAtlas |
| `channels` | two networks, two names, three channels, two messages, symmetric in the networks | items, active channel and list stay covered, what is stored is shown, what is typed goes to what is shown |
| `message_cache` | one name with a file or none, a cache of one, three messages, two ids, one restart | order, nothing unsaved is unmarked, everything is saved without focus, a torn file stays torn; `InitiallyFilesSurvive`: Encoding and Config |
| `window` | two channels on two networks, replies of three entries of one name, one typed letter | `SelectionValid`, `KeysGoToShown`, `KindsKept`; `InitiallyEditsAndRepliesRight`: TextBuffer and Replies |
| `url_handler` | two instances, three incidents (kill, `/disconnect`, `/delserver`), the network new, idle or being opened at the start | `HandledOnce`, `UrlJoins`, `StartsEnd` |
| `message_list` | two messages, arriving or loaded, one with a picture, one with a link to a broken one, two window heights | `SelectedHasKeys`, `PicturesRight`, `FollowsEnd` |

*Bounds.* Two posting threads let a post fall between two posts of another one
and at every point of the frame. The clock needs four values because the code
compares it with two limits; two waiting lines give a line that arrives while
another is handled. Seven bytes hold two lines and a rest, every cut of a line end
and a reconnection inside a line. Three channels let a network have one beside
its status channel, leave it and join it again; two messages let one overtake the
other. In `message_cache` two ids let a channel be left and joined again or made by
both threads at once, three messages fill the cache, overflow it and come while it is
being written, and one restart reads what the first run left, whole or torn. Two names
that share a file are in the model and the proofs, not in the instance. In `window` three
entries make a vector that moves (at one, two and four), and one letter narrows a list to all, some or none. In
`url_handler` one instance is the program, or about to begin or end, and the other hands its
URL over or begins meanwhile; three incidents allow a disconnect, a second one after the
next connection, and a kill. A third instance only adds a longer queue and one more that
comes between two steps. With three, TLC's check of the liveness property takes too long to
be repeated; HandledOnce alone holds of three with two incidents and a new network (4.2 million states);
it and UrlJoins are proved for any number.
In `message_list`
either message may be taller than the window, and the second may be made where the
first was. The bounds are the constants `MaxPosts`, `MaxInbox`, `MaxBytes`, `MaxChannels`,
`MaxMessages`, `MaxIds`, `MaxStarts`, `MaxItems`, `MaxTyped`, `Instances`, `MaxIncidents`,
`MaxMade` and `MaxListed`; each stands in the guard of what it bounds. `Configured` is no
bound but a choice: what the configuration may say of the network of the URLs. Of the pure
algorithms, inputs are all sequences of up to three to five characters or pieces over
alphabets that hold each character the code looks for, or all combinations of parts.

*Deadlock* is checked in every run but `line_buffer`, whose stream ends,
`message_cache`, whose program ends for good after its last start, `url_handler`,
whose instances all end or hang, and `window` and `message_list`, where what the code leaves
undefined ends the run. A crashed or exited program of the others stutters (`Stopped`).

*Fairness.* GuiTasks: a thread inside `runLater` and the GUI thread inside
`render` go on (weak fairness, the scheduler), and a mutex that is free again and
again is obtained (strong fairness of the two lock steps). Nobody is obliged to
post. IrcConnection: the connection thread runs, a disconnect that was begun goes
on, and a server asked again and again accepts at last (strong fairness of
`Reopen`: the code retries for ever). The user, the clock and the server's lines
have no fairness. UrlHandler: the program's own steps between start and loop, its
tick and its end are taken (weak fairness of `Step`), and a connection thread in its loop
that finds `Disconnected` leaves it (`EndConnection`); nobody has to start, close or
kill an instance, no connection has to be made and no server has to answer. So a tick is only
promised while the GUI thread is not in a `disconnect()`.

*The properties that carry an exception* state exactly where the code
leaves a hole. `ActiveCovered` and `ListCovered` exempt a channel that was opened
after the PART had compared `active_channel_ptr` (`late`). `MessageShown` exempts
messages tested while their channel was being opened or another network was
chosen (`missed`). `TypedGoesToShown` exempts the time after another network was
chosen (`browsed`). In MessageCache `UnsavedIsMarked` and `SavedWhenUnfocused` exempt
a channel whose flag was reset although a message had come since the copy (`slipped`),
one that both threads read in or wrote at once or that shares its id (`disturbed`), and
one without a file to itself. `KindsKept` exempts a list that both threads were filling
at once (`mixed`), `KeysGoToShown` the keys of a list whose popover was closed by a choice
in it (`stranded`): the code closes the popover and leaves the keys. `SelectedHasKeys`
exempts a selection that a search has moved (`moved`), for a search moves the index and
not the keys. `HandledOnce` lets a URL be handled twice when the instance that handled it died before
it answered. `UrlJoins` says nothing of a JOIN that was written before the registration
(`early`), which a server refuses, nor of the channels of a network that was deleted.
`StartsEnd` exempts an instance whose URL lies with one that is in a `disconnect()` begun before the
registration was written (`NeverReturns`): the program hangs, its tick is not called and
the other one waits in `recv` for ever. It is the hang of `irc_connection_join`, seen from
the other process. `UsersCovered` assumes that no nick contains another,
since `removeFromList` looks for a part of the name; `LinksFound` that no link with `https://` comes
before one with `http://`. Each exemption is needed: without it TLC finds a violation.

## The proofs

All proofs are for every value of the constants, under the named assumptions of
the modules.

*GuiTasksProofs.* `IInv` adds four parts to the type. `Owner`: who is in a critical
section owns the mutex, and only they. `LoopIndex`: the index is 1 outside the loop
and past the end after it, so `clear` drops nothing. `Fresh` and `NoDuplicate`: a
task is pushed once. `Positions`: FifoOnce position by position, which survives
each step where FifoOnce alone would need reasoning about concatenation. From it
follow FifoOnce, the action property that the vector stays as it is during the
loop, the absence of self-deadlock, and that each step is a step of TaskQueue or
leaves its variables alone.

*IrcConnectionProofs.* `CInv`: a thread exists exactly when `pc` is not `none`
(`ThreadExists`); what `socket` points to is a function of where its owner is
(`SocketByPoint`) — in particular `closed` and `freed` only inside the outage
loop, which a disconnect leaves only after the pointer was replaced;
`emittedError` remembers the callback (`ReportFlag`), `send_ping` the PING
(`PingFlag`). SocketOwned, OneThread, OutageReported, OneReport and OnePing follow.
NeverDropped is proved of KeepAlive's `TimelySpec` with `TimelyInv`: as long as no
send_ping was inherited, no outage has been seen (`NoOutage`), a PING that is out is
answered or its answer waits to be read (`PingAnswered`), and the silence is at most that
before the PING plus that since (`SilenceBounded`), which stays below `DeadAfter` by the
assumption on the constants. That assumption is the theorem's content: it says how fast
a server has to answer to be safe from the 60 and 90 seconds of the code.

*ChannelsProofs.* For any networks and names. `Nodes`: a node belongs to the network it
was made for. `WorksOn`: a thread in the middle of a message works on such a node and
holds a message. `Opened` and `Displayed`: where the GUI thread is tells what the
window refers to, and the list on the left names channels of the network on display
only. `Erasing`: a shown channel is about to be erased only with its clearing task in
the queue. From these follow TypedGoesToShown, ActiveCovered and ItemsCurrent.
`Erasing` is what makes ActiveCovered inductive (the erase itself posts nothing), and
`Displayed` what makes ItemsCurrent so: `addChannel` posts nothing when another network
is on display, which is right only because that one's list cannot name the channel.
ListCovered and MessageShown are about which thread holds which message. `Owned`: a
channel stores its own messages only, and none that was deleted. `Deleted`: a message
is deleted while its channel is being removed, or the channel is gone. `Carried`: what a
thread has made but not stored is in no channel and not deleted, so storing it neither
doubles it nor brings a freed one back. `Filled`: between filling the list and setting
`active_channel_ptr`, what the channel stores is in the list or on its way; without it
MessageShown would not survive the step that sets the pointer.

*MessageCacheProofs.* For any names, file names, cache size and number of restarts.
`Working`: a thread in the middle of something has a channel, and its message is one it
sent. `Logged`: every sequence of messages, in memory, on disk or in the hands of a
thread, is in order for each sender and older than what that sender is about to add;
this is what makes `InOrder` inductive, for a sequence travels from memory to a thread,
to a file, and back after a restart. `Counted`: while no id was given twice, the ids in
use are below the counter and belong to one name, so a new id finds no old state. From
it follows `UnreadableStays`: bringing a channel into memory reads its file first.
UnsavedIsMarked and SavedWhenUnfocused relate the flag, the copy a thread made and the
file, at every point of a save by either thread. `Settled` is UnsavedIsMarked also while
a thread is about to unmark a channel, and `Marked` is SavedWhenUnfocused also while
somebody works: a marked channel is ahead of the GUI thread in the map, or being saved,
or with the connection thread that marked it. Below them: `Pushing` (a marked message
that is not stored yet keeps the flag), `Reading` (what was read in is still what the
file holds), `Short` (what is written comes back whole), `Homes` and `StatesThere` (which
thread can have lost its channel or its state: only the GUI thread, and only to a PART).
One case took a part of its own, `Alone`: the GUI thread opens a file, the connection
thread erases the channel meanwhile, and the file is written after that. The proofs
take each step by what it does (`Inserts`, `Resets`, ...), since no step touches more
than one channel. The one assumption on values is that a file that is missing or torn,
and a state that is not there, differ from those that are.

*UrlHandlerProofs.* For any number of instances. HandledOnce follows from `Handed`, which
says where a URL is: who runs as the program has handled its own (`Own`); who is in a
queue or being served waits there, in one place only, and has no answer (`Linked`); who
has not connected or written has left no trace (`Silent`); who read "received" was
handled by the one it was connected to (`Answered`); and where a URL was handled by
another instance, that one has answered or died (`Elsewhere`). `Elsewhere` is what makes the
third part of HandledOnce inductive, and needs `Linked` for the instance that is serving.
UrlJoins says of every instance that lives that a URL was handled if and only if something
became of its channel; that a channel waits only while its network is on the way to a
registration or was left, to be joined after the next one; and that one asked for belongs
to a network that is up. `Fresh`, that an instance which is not yet in its loop was asked for
nothing, makes it inductive: that instance may find its network idle in the
configuration. A step changes one instance (`Others`), so the proof looks at that one
(`JoinsOf`).

*LineBufferProofs.* NoByteLost and NoLineWaits are inductive together with the type.
The proof of the first is about concatenation of subsequences; the second needs that
a buffer of at most two bytes with a line end is the line end. SegmentationInvisible
compares the code with `Parse`, a recursive function that reads one byte at a time.
It is inductive with `CutsParsed`: what was cut off so far parses to the lines handled,
with nothing left over. That every stretch up to a line end parses to one line is an
induction over its length, which is done by hand: `LeastElement` (a non-empty set of
naturals bounded by n has a least element, from the library's theorems about finite
sets) gives `InductionUpTo`, and with it `RecursionExists`, that a recursive function on
0..n exists and satisfies its equation.

*WindowProofs.* For any networks, channels, users and texts. `WindowInv` has three
parts. `UiOK`: the type of the window and KeysGoToShown, which no step of the list
disturbs. `ListOK`: `Addresses` (what the list keeps are places the vector had),
`Selected` (also while a thread fills the vector, the selected address is that at the
index, so a key pressed meanwhile keeps it so), freshness between fills, and
`KindFilled` (while one thread fills, it fills with the kind of the mode), which makes
KindsKept survive the end of a fill. `RestOK`: the type of the rest. `FoundPlaces` and
`PushItemsGrows` are inductions over the vector.

*MessageListProofs.* For any contents, links, searches and window heights; `IInv` is in
MessageList itself and a TLC run of it found nothing against it. SelectedHasKeys needs
only `ResultPlaced` (a search result has a place) beside the type. PicturesRight counts
each link of a message in four places: its pictures, the HTTP client's queue, the tasks
and the failures. A step moves a request from one to the next, so the sum stays if the
picture ends up at the message it was asked for, although the task has only an address
that may be another message's by now. That is `Alone` (no two messages share a number or
an address) with `Addressed` (a request whose owner is still listed has that owner's
address) and `Known` (nothing waits for a number yet to be given): a task that finds
another message carries another owner's number, and nobody counts its picture. `PixelsThere`
is the second half: pixels, `decoded` and texture agree, and what was let go can be
decoded again; the overlay's copy only needs the first part. FollowsEnd is an action
property: computing the heights twice, before and after the window's height is set, ends
at the same place (`ViewForFollows`). Heights, start positions and the links of a message are
recursive functions here (`Totals`, `AmongFirst`), and `Count` is a cardinality, since the
folds of the library cannot be reasoned about; the inductions over them are done by hand
as in LineBufferProofs.

*The texts* (in WindowProofs). What the keys of an input field do is proved for every
text, cursor and key, where the run looks at short texts: the text changes only in front
of the cursor (`KeysEditInFront`), up and down skip no line (`LineKeysSkipNoLine`) and a
word is removed whole and alone (`WordsAreRemoved`). `OperationsInFront` has a case for
each operation of `text.cc`; the loops that look for a blank or a line end are minima and
maxima of sets of places (`MinOf`, `MaxOf`). That lines are not
skipped is a statement about how many line ends there are before two places.

*The bytes of a message* (in MessageCacheProofs). `Base64ReturnsBytes`: each letter stands
for six bits (`Letters`), the four letters of a group are read as the word its three bytes
made, and what the padding stands for is what the last group lacks, so the decoder's size
is the encoder's. The decoder goes through a table for each byte order of the machine,
which makes no difference; `Throws` is false of what was encoded. `MessagesComeBack` is
the same of `toJson` and `fromJson`. `CharactersComeBack` takes the four forms of a
character apart: no form is another one's, each byte behind the first holds six bits, and
neither is a character read from fewer bytes than it has. It is about one
character in front of anything, `ReadCharacter`, for the whole text is a fold.

*What a line is read as* (in LineBufferProofs). `LinesAreRead` and `MessagesAreRead` are
about lines of any length, where the run builds them from a few letters. The first says
also when the program ends at a line: exactly when the command is all digits and no `int`
holds its number, for then `std::stoi` throws in the connection thread. They rest on
`ReadsUpTo`: a text up to its first blank (or mark) is what stands before it, and what
follows is the rest. `LedIsRead` is the case that occurs twice in a line, a word
between a character and a blank, which is a tag or a sender; `SourceIsRead` goes through the
forms of a sender. The condition of `MessagesAreRead`, no CTCP mark in what is typed, is that
of the run; with one, the client sends something else than was said.

*The glyphs* (in LineBufferProofs). `GlyphsStayApart` is one lookup of one character, in
any fonts. `AtlasRight` is the condition it needs and keeps, and says more than that
glyphs do not overlap: the next glyph begins inside the texture, and the texture has
what was written last (`LoadedApart`). TLC checks `AtlasRight` after `InitFont` and
sequences of lookups, since `InitFont` is a fold.
`GlyphFound` adds that no glyph that was there moves, and that a
character some font has is always found, in one of the styles of `Order`.

*Only model-checked.* Liveness (`FlaggedTasksRun`, `CallsReturn`,
`DisconnectFromLoopReturns`, `OutageEnds`, `StartsEnd`), since liveness under fairness is
outside what the prover does; and the three `Initially...` properties as they stand, which
compare the pure algorithms (parsers, text editing, rich text, font atlas, configuration,
replies) with their references over bounded inputs. Most of these algorithms walk over a
text, which the models write with the folds of the library: what a fold computes for
every text is an induction with an operator as its parameter, which the provers
cannot instantiate. What is proved of them for all inputs is what needs no such induction:
the parts `EditsInFront`, `ReachesLines` and `RemovesWord` of `EditsRight`, the part
`ComesBack` of `CacheReturnsContent`, the single steps of `TypedIsReadBack` and
`GlyphsApart`, and the parts `ReadAsWritten` of `PartsRead` and `ReadAsMeant` of
`WrittenIsRead`.

## The plan

What PROJECT.json calls "partly" lacks only what the last section names. What would come next, in this order:

1. **Composition** of UrlHandler with IrcConnection: the phases of UrlHandler's `net` as an
   abstraction of `pc`, with the outages that UrlHandler leaves out.
2. **The raw buffer**, if `/raw` is ever given a place where it fills.

## What is not modelled

Data races on maps, strings and vectors themselves (two threads inside one
`std::map` at a time) are undefined and would end every run; the models take each
call on a container as one step and look at what the interleaving of whole calls
does. Only where a vector's addresses are kept (SearchList) are its elements separate
steps. Addresses are reused in MessageList only; elsewhere a freed client, channel or
holder stays distinguishable. The socket, HTTP, JSON and FreeType libraries are outside the
repository's own code and are modelled by how they are used.

Not modelled at all: `rendering/glad.c` and `glad.h`, the generated loader of OpenGL's
function pointers (almost half of the lines under `src/src/`), shaders, matrices and
drawing calls, which keep no state of their own; the notification services of the
systems; the empty `IrcConnectionPool`; macOS's protocol handler; the upload of a PNG
beyond its use of the task queue, since it is compiled only on request; the clipboard.

Left out of modelled components, because nothing reaches or fills them: embeds and with
them `ImageCache`'s list of dead owners, emotes, the edit mode of the event handler, the raw
buffer, prepended messages, `updateEntry` and `removeEntry`. A missing font file ends the
program at its start. Ports with signs, blanks or more digits than an `int` holds
are left to `atoi`.
