------------------------------- MODULE Window -------------------------------
(***************************************************************************)
(* Who gets the keys: the text and mouse receivers of AppState, the popover *)
(* of GuiComponents, the callbacks of src/src/event_receiver.h and what     *)
(* choosing an item of a list does to them.  Of the lists, that of the      *)
(* channels popover is modelled in full (SearchList): besides the user the  *)
(* connection thread fills it, at the end of a LIST or NAMES reply, without *)
(* waiting for the GUI thread.  The others may have any item selected.      *)
(* A callback of the GUI thread is one step, as is each change the          *)
(* connection thread makes.  The network a channel belongs to is constant,  *)
(* channels are not removed (see Channels), and the edit mode, which is     *)
(* never entered, is left out.                                              *)
(***************************************************************************)
EXTENDS SearchList

CONSTANTS Channel, Network,
          Home,          \* the network of a channel
          ChannelSeq,    \* the channels in the order of the networks' maps
          NameOf,        \* what the quick search lists a channel by
          Letter,        \* what may be typed into the list
          EntryName,     \* what a reply lists its entries by
          None,
          MaxItems,      \* bound: entries of a reply
          MaxTyped       \* bound: length of the text

Popovers == {"channels_popover", "user_list", "userInfo", "search", "imageOverlay"}
Lists == {"channel_list", "network_list", "found", "users"}
Receivers == Lists \cup {"chat_input", "info", "search", "message"}
Kinds == {"List", "Names", "QuickSearch"}       \* QueryPopulateType

ASSUME WindowAssumption ==
  /\ Home \in [Channel -> Network]
  /\ NameOf \in [Channel -> Seq(Letter)] /\ EntryName \subseteq Seq(Letter)
  /\ ChannelSeq \in Seq(Channel)
  /\ None \notin Channel \cup Network \cup Popovers \cup Receivers
  /\ MaxItems \in Nat /\ MaxTyped \in Nat

VARIABLES ui,              \* popover, receivers, cursors; network and mode of ChannelList
          found,           \* the search list of the channels popover
          filling,         \* what the connection thread fills the list with, or "post"
          shows,           \* tasks that show a popover, not yet run
          active_network, active,
          listed,          \* whether the message list has messages
          alive,
          stranded,        \* history: the popover went away by a choice in it
          mixed            \* history: both threads filled the list at once

vars == <<ui, found, filling, shows, active_network, active, listed, alive,
          stranded, mixed>>

Item == [name : Seq(Letter), kind : Kinds, of : Channel \cup {None}]

UiType ==
  [popover : Popovers \cup {None}, receiver : Receivers \cup {None},
   mouse : Lists \cup {"message_list"}, cursors : SUBSET Receivers,
   network : BOOLEAN, mode : Kinds, focused : BOOLEAN]

WindowTypeOK ==
  /\ ui \in UiType
  /\ found.items \in Seq(Item) /\ found.text \in Seq(Letter)
  /\ found.index \in -1 .. found.capacity - 1
  /\ found.selected \in 0 .. found.capacity
  /\ filling \in {"no", "List", "Names", "post"}
  /\ shows \in Seq({"channels_popover", "userInfo"})
  /\ active_network \in Network \cup {None} /\ active \in Channel \cup {None}
  /\ active # None => active_network # None
  /\ listed \in BOOLEAN /\ alive \in BOOLEAN
  /\ stranded \in BOOLEAN /\ mixed \in BOOLEAN

\* runGuiLoop: chat_input is the first receiver.
Init ==
  /\ ui = [popover |-> None, receiver |-> "chat_input", mouse |-> "message_list",
           cursors |-> {"chat_input"}, network |-> FALSE, mode |-> "List",
           focused |-> TRUE]
  /\ found = NoList
  /\ filling = "no" /\ shows = <<>>
  /\ active_network = None /\ active = None /\ listed = FALSE
  /\ alive = TRUE /\ stranded = FALSE /\ mixed = FALSE
-----------------------------------------------------------------------------
(* AppState and GuiComponents                                               *)

\* setTextReceiver: onFocus(false) of the old one, onFocus(true) of the new one.
SetTextReceiver(u, recv, mouse_recv) ==
  [u EXCEPT !.receiver = recv, !.mouse = mouse_recv,
            !.cursors = (@ \ {u.receiver}) \cup ({recv} \ {None})]

ToChat(u) == SetTextReceiver(u, "chat_input", "message_list")

\* setActivePopover(nullptr): onFocus(false) of the one that goes.
ClosePopover(u) ==
  CASE u.popover = "channels_popover" -> [u EXCEPT !.popover = None, !.network = FALSE]
    [] u.popover = "search" -> [u EXCEPT !.popover = None, !.cursors = @ \ {"search"}]
    [] OTHER -> [u EXCEPT !.popover = None]

\* setActivePopover(c): onFocus(true) of c alone.
SetActivePopover(u, c) ==
  LET v == [u EXCEPT !.popover = c]
  IN CASE c = "channels_popover" -> SetTextReceiver(v, "found", "found")
       [] c = "user_list" -> SetTextReceiver(v, "users", "users")
       [] c = "userInfo" -> SetTextReceiver(v, "info", "message_list")
       [] c = "search" -> [v EXCEPT !.cursors = @ \cup {"search"}]
       [] c = "imageOverlay" -> v

\* clearList deletes every message; the one with the focus gives it up.
ClearList(u) ==
  IF u.receiver = "message" THEN SetTextReceiver(u, None, "message_list") ELSE u

Goes(u) == ui' = u /\ stranded' = (stranded /\ u.receiver = ui.receiver)
Crash == alive' = FALSE
-----------------------------------------------------------------------------
(* The connection thread: 323, 366 and 318                                  *)

\* initFrom begins: mode, items.clear() and network.
BeginFill(mode) ==
  /\ filling = "no" /\ shows = <<>>
  /\ filling' = mode
  /\ found' = ClearItems(found)
  /\ ui' = [ui EXCEPT !.mode = mode, !.network = TRUE]
  /\ mixed' = FALSE
  /\ UNCHANGED <<shows, active_network, active, listed, alive, stranded>>

Pushing == filling \in {"List", "Names"}
Push(name) ==
  /\ Pushing
  /\ Len(found.items) < MaxItems
  /\ found' = PushItem(found, [name |-> name, kind |-> filling, of |-> None])
  /\ UNCHANGED <<ui, filling, shows, active_network, active, listed, alive, stranded, mixed>>

EndFill ==
  /\ Pushing
  /\ found' \in SetItems(found)
  /\ filling' = "post"
  /\ UNCHANGED <<ui, shows, active_network, active, listed, alive, stranded, mixed>>

\* runLater with the task that shows the popover.
PostShow ==
  /\ filling = "post"
  /\ shows' = Append(shows, "channels_popover")
  /\ filling' = "no"
  /\ UNCHANGED <<ui, found, active_network, active, listed, alive, stranded, mixed>>

\* The end of a WHOIS fills a list of its own.
ShowWhoIs ==
  /\ filling = "no" /\ shows = <<>>
  /\ shows' = Append(shows, "userInfo")
  /\ UNCHANGED <<ui, found, filling, active_network, active, listed, alive, stranded, mixed>>

ConnectionThread ==
  \/ \E mode \in {"List", "Names"} : BeginFill(mode)
  \/ \E name \in EntryName : Push(name)
  \/ EndFill \/ PostShow \/ ShowWhoIs
-----------------------------------------------------------------------------
(* Tasks                                                                    *)

RunShow ==
  /\ shows # <<>>
  /\ shows' = Tail(shows)
  /\ Goes(SetActivePopover(ui, Head(shows)))
  /\ UNCHANGED <<found, filling, active_network, active, listed, alive, mixed>>

RunAddContent ==
  /\ active # None /\ ~listed
  /\ listed' = TRUE
  /\ UNCHANGED <<ui, found, filling, shows, active_network, active, alive, stranded, mixed>>

\* The channel that is shown was left, or its network disconnected.
RunDeactivate ==
  /\ active # None
  /\ active' = None /\ listed' = FALSE
  /\ Goes(ClearList(ui))
  /\ UNCHANGED <<found, filling, shows, active_network, alive, mixed>>
-----------------------------------------------------------------------------
(* What is chosen                                                           *)

\* loadChannel, with the popover to be closed or not.
LoadChannel(ch, removePopover) ==
  IF active_network = Home[ch] /\ active = ch
  THEN UNCHANGED <<ui, stranded, active_network, active, listed>>
  ELSE /\ ui' = ClearList(IF removePopover THEN ClosePopover(ui) ELSE ui)
       /\ stranded' = removePopover
       /\ active_network' = Home[ch] /\ active' = ch
       /\ listed' \in BOOLEAN

\* The callback of the channels popover: JOIN, a query, or a channel.  What is
\* not of the kind it is taken for is not what its address points to.
Choose ==
  /\ ui.receiver = "found" /\ found.selected # 0
  /\ IF Sound(found) /\ found.selected \in DOMAIN found.items
     THEN LET item == found.items[found.selected]
          IN IF ui.network = (ui.mode = "QuickSearch")
            THEN UNCHANGED <<ui, stranded, active_network, active, listed, alive>>
            ELSE IF item.kind # ui.mode
            THEN Crash /\ UNCHANGED <<ui, stranded, active_network, active, listed>>
            ELSE IF item.kind = "QuickSearch"
            THEN LoadChannel(item.of, TRUE) /\ UNCHANGED alive
            ELSE UNCHANGED <<ui, stranded, active_network, active, listed, alive>>
     ELSE Crash /\ UNCHANGED <<ui, stranded, active_network, active, listed>>
  /\ UNCHANGED <<found, filling, shows, mixed>>

\* itemSelected("network"): a network that is not idle is put on display.
ChooseNetwork(n) ==
  /\ ui.receiver = "network_list"
  /\ active_network' = n
  /\ Goes(SetTextReceiver(ui, "channel_list", "channel_list"))
  /\ UNCHANGED <<found, filling, shows, active, listed, alive, mixed>>

\* itemSelected("channel"): the chat input gets the keys, early return or not.
ChooseChannel(ch) ==
  /\ ui.receiver = "channel_list" /\ active_network = Home[ch]
  /\ Goes(ToChat(IF active = ch THEN ui ELSE ClearList(ui)))
  /\ active' = ch
  /\ listed' \in IF active = ch THEN {listed} ELSE BOOLEAN
  /\ UNCHANGED <<found, filling, shows, active_network, alive, mixed>>

\* A user of the list: asks active_network for the prefixes, then a query.
ChooseUser ==
  /\ ui.receiver = "users"
  /\ IF active_network = None THEN Crash ELSE UNCHANGED alive
  /\ UNCHANGED <<ui, found, filling, shows, active_network, active, listed, stranded, mixed>>

\* A channel of the user information: the list was given no callback.
ChooseInfo ==
  /\ ui.receiver = "info"
  /\ Crash
  /\ UNCHANGED <<ui, found, filling, shows, active_network, active, listed, stranded, mixed>>

\* Mutant: the channel of the deleted network stays active.
DelServerKeepsActive ==
  /\ ui.receiver = "chat_input"
  /\ active_network' = None /\ listed' = FALSE
  /\ Goes(ClearList(ui))
  /\ IF active_network = None THEN Crash ELSE UNCHANGED alive
  /\ UNCHANGED <<found, filling, shows, active, mixed>>

\* /delserver, of a network or of none; /disconnect is RunDeactivate.
DelServer ==
  /\ ui.receiver = "chat_input"
  /\ active_network' = None /\ active' = None /\ listed' = FALSE
  /\ Goes(ClearList(ui))
  /\ IF active_network = None THEN Crash ELSE UNCHANGED alive
  /\ UNCHANGED <<found, filling, shows, mixed>>

Enter ==
  \/ Choose \/ (\E n \in Network : ChooseNetwork(n))
  \/ (\E ch \in Channel : ChooseChannel(ch)) \/ ChooseUser \/ ChooseInfo \/ DelServer
-----------------------------------------------------------------------------
(* Keys and the mouse                                                       *)

Only(u) ==
  /\ Goes(u)
  /\ UNCHANGED <<found, filling, shows, active_network, active, listed, alive, mixed>>

\* Mutant: the keys stay with the list of the popover.
EscapeOnly ==
  /\ ui.popover # None
  /\ Only(ClosePopover(ui))

Escape ==
  /\ ui.popover # None
  /\ Only(ToChat(ClosePopover(ui)))

\* Mutant: the mode of the last reply stays.
QuickSearchInMode == ui

ChannelItems ==
  [i \in DOMAIN ChannelSeq |->
     [name |-> NameOf[ChannelSeq[i]], kind |-> "QuickSearch", of |-> ChannelSeq[i]]]

\* ChannelList::initQuickSearch; network is not reset.
QuickSearchMode == [ui EXCEPT !.mode = "QuickSearch"]

\* alt-K: the channels of every network, from the GUI thread.
QuickSearch ==
  /\ found' \in SetItems(PushItems(ClearItems(found), ChannelItems))
  /\ Goes(SetActivePopover(QuickSearchMode, "channels_popover"))
  /\ mixed' = Pushing
  /\ UNCHANGED <<filling, shows, active_network, active, listed, alive>>

\* ctrl-X with U, with D and with G.
UserListKey == active # None /\ Only(SetActivePopover(ui, "user_list"))
ChannelsKey == Only(SetTextReceiver(ui, "channel_list", "channel_list"))
NetworksKey == Only(SetTextReceiver(ui, "network_list", "network_list"))

\* ctrl-shift-P and -N: a message, or behind the last one the chat input.
SelectMessage == listed /\ Only(SetTextReceiver(ui, "message", "message_list"))
SelectNone == listed /\ Only(ToChat(ui))

ChatKeyPressed == Only(ToChat(ui))        \* ctrl-M, or a click on the input
SearchKey == Only(SetTextReceiver(SetActivePopover(ui, "search"), "search", "message_list"))

\* A digit on a message with pictures; the overlay takes no keys.
OverlayKey == ui.receiver = "message" /\ Only(SetActivePopover(ui, "imageOverlay"))

PressMessage == ui.mouse = "message_list" /\ SelectMessage

\* The window loses or gets the focus.
Focus ==
  Only([ui EXCEPT !.focused = ~@,
                  !.cursors = IF ui.receiver = None THEN @
                              ELSE IF ui.focused THEN @ \ {ui.receiver}
                              ELSE @ \cup {ui.receiver}])

\* What the list of the channels popover makes of keys and the mouse; it may be
\* in the middle of being filled, and then what it points to may be gone.
ChangeFound(l) ==
  /\ IF l = found \/ Sound(found) THEN UNCHANGED alive ELSE Crash
  /\ found' = l
  /\ UNCHANGED <<ui, filling, shows, active_network, active, listed, stranded, mixed>>

FoundKeys ==
  /\ ui.receiver = "found"
  /\ \/ \E l \in Letter : Len(found.text) < MaxTyped /\ ChangeFound(TypeInto(found, <<l>>))
     \/ \E key \in {"backspace", "up", "down"} : ChangeFound(ListKey(found, key, FALSE, FALSE))

FoundMouse ==
  /\ ui.mouse = "found"
  /\ \/ \E up \in BOOLEAN : ChangeFound(Wheel(found, up))
     \/ \E row \in Rows(found, 1) : ChangeFound(Press(found, row))

Keys ==
  \/ Escape \/ QuickSearch \/ UserListKey \/ ChannelsKey \/ NetworksKey \/ SelectMessage
  \/ SelectNone \/ ChatKeyPressed \/ SearchKey \/ OverlayKey \/ PressMessage \/ Focus
  \/ FoundKeys \/ FoundMouse

Next ==
  /\ alive
  /\ \/ ConnectionThread \/ RunShow \/ RunAddContent \/ RunDeactivate \/ Enter \/ Keys

Spec == Init /\ [][Next]_vars
-----------------------------------------------------------------------------
(* Properties                                                               *)

\* search_list.cc:110-141: between two fillings, whatever was typed, pressed,
\* scrolled or refilled, the list shows the items that match the text, in order;
\* one of them is selected if there is any, and the index is its place.
SelectionValid ==
  alive /\ ~Pushing =>
    /\ found.given => found.filtered = Found(found.items, found.text)
    /\ found.filtered # <<>> => found.index + 1 \in DOMAIN found.filtered
    /\ found.selected = IF found.filtered = <<>> THEN 0
                        ELSE found.filtered[found.index + 1]

\* gui_components.h:67-82, AppState.cc:87-99, event_receiver.h: the list or field
\* that gets the keys or the mouse is on the screen, unless a choice in it closed
\* its popover; and a cursor is drawn nowhere else.
KeysGoToShown ==
  /\ ui.receiver = "found" => ui.popover = "channels_popover" \/ stranded
  /\ ui.receiver = "users" => ui.popover = "user_list" \/ stranded
  /\ ui.receiver = "info" => ui.popover = "userInfo" \/ stranded
  /\ ui.receiver = "search" => ui.popover = "search" \/ stranded
  /\ ui.receiver = "message" => listed
  /\ ui.mouse \in Lists => ui.mouse = ui.receiver
  /\ ui.cursors \subseteq {ui.receiver}

\* channel_list.cc:6-26: the pointer of the item that is chosen is taken for what
\* it is, a channel, an entry of a LIST or of a NAMES reply, whatever was asked
\* and closed before, unless both threads filled the list at the same time.
KindsKept ==
  ~Pushing /\ ~mixed => \A i \in DOMAIN found.items : found.items[i].kind = ui.mode
-----------------------------------------------------------------------------
(* What makes them inductive                                                *)

ListType ==
  [items : Seq(Item), capacity : Nat, moved : BOOLEAN, given : BOOLEAN,
   filtered : Seq(Nat), selected : Nat, index : Int, text : Seq(Letter)]

\* The addresses that are kept are of places the vector had once.
Addresses(l) ==
  /\ l \in ListType
  /\ Len(l.items) <= l.capacity
  /\ \A i \in DOMAIN l.filtered : l.filtered[i] \in 1 .. l.capacity
  /\ Len(l.filtered) <= l.capacity

\* Also while the list is being filled: the selected item is the one at the index.
Selected(l) ==
  /\ l.filtered = <<>> => l.selected = 0 /\ l.index = -1
  /\ l.filtered # <<>> => /\ l.index + 1 \in DOMAIN l.filtered
                          /\ l.selected = l.filtered[l.index + 1]
  /\ ~l.given => l.filtered = <<>>

\* The list shows what matches.
Fresh(l) == l.given => l.filtered = Found(l.items, l.text)

\* A channel's item knows its channel.
ItemsOfChannels ==
  \A i \in DOMAIN found.items :
    found.items[i].kind = "QuickSearch" => found.items[i].of \in Channel

\* While one thread fills the list, it fills it with one kind.
KindFilled ==
  Pushing /\ ~mixed => /\ ui.mode = filling
                       /\ \A i \in DOMAIN found.items : found.items[i].kind = filling

UiOK == ui \in UiType /\ KeysGoToShown
ListOK ==
  /\ Addresses(found) /\ Selected(found) /\ ItemsOfChannels
  /\ (alive /\ ~Pushing => Fresh(found)) /\ KindFilled /\ KindsKept
RestOK ==
  /\ filling \in {"no", "List", "Names", "post"}
  /\ shows \in Seq({"channels_popover", "userInfo"})
  /\ active_network \in Network \cup {None} /\ active \in Channel \cup {None}
  /\ active # None => active_network # None
  /\ listed \in BOOLEAN /\ alive \in BOOLEAN
  /\ stranded \in BOOLEAN /\ mixed \in BOOLEAN

WindowInv == UiOK /\ ListOK /\ RestOK
=============================================================================
