---------------------------- MODULE MessageList ----------------------------
(***************************************************************************)
(* MessageList and RenderMessage (src/src/components/message_list.cc) with  *)
(* ImageCache (irc/image_cache.cc), Image (rendering/image.h) and the image *)
(* overlay: the messages that are shown, which of them has the keys, where  *)
(* the view stands, the search in it, and the pictures their links name,    *)
(* fetched by the HTTP client's thread.  A step is one callback of the GUI  *)
(* thread, one task or one answer.  A height is in lines; a picture has     *)
(* one.  Left out, because nothing calls or fills it: a prepended message,  *)
(* updateEntry, removeEntry, embeds, and with them the list of the dead.    *)
(***************************************************************************)
EXTENDS Integers, FiniteSets, SequencesExt

CONSTANTS Content,     \* what is said, and
          PicturesOf,  \* the picture links in it, in their order
          Broken,      \* links to a JPEG that cannot be read
          Has,         \* the texts a search finds in it
          Reloads,     \* what a channel that is loaded holds
          Heights,     \* the heights the window gives the list
          MaxMade,     \* bound: messages that are made
          MaxListed    \* bound: messages that are shown

Url == UNION {ToSet(PicturesOf[c]) : c \in Content}
Text == UNION {Has[c] : c \in Content}

ASSUME MessageListAssumption ==
  /\ \A c \in Content : PicturesOf[c] \in Seq(Url)
  /\ Reloads \subseteq Seq(Content)
  /\ Heights \subseteq Nat /\ Heights # {}
  /\ MaxMade \in Nat /\ MaxListed \in Nat

VARIABLES messages,        \* the messages in their order
          view,            \* current_offset, height and available_height
          selected_index,  \* counted from the end
          receiver,        \* who has the keys: a message's id or one of these:
          search,          \* the popover, and what MessageList::render keeps of it
          images,          \* ImageCache::images: how old an entry is
          requests,        \* the HTTP client's queue
          tasks,           \* pictures waiting for the GUI thread
          overlay,         \* the picture of the overlay, none or one
          made,            \* messages made so far
          failed,          \* history: links of messages that are no picture
          moved,           \* history: a search moved the selection
          alive

pictures == <<images, requests, tasks, failed>>
vars == <<messages, view, selected_index, receiver, search, pictures, overlay, made, moved,
          alive>>

CHAT == 0   SEARCH == -1   NOBODY == -2
NoText == "no text"

Pixels == {"none", "pixels"}
Picture == [url : Url, for : 1 .. MaxMade, lines : Nat, data : Pixels, texture : Pixels,
            decoded : BOOLEAN, canBeDecoded : BOOLEAN, valid : BOOLEAN]
Message == [id : 1 .. MaxMade, content : Content, at : Nat, start : Nat, height : Nat,
            loading : BOOLEAN, images : Seq(Picture)]
Request == [url : Url, owner : 1 .. MaxMade, at : Nat]

Init ==
  /\ messages = <<>>
  /\ \E h \in Heights : view = [offset |-> 0, height |-> 0, available |-> h]
  /\ selected_index = -1 /\ receiver = CHAT
  /\ search = [open |-> FALSE, text |-> NoText, next |-> FALSE,
               last |-> NoText, index |-> -1, result |-> 0]
  /\ images = [u \in Url |-> "absent"]
  /\ requests = <<>> /\ tasks = <<>> /\ overlay = <<>>
  /\ made = 0 /\ failed = <<>> /\ moved = FALSE /\ alive = TRUE
-----------------------------------------------------------------------------
(* Image                                                                    *)

\* init: the pixels are decoded again if they were let go, and a texture made of
\* what there is.
InitImage(i) ==
  LET d == IF ~i.decoded /\ i.canBeDecoded
           THEN [i EXCEPT !.data = "pixels", !.decoded = TRUE] ELSE i
  IN IF i.valid THEN i
     ELSE IF ~d.decoded THEN [d EXCEPT !.canBeDecoded = FALSE]
     ELSE [d EXCEPT !.valid = TRUE, !.texture = d.data]

\* Image(ImageCacheEntry*): a JPEG that does not begin as one is never decoded,
\* its width and height are what was there.
NewImage(url, owner, lines) ==
  InitImage([url |-> url, for |-> owner, lines |-> IF url \in Broken THEN lines ELSE 1,
             data |-> "none", texture |-> "none", decoded |-> FALSE,
             canBeDecoded |-> url \notin Broken, valid |-> FALSE])

\* Mutant: unref does not note that the pixels are gone.
UnrefKeepsDecoded(i) ==
  IF i.valid THEN [i EXCEPT !.valid = FALSE, !.texture = "none", !.data = "none"] ELSE i

Unref(i) ==
  IF ~i.valid THEN i
  ELSE IF ~i.canBeDecoded THEN [i EXCEPT !.valid = FALSE, !.texture = "none"]
  ELSE [i EXCEPT !.valid = FALSE, !.texture = "none", !.data = "none", !.decoded = FALSE]

\* Image(data, w, h): the overlay's copy is never decoded.
CopyImage(i) ==
  InitImage([i EXCEPT !.decoded = TRUE, !.canBeDecoded = FALSE, !.valid = FALSE])
-----------------------------------------------------------------------------
(* Heights and the view                                                     *)

\* What the first 0, 1, 2, ... numbers of a sequence add up to.
Totals(numbers) ==
  LET total[n \in 0 .. Len(numbers)] ==
        IF n = 0 THEN 0 ELSE total[n - 1] + numbers[n]
  IN total

GetHeight(m) ==
  1 + Totals([k \in DOMAIN m.images |-> m.images[k].lines])[Len(m.images)]

End(v) == v.height - v.available

\* Mutant: the view stays where it was.
ViewKept(v, height) ==
  [v EXCEPT !.height = height, !.offset = IF height < v.available THEN 0 ELSE @]

\* The second half of recomputeHeights: a view at the end stays there.
ViewFor(v, height) ==
  LET bottom == v.offset = End(v) /\ v.offset # 0
  IN [v EXCEPT !.height = height,
               !.offset = IF height < v.available THEN 0
                          ELSE IF bottom THEN height - v.available ELSE @]

\* recomputeHeights
Placed(list) ==
  LET tops == Totals([i \in DOMAIN list |-> GetHeight(list[i])])
  IN [list |-> [i \in DOMAIN list |-> [list[i] EXCEPT !.start = tops[i - 1],
                                                     !.height = GetHeight(list[i])]],
      height |-> tops[Len(list)]]
RecomputeHeights(list, v) ==
  /\ messages' = Placed(list).list
  /\ view' = ViewFor(v, Placed(list).height)

ScrollEnd ==
  /\ view' = [view EXCEPT !.offset = End(view)]
  /\ UNCHANGED <<messages, selected_index, receiver, search, pictures, overlay, made, moved>>

ChangeScroll(by) ==
  /\ LET out == view.offset + by
     IN view' = [view EXCEPT !.offset = IF out <= 0 THEN 0
                                        ELSE IF out > End(view) THEN End(view) ELSE out]
  /\ UNCHANGED <<messages, selected_index, receiver, search, pictures, overlay, made, moved>>
-----------------------------------------------------------------------------
(* Messages                                                                 *)

\* Where a new message may be: at the address of a deleted one that a request or
\* a task still has, or elsewhere.
Used == {messages[i].at : i \in DOMAIN messages}
Kept == {requests[k].at : k \in DOMAIN requests} \cup {tasks[k].at : k \in DOMAIN tasks}
Addresses(used, n) ==
  LET free == (1 .. MaxMade + n) \ (Kept \cup used)
  IN (Kept \ used) \cup {k \in free : Cardinality({j \in free : j < k}) < n}

\* The links, in their order, that are in a set: of the first 0, 1, 2, ... links.
AmongFirst(links, set) ==
  LET among[n \in 0 .. Len(links)] ==
        IF n = 0 THEN <<>>
        ELSE IF links[n] \in set THEN Append(among[n - 1], links[n]) ELSE among[n - 1]
  IN among
Among(links, set) == AmongFirst(links, set)[Len(links)]

\* The constructor of RenderMessage: each picture is there at once, if it was
\* fetched less than 25 minutes ago, or asked for.
Fetched == {u \in Url : images[u] = "fresh"}
NewMessage(id, content, at, lines) ==
  [id |-> id, content |-> content, at |-> at, start |-> 0, height |-> 0, loading |-> FALSE,
   images |-> LET have == Among(PicturesOf[content], Fetched)
              IN [i \in DOMAIN have |-> NewImage(have[i], id, lines)]]
Asks(id, content, at) ==
  LET lack == Among(PicturesOf[content], Url \ Fetched)
  IN [i \in DOMAIN lack |-> [url |-> lack[i], owner |-> id, at |-> at]]

\* Mutant: the selection is not moved along.
AddContentOnly(content) ==
  /\ made < MaxMade /\ Len(messages) < MaxListed
  /\ made' = made + 1
  /\ \E at \in Addresses(Used, 1), lines \in {0, 2} :
       /\ requests' = requests \o Asks(made + 1, content, at)
       /\ RecomputeHeights(Append(messages, NewMessage(made + 1, content, at, lines)), view)
  /\ UNCHANGED <<selected_index, receiver, search, images, tasks, overlay, failed, moved>>

\* addContent of a message that has arrived.
AddContent(content) ==
  /\ made < MaxMade /\ Len(messages) < MaxListed
  /\ made' = made + 1
  /\ \E at \in Addresses(Used, 1), lines \in {0, 2} :
       /\ requests' = requests \o Asks(made + 1, content, at)
       /\ RecomputeHeights(Append(messages, NewMessage(made + 1, content, at, lines)), view)
  /\ selected_index' = IF selected_index = -1 THEN -1 ELSE selected_index + 1
  /\ UNCHANGED <<receiver, search, images, tasks, overlay, failed, moved>>

\* activateChannel: clearList, in which a message with the keys gives them up,
\* addContent of what the channel holds, scrollEnd.
LoadChannel(contents) ==
  LET n == Len(contents)
  IN /\ made + n <= MaxMade
     /\ made' = made + n
     /\ \E at \in [1 .. n -> Addresses({}, n)] :
          /\ IsInjective(at)
          /\ LET list == [i \in 1 .. n |-> NewMessage(made + i, contents[i], at[i], 0)]
                 height == Placed(list).height
             IN /\ messages' = Placed(list).list
                /\ view' = [view EXCEPT !.height = height, !.offset = height - view.available]
          /\ requests' = requests \o FlattenSeq([i \in 1 .. n |->
                                                   Asks(made + i, contents[i], at[i])])
     /\ selected_index' = -1
     /\ search' = [search EXCEPT !.index = -1, !.result = 0]
     /\ \/ receiver' = IF receiver > 0 THEN NOBODY ELSE receiver
        \/ receiver' = CHAT
     /\ failed' = <<>> /\ moved' = FALSE
     /\ UNCHANGED <<images, tasks, overlay>>
-----------------------------------------------------------------------------
(* The keys                                                                 *)

Selected == messages[Len(messages) - selected_index]

\* selectIndex: behind the newest message is the chat input.
SelectIndex(diff) ==
  LET target == selected_index + diff
  IN /\ target # -2 /\ target # Len(messages)
     /\ selected_index' = target
     /\ receiver' = IF target < 0 THEN CHAT ELSE messages[Len(messages) - target].id
     /\ moved' = FALSE
     /\ UNCHANGED <<messages, view, search, pictures, overlay, made>>

\* onMousePress, on a message that was drawn.
Press(i) ==
  /\ messages[i].loading
  /\ selected_index' = Len(messages) - i
  /\ receiver' = messages[i].id
  /\ moved' = FALSE
  /\ UNCHANGED <<messages, view, search, pictures, overlay, made>>

\* Q of a message, Ctrl+M, a press on the chat input.
ToChat ==
  /\ receiver' = CHAT
  /\ UNCHANGED <<messages, view, selected_index, search, pictures, overlay, made, moved>>

\* onKey of a message, 1 to 9: ImageOverlay::initFrom.  Copying what could not be
\* decoded reads pixels that are not there.
OpenImage(i, num) ==
  /\ messages[i].id = receiver
  /\ num \in DOMAIN messages[i].images
  /\ LET src == InitImage(messages[i].images[num])
     IN /\ messages' = [messages EXCEPT ![i].images[num] =
                          IF @.decoded THEN @ ELSE src]
        /\ overlay' = <<CopyImage(src)>>
  /\ UNCHANGED <<view, selected_index, receiver, search, pictures, made, moved>>
-----------------------------------------------------------------------------
(* The search                                                               *)

OpenSearch ==
  /\ search' = [search EXCEPT !.open = TRUE, !.text = NoText]
  /\ receiver' = SEARCH
  /\ UNCHANGED <<messages, view, selected_index, pictures, overlay, made, moved>>

\* A key in the popover: a text, Enter, Escape.
SearchKey ==
  /\ receiver = SEARCH
  /\ \/ \E t \in Text : search' = [search EXCEPT !.text = t] /\ UNCHANGED receiver
     \/ search' = [search EXCEPT !.next = TRUE] /\ UNCHANGED receiver
     \/ search' = [search EXCEPT !.open = FALSE] /\ receiver' = CHAT
  /\ UNCHANGED <<messages, view, selected_index, pictures, overlay, made, moved>>

Searches == search.open /\ search.text # NoText

\* The index of what the first half of render finds, 0 for nothing: the next one
\* from the last, or from the beginning.
Hits(from) == {i \in from .. Len(messages) : search.text \in Has[messages[i].content]}
FoundAt(next) ==
  LET from == IF next /\ search.text = search.last THEN search.index + 2 ELSE 1
      hits == IF Hits(from) = {} /\ next THEN Hits(1) ELSE Hits(from)
  IN IF hits = {} THEN 0 ELSE Min(hits)

\* MessageList::render up to the drawing; afterwards the view shows what was found.
Looked(list, v) ==
  LET next == search.next /\ search.index > -1
      at == FoundAt(next)
  IN IF ~Searches
     THEN /\ search' = [search EXCEPT !.last = NoText, !.index = -1, !.result = 0]
          /\ view' = v
          /\ UNCHANGED <<selected_index, moved>>
     ELSE IF search.text = search.last /\ ~next
     THEN /\ search' = [search EXCEPT !.next = FALSE]
          /\ view' = v
          /\ UNCHANGED <<selected_index, moved>>
     ELSE /\ search' = [search EXCEPT !.next = FALSE, !.last = search.text, !.index = at - 1,
                                      !.result = IF at = 0 THEN 0 ELSE list[at].id]
          /\ selected_index' = IF at = 0 THEN selected_index ELSE Len(list) - at
          /\ moved' = (moved \/ at # 0)
          /\ view' = IF at = 0 THEN v
                     ELSE [v EXCEPT !.offset = Min({list[at].start, End(v)})]
-----------------------------------------------------------------------------
(* A frame                                                                  *)

Visible(m, v) == m.start + m.height >= v.offset /\ m.start <= v.offset + v.available

\* disposeImages or fetchImages and render.
Drawn(m, v) ==
  IF Visible(m, v)
  THEN [m EXCEPT !.loading = TRUE, !.images = [i \in DOMAIN @ |-> InitImage(@[i])]]
  ELSE IF m.loading
  THEN [m EXCEPT !.loading = FALSE, !.images = [i \in DOMAIN @ |-> Unref(@[i])]]
  ELSE m

\* GuiComponents::render: setWidth and setAvailableHeight, each of which computes
\* the heights, and MessageList::render.  A picture may be handed over behind the
\* block of render that runs the tasks, and so be waiting.
Draw(available) ==
  /\ LET list == Placed(messages).list
         height == Placed(messages).height
         v == ViewFor([ViewFor(view, height) EXCEPT !.available = available], height)
     IN /\ Looked(list, v)
        /\ messages' = [i \in DOMAIN list |-> Drawn(list[i], view')]
  /\ UNCHANGED <<receiver, pictures, overlay, made>>
-----------------------------------------------------------------------------
(* The HTTP client's thread and its tasks                                   *)

\* The answer to the first request: nothing, something that is no picture, or a
\* picture, which is kept and handed over.
Answer ==
  /\ requests # <<>>
  /\ requests' = Tail(requests)
  /\ LET r == Head(requests)
     IN \/ /\ failed' = Append(failed, r)
           /\ UNCHANGED <<images, tasks>>
        \/ /\ images' = [images EXCEPT ![r.url] = "fresh"]
           /\ tasks' = Append(tasks, r)
           /\ UNCHANGED failed
  /\ UNCHANGED <<messages, view, selected_index, receiver, search, overlay, made, moved>>

\* The message at the address a task has: its owner, or one made there since.
At(t) == {i \in DOMAIN messages : messages[i].at = t.at}

\* The task of RenderMessage::fetchImage.
RunTask ==
  /\ tasks # <<>>
  /\ At(Head(tasks)) # {}
  /\ tasks' = Tail(tasks)
  /\ \E i \in At(Head(tasks)), lines \in {0, 2} :
       messages' = [messages EXCEPT ![i].images =
                      Append(@, NewImage(Head(tasks).url, Head(tasks).owner, lines))]
  /\ UNCHANGED <<view, selected_index, receiver, search, images, requests, overlay, made,
                 failed, moved>>

\* A message that was deleted while its picture was fetched: the memory may still
\* be as it was, or not.
RunTaskOfFreed ==
  /\ tasks # <<>>
  /\ At(Head(tasks)) = {}
  /\ tasks' = Tail(tasks)
  /\ alive' \in BOOLEAN
  /\ UNCHANGED <<messages, view, selected_index, receiver, search, images, requests, overlay,
                 made, failed, moved>>

\* The HTTP thread assigns an entry from which the GUI thread is making a picture.
AnswerMeetsRead ==
  /\ requests # <<>> /\ tasks # <<>>
  /\ images[Head(requests).url] # "absent" /\ Head(tasks).url = Head(requests).url
  /\ alive' = FALSE
  /\ UNCHANGED <<messages, view, selected_index, receiver, search, pictures, overlay, made,
                 moved>>

\* 25 minutes pass.
Age(u) ==
  /\ images[u] = "fresh"
  /\ images' = [images EXCEPT ![u] = "old"]
  /\ UNCHANGED <<messages, view, selected_index, receiver, search, requests, tasks, overlay,
                 made, failed, moved>>

Next ==
  /\ alive
  /\ \/ /\ \/ \E c \in Content : AddContent(c)
           \/ \E cs \in Reloads : LoadChannel(cs)
           \/ \E d \in {-1, 1} : SelectIndex(d) \/ ChangeScroll(d)
           \/ \E i \in DOMAIN messages :
                Press(i) \/ \E num \in DOMAIN messages[i].images : OpenImage(i, num)
           \/ ToChat \/ ScrollEnd \/ OpenSearch \/ SearchKey
           \/ \E h \in Heights : Draw(h)
           \/ Answer \/ RunTask \/ \E u \in Url : Age(u)
        /\ UNCHANGED alive
     \/ RunTaskOfFreed
     \/ AnswerMeetsRead

Spec == Init /\ [][Next]_vars
-----------------------------------------------------------------------------
(* Properties                                                               *)

\* message_list.cc:147-163,242-289,364-376: the keys go to a message of the list
\* that is the selected one, however many came behind it, unless a search moved
\* the selection away from it.
SelectedHasKeys ==
  /\ selected_index \in -1 .. Len(messages) - 1
  /\ receiver > 0 => /\ \E i \in DOMAIN messages : messages[i].id = receiver
                     /\ ~moved => selected_index >= 0 /\ Selected.id = receiver
  /\ search.result > 0 => /\ search.index < Len(messages)
                          /\ messages[search.index + 1].id = search.result

\* message_list.cc:313-363, image_cache.cc:8-80, image.h: every picture link of a
\* message is asked for, on its way, shown or no picture, once; a picture that
\* has a texture has one of its pixels, however often it went out of view.
Count(seq, set) == Cardinality({k \in DOMAIN seq : seq[k] \in set})
Asked(u, id) == [url : {u}, owner : {id}, at : Nat]
Shown(u, id) == {p \in Picture : p.url = u /\ p.for = id}
PicturesRight ==
  /\ \A i \in DOMAIN messages, u \in Url :
       LET m == messages[i]
       IN Count(PicturesOf[m.content], {u})
            = Count(m.images, Shown(u, m.id))
              + Count(requests \o tasks \o failed, Asked(u, m.id))
  /\ \A p \in ToSet(overlay) \cup UNION {ToSet(messages[i].images) : i \in DOMAIN messages} :
       p.url \notin Broken => (p.valid <=> p.texture = "pixels")

\* message_list.cc:191-212: a view at the end is at the end after new messages
\* and pictures, unless the user scrolls or searches or the window changes.
FollowsEnd ==
  [][(/\ view.offset = End(view) /\ view.offset > 0
      /\ view'.height # view.height /\ view'.available = view.available
      /\ search' = search)
       => IF End(view') < 0 THEN view'.offset <= 0 ELSE view'.offset = End(view')]_vars
-----------------------------------------------------------------------------
(* The inductive invariant of the proofs                                    *)

TypeOK ==
  /\ messages \in Seq(Message)
  /\ view \in [offset : Int, height : Nat, available : Nat]
  /\ search \in [open : BOOLEAN, text : Text \cup {NoText}, next : BOOLEAN,
                 last : Text \cup {NoText}, index : Nat \cup {-1}, result : 0 .. MaxMade]
  /\ images \in [Url -> {"absent", "fresh", "old"}]
  /\ requests \in Seq(Request) /\ tasks \in Seq(Request) /\ failed \in Seq(Request)
  /\ overlay \in Seq(Picture)
  /\ made \in 0 .. MaxMade /\ receiver \in {CHAT, SEARCH, NOBODY} \cup 1 .. MaxMade
  /\ moved \in BOOLEAN

\* A result is at a place.
ResultPlaced == search.result > 0 => search.index >= 0

\* A message has its number and its address for itself, and a number yet to be
\* given is nowhere.
Alone ==
  /\ \A i, j \in DOMAIN messages :
       messages[i].id = messages[j].id \/ messages[i].at = messages[j].at => i = j
  /\ \A i \in DOMAIN messages : messages[i].id <= made
Known == \A r \in ToSet(requests \o tasks \o failed) : r.owner <= made

\* What was asked for a message finds that one, unless it was deleted.
Addressed ==
  \A r \in ToSet(requests \o tasks), i \in DOMAIN messages :
    r.owner = messages[i].id => r.at = messages[i].at

\* The pixels are there when a picture says so, and can be read again.
Sound(p) ==
  /\ p.decoded <=> p.data = "pixels"
  /\ p.valid <=> p.texture = "pixels"
  /\ p.valid => p.decoded
PixelsThere ==
  /\ \A i \in DOMAIN messages : \A p \in ToSet(messages[i].images) :
       p.url \notin Broken => Sound(p) /\ p.canBeDecoded
  /\ \A p \in ToSet(overlay) : p.url \notin Broken => Sound(p)

IInv ==
  /\ TypeOK /\ ResultPlaced /\ SelectedHasKeys
  /\ Alone /\ Known /\ Addressed /\ PixelsThere /\ PicturesRight
=============================================================================
