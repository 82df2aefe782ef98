----------------------------- MODULE TextBuffer -----------------------------
(***************************************************************************)
(* The text of an input field: TextWithState (src/src/rendering/text.cc)    *)
(* and the keys TextField and ChatInput turn into its operations            *)
(* (src/src/components/text_field.cc, chat_input.h).  A buffer is a record: *)
(* data, a sequence of code points; text_x, the number of them in front of  *)
(* the cursor; last_point, by which a TextBox knows that its layout is old. *)
(***************************************************************************)
EXTENDS Integers, SequencesExt

TAB == 9   NL == 10   SPACE == 32

EmptyText == [data |-> <<>>, text_x |-> 0, last_point |-> 0]
Changed(b, data, x) == [data |-> data, text_x |-> x, last_point |-> b.last_point + 1]
At(b, x) == [b EXCEPT !.text_x = x]
Before(b) == SubSeq(b.data, 1, b.text_x)
Behind(b) == SubSeq(b.data, b.text_x + 1, Len(b.data))
-----------------------------------------------------------------------------
SetData(b, content) == Changed(b, content, Len(content))
AppendText(b, str) == Changed(b, Before(b) \o str \o Behind(b), b.text_x + Len(str))

\* Mutant: the layout is not told that a character is gone.
RemoveUnseen(b) ==
  IF b.text_x = 0 THEN b
  ELSE [b EXCEPT !.data = Front(Before(b)) \o Behind(b), !.text_x = @ - 1]

RemoveChar(b) ==
  IF b.text_x = 0 THEN b ELSE Changed(b, Front(Before(b)) \o Behind(b), b.text_x - 1)

\* Back to behind the last blank in front of the character before the cursor.
RemoveWord(b) ==
  IF b.text_x = 0 THEN b
  ELSE LET x == Max({0} \cup {i \in 1 .. b.text_x - 1 : b.data[i] \in {SPACE, TAB, NL}})
       IN Changed(b, SubSeq(b.data, 1, x) \o Behind(b), x)

ClearData(b) == Changed(b, <<>>, 0)

MoveLeft(b) == At(b, Max({0, b.text_x - 1}))
MoveRight(b) == At(b, Min({Len(b.data), b.text_x + 1}))

\* The newlines by their place counted from 0, as the loops do.
Newlines(b) == {i \in 0 .. Len(b.data) - 1 : b.data[i + 1] = NL}
MoveUp(b) == At(b, LET up == {i \in Newlines(b) : i < b.text_x}
                   IN IF up = {} THEN b.text_x ELSE Max(up))
MoveDown(b) == At(b, Min({Len(b.data)} \cup {i \in Newlines(b) : i > b.text_x}))
\* A newline that is the first character is passed over.
MoveLineStart(b) == At(b, Max({0} \cup {i \in 2 .. b.text_x : b.data[i] = NL}))
\* A newline that is the last character is passed over.
MoveLineEnd(b) ==
  At(b, Min({Len(b.data)} \cup {i \in Newlines(b) : i >= b.text_x /\ i < Len(b.data) - 1}))
MoveWordBack(b) == At(b, Max({0} \cup {i \in 2 .. b.text_x - 1 : b.data[i] = SPACE}))
MoveWordForward(b) ==
  At(b, Min({Len(b.data)} \cup {i \in b.text_x + 2 .. Len(b.data) - 1 : b.data[i + 1] = SPACE}))

\* Column, line, and the place of the newline before the cursor.
GetCursorPosition(b) ==
  LET lines == {i \in Newlines(b) : i < b.text_x}
  IN [x |-> b.text_x - (IF lines = {} THEN 0 ELSE Max(lines) + 1),
      y |-> Cardinality(lines), lastX |-> Max({0} \cup lines)]

CountChar(b, cp) == Cardinality({i \in DOMAIN b.data : b.data[i] = cp})
-----------------------------------------------------------------------------
(* The keys                                                                 *)

\* TextField::onKey: what a pressed key does, by the keys held with it.
FieldKey(b, key, ctrl, alt) ==
  CASE key = "backspace" -> IF alt THEN RemoveWord(b) ELSE RemoveChar(b)
    [] key = "enter" -> AppendText(b, <<NL>>)
    [] key = "left" -> MoveLeft(b)
    [] key = "right" -> MoveRight(b)
    [] key = "up" \/ (key = "p" /\ ctrl) -> MoveUp(b)
    [] key = "down" \/ (key = "n" /\ ctrl) -> MoveDown(b)
    [] key = "k" /\ ctrl -> ClearData(b)
    [] key = "b" /\ ctrl -> MoveLeft(b)
    [] key = "b" /\ alt /\ ~ctrl -> MoveWordBack(b)
    [] key = "f" /\ ctrl -> MoveRight(b)
    [] key = "f" /\ alt /\ ~ctrl -> MoveWordForward(b)
    [] key = "a" /\ ctrl -> MoveLineStart(b)
    [] key = "e" /\ ctrl -> MoveLineEnd(b)
    [] OTHER -> b

\* ChatInput::onKey's formatting codes: italic, bold, reset, strike, underline.
StyleCode == [i |-> 29, b |-> 2, e |-> 15, s |-> 30, l |-> 31]

\* ChatInput::onKey: input is [text, styleMode, images], images the pasted ones,
\* whose send-file entries ESC deletes with them.
ChatKey(input, key, ctrl, alt) ==
  IF input.styleMode /\ ctrl
  THEN [input EXCEPT !.styleMode = FALSE,
                     !.text = IF key \in DOMAIN StyleCode
                              THEN AppendText(@, <<StyleCode[key]>>) ELSE @]
  ELSE IF key = "escape" /\ input.images # {}
  THEN [input EXCEPT !.images = @ \ {CHOOSE i \in @ : \A j \in @ : j <= i}]
  ELSE IF ctrl /\ key = "s" THEN [input EXCEPT !.styleMode = TRUE]
  ELSE [input EXCEPT !.text = FieldKey(@, key, ctrl, alt)]

\* TextField::onCodePoint and addText; getText is the code points themselves.
TypePoint(b, cp) == AppendText(b, <<cp>>)
-----------------------------------------------------------------------------
(* Properties                                                               *)

LOCAL Texts == UNION {[1 .. n -> {97, SPACE, NL}] : n \in 0 .. 4}
LOCAL Buffers ==
  {[data |-> d, text_x |-> x, last_point |-> 0] : d \in Texts, x \in 0 .. 4}
LOCAL Keys == {"backspace", "enter", "left", "right", "up", "down", "p", "n", "k",
               "b", "f", "a", "e", "s", "x"}
LOCAL Pressed(b) ==
  {ChatKey([text |-> b, styleMode |-> s, images |-> {}], k, c, m).text :
     s \in BOOLEAN, k \in Keys, c \in BOOLEAN, m \in BOOLEAN}

\* text.cc: whatever key is pressed wherever the cursor is, the cursor stays in
\* the text; text changes only in front of the cursor, by characters added or
\* taken away there (Ctrl-K, which empties it, apart); and a layout that is kept
\* until last_point changes (text_box.cc:45) never shows a text that is no longer
\* there.
EditsInFront(b, c) ==
  /\ c.text_x \in 0 .. Len(c.data)
  /\ c.data # b.data =>
       /\ c.last_point # b.last_point
       /\ \/ c.data = <<>>
          \/ /\ Behind(c) = Behind(b)
             /\ IsPrefix(Before(b), c.data) \/ IsPrefix(Before(c), b.data)

\* text.cc:26-52: up goes to the line above, from wherever on a line, and down
\* reaches the end of the line or the line below it: no line is skipped.
ReachesLines(b) ==
  LET y == GetCursorPosition(b).y
      down == GetCursorPosition(MoveDown(b)).y
  IN /\ GetCursorPosition(MoveUp(b)).y = Max({0, y - 1})
     /\ down = y + (IF b.text_x < Len(b.data) /\ b.data[b.text_x + 1] = NL THEN 1 ELSE 0)
     /\ MoveDown(b).text_x > b.text_x \/ b.text_x = Len(b.data)

\* text.cc:77-96: the word that is removed is one that stood in front of the
\* cursor: what is left there ends at a blank, or is nothing.
RemovesWord(b, c) ==
  /\ c.text_x = 0 \/ c.data[c.text_x] \in {SPACE, TAB, NL}
  /\ \A i \in c.text_x + 1 .. b.text_x - 1 : b.data[i] \notin {SPACE, TAB, NL}

\* text.cc, text_field.cc, chat_input.h: each of them, for short texts; that they
\* hold of every text is proved in WindowProofs.
EditsRight ==
  \A b \in Buffers : b.text_x <= Len(b.data) =>
    /\ \A c \in Pressed(b) : EditsInFront(b, c)
    /\ ReachesLines(b)
    /\ RemovesWord(b, RemoveWord(b))
=============================================================================
