------------------------------ MODULE RichText ------------------------------
(***************************************************************************)
(* How a message is drawn: the formatting codes (rendering/text_box.cc,     *)
(* preprocess; irc/message_util.cc), its lines, underlines and cursor       *)
(* (text_box.cc, computeHeight and render) and the links found in it (the   *)
(* constructor of RenderMessage).  A text is a sequence of character codes, *)
(* a width or an offset a number of cells, a height a number of lines.      *)
(***************************************************************************)
EXTENDS Integers, FiniteSets, SequencesExt

COLOR == 3   HEX == 4   NL == 10   RESET == 15   REVERSE == 22   COMMA == 44
Digits == 48 .. 57

\* What a code switches over.
Toggles == (2 :> "bold") @@ (29 :> "italics") @@ (31 :> "underline")
             @@ (30 :> "strikethrough") @@ (17 :> "monospace")
Codes == DOMAIN Toggles \cup {COLOR, HEX, RESET, REVERSE}

OWN == -1  TRANSPARENT == -2
\* IRC_COLORS: sixteen are set, the others are all zero.
IRCColors == [c \in 0 .. 98 |-> IF c < 16 THEN c ELSE TRANSPARENT]
-----------------------------------------------------------------------------
(* The formatting codes                                                     *)

\* An element of the text, or what is read behind its end.
Element(text, past, i) == IF i <= Len(text) THEN text[i] ELSE past

\* The digits of a number at i, two at most.
NumberLength(text, past, i) ==
  IF Element(text, past, i) \notin Digits THEN 0
  ELSE IF Element(text, past, i + 1) \in Digits THEN 2 ELSE 1
Number(text, past, i) ==
  FoldLeft(LAMBDA n, k : 10 * n + Element(text, past, i + k - 1) - 48, 0,
           [k \in 1 .. NumberLength(text, past, i) |-> k])

\* How many elements behind the colour code at i belong to it.
ColorLength(text, past, i) ==
  LET fg == NumberLength(text, past, i + 1)
      bg == NumberLength(text, past, i + fg + 2)
  IN IF fg > 0 /\ bg > 0 /\ Element(text, past, i + fg + 1) = COMMA THEN fg + 1 + bg ELSE fg

CodeLength(text, past, i) ==
  CASE text[i] = HEX -> 6
    [] text[i] = COLOR -> ColorLength(text, past, i)
    [] OTHER -> 0

Plain == [bold |-> FALSE, italics |-> FALSE, underline |-> FALSE, strikethrough |-> FALSE,
          monospace |-> FALSE, color |-> OWN]

AfterColor(on, text, past, i) ==
  IF Element(text, past, i + 1) = COMMA THEN [on EXCEPT !.color = OWN]
  ELSE IF NumberLength(text, past, i + 1) = 0 THEN on
  ELSE LET cc == Number(text, past, i + 1)
       IN [on EXCEPT !.color = IF cc = 99 THEN OWN ELSE IRCColors[cc]]

AfterCode(on, text, past, i) ==
  CASE text[i] \in DOMAIN Toggles -> [on EXCEPT ![Toggles[text[i]]] = ~@]
    [] text[i] = RESET -> Plain
    [] text[i] = COLOR -> AfterColor(on, text, past, i)
    [] OTHER -> on

RichChar(cp, on, style) ==
  [cp |-> cp, underline |-> on.underline, strikethrough |-> on.strikethrough,
   color |-> on.color,
   style |-> IF on.bold /\ on.italics THEN "bold_italic"
             ELSE IF on.bold THEN "bold" ELSE IF on.italics THEN "italic" ELSE style]

\* TextBox::preprocess
Preprocess(text, past, rich, style) ==
  FoldLeft(LAMBDA r, i :
             IF i < r.next THEN r
             ELSE IF rich /\ text[i] \in Codes
             THEN [r EXCEPT !.next = i + 1 + CodeLength(text, past, i),
                            !.on = AfterCode(@, text, past, i)]
             ELSE [r EXCEPT !.chars = Append(@, RichChar(text[i], r.on, style))],
           [chars |-> <<>>, on |-> Plain, next |-> 1],
           [i \in DOMAIN text |-> i]).chars

\* IrcMessageUtil::stripMessage; behind the end of a std::string is a zero.
StripMessage(text) ==
  FoldLeft(LAMBDA r, i :
             IF i < r.next THEN r
             ELSE IF text[i] \in Codes THEN [r EXCEPT !.next = i + 1 + CodeLength(text, 0, i)]
             ELSE [r EXCEPT !.plain = Append(@, text[i])],
           [plain |-> <<>>, next |-> 1],
           [i \in DOMAIN text |-> i]).plain
-----------------------------------------------------------------------------
(* Lines.  Adv is the advance of a character, w the width of the box.       *)

\* TextBox::computeHeight
ComputeHeight(chars, Adv, w, preclude) ==
  FoldLeft(LAMBDA r, ch :
             IF ch.cp = NL THEN [size |-> r.size + 1, advance |-> 0]
             ELSE IF r.advance + Adv[ch.cp] >= w
             THEN [size |-> r.size + 1, advance |-> Adv[ch.cp]]
             ELSE [r EXCEPT !.advance = @ + Adv[ch.cp]],
           [size |-> preclude, advance |-> 0], chars).size

\* The lines render makes room for, if the box may grow.
AddedLines(chars, Adv, w) ==
  LET r == FoldLeft(LAMBDA r, ch :
                      IF ch.cp = NL THEN [n |-> r.n + 1 + r.offset \div w, offset |-> 0]
                      ELSE [r EXCEPT !.offset = @ + Adv[ch.cp]],
                    [n |-> 0, offset |-> 0], chars)
  IN r.n + r.offset \div w

\* renderLine: a line below or through the cells of a text line.
Stroke(low, line, from, to) == [low |-> low, line |-> line, from |-> from, to |-> to]
INACTIVE == -1
Strokes(r) ==
  (IF r.strikethrough = INACTIVE THEN {} ELSE {Stroke(FALSE, r.line, r.strikethrough, r.offset)})
    \cup (IF r.underline = INACTIVE THEN {} ELSE {Stroke(TRUE, r.line, r.underline, r.offset)})
FromStart(start) == IF start = INACTIVE THEN INACTIVE ELSE 0

\* The end of a line; a box that does not grow stops behind its last one.
NewLine(r, grow) ==
  [r EXCEPT !.strokes = @ \cup Strokes(r),
            !.strikethrough = FromStart(@), !.underline = FromStart(@),
            !.line = @ + 1, !.offset = 0,
            !.stopped = ~grow /\ r.line + 1 >= r.room]

\* Begin or end the underline and the strikethrough; one that ends within a line
\* is drawn low, whichever it is.
Marked(r, ch, mark) ==
  IF ch[mark] /\ r[mark] = INACTIVE THEN [r EXCEPT ![mark] = r.offset]
  ELSE IF ~ch[mark] /\ r[mark] # INACTIVE
  THEN [r EXCEPT ![mark] = INACTIVE, !.strokes = @ \cup {Stroke(TRUE, r.line, r[mark], r.offset)}]
  ELSE r

WithCursor(r, text_x) ==
  IF r.seen = text_x /\ ~r.stopped THEN [r EXCEPT !.cursor = <<r.offset, r.line>>] ELSE r

Put(r, ch, adv) ==
  [r EXCEPT !.entries = Append(@, [ch |-> ch, x |-> r.offset, line |-> r.line]),
            !.offset = @ + adv]

DrawChar(r, ch, adv, w, grow, text_x) ==
  LET s == [r EXCEPT !.seen = @ + 1]
      t == IF w > 0 /\ s.offset + adv >= w THEN NewLine(s, grow) ELSE s
  IN IF r.stopped THEN r
     ELSE IF ch.cp = NL THEN WithCursor(NewLine(s, grow), text_x)
     ELSE IF t.stopped THEN t
     ELSE WithCursor(Put(Marked(Marked(t, ch, "underline"), ch, "strikethrough"), ch, adv),
                     text_x)

\* TextBox::render: room is how many lines the box has.
Render(chars, Adv, w, room, grow, text_x) ==
  LET r == FoldLeft(LAMBDA q, ch : DrawChar(q, ch, Adv[ch.cp], w, grow, text_x),
                    [entries |-> <<>>, strokes |-> {}, cursor |-> <<0, 0>>, seen |-> 0,
                     offset |-> 0, line |-> 0, room |-> room,
                     underline |-> INACTIVE, strikethrough |-> INACTIVE, stopped |-> FALSE],
                    chars)
  IN [r EXCEPT !.strokes = @ \cup Strokes(r)]
-----------------------------------------------------------------------------
(* Links.  Here a text is made of words such as "http", "https", ".png" and *)
(* letters, and "|" is any character that ends a link.                      *)

Schemes == {"http", "https"}
First(text, from, token) == SelectInSubSeq(text, from, Len(text), LAMBDA t : t = token)

\* The loop of the constructor, from a place of the text: "http://" is looked for
\* first.
Links(text) ==
  LET found[from \in 1 .. Len(text) + 1] ==
        LET plain == First(text, from, "http")
            res == IF plain # 0 THEN plain ELSE First(text, from, "https")
            end == First(text, res, "|")
        IN IF res = 0 THEN <<>>
           ELSE IF end = 0 THEN <<SubSeq(text, res, Len(text))>>
           ELSE <<SubSeq(text, res, end - 1)>> \o found[end]
  IN found[1]

\* RenderMessage::isImage
IsImage(link) == \E i \in DOMAIN link : link[i] \in {".png", ".jpeg", ".jpg", ".webp", ".gif"}
-----------------------------------------------------------------------------
(* Properties                                                               *)

\* A text by its pieces: each has the text it is spelled as and what it does.
LOCAL Says(c) == [text |-> <<c>>, does |-> "say", with |-> c]
LOCAL Pieces ==
  {Says(97), Says(49), Says(COMMA)} \cup
  {[text |-> <<c>>, does |-> "toggle", with |-> c] : c \in {2, 29, 31}} \cup
  {[text |-> <<RESET>>, does |-> "reset", with |-> OWN],
   [text |-> <<HEX, 97, 49, 97, 49, 97, 49>>, does |-> "nothing", with |-> OWN],
   [text |-> <<COLOR, 48, 52>>, does |-> "color", with |-> 4],
   [text |-> <<COLOR, 52>>, does |-> "color", with |-> 4],
   [text |-> <<COLOR, 49, 53, COMMA, 49>>, does |-> "color", with |-> 15],
   [text |-> <<COLOR, 50, 48>>, does |-> "color", with |-> TRANSPARENT],
   [text |-> <<COLOR, 57, 57>>, does |-> "color", with |-> OWN],
   [text |-> <<COLOR>>, does |-> "nothing", with |-> OWN]}

\* Pieces that are spelled so that none runs into the next one.
LOCAL Distinct(ps) ==
  \A i \in 1 .. Len(ps) - 1 :
    ps[i].text[1] = COLOR => ps[i + 1].does # "say" \/ ps[i + 1].with = 97
LOCAL Texts == {ps \in UNION {[1 .. n -> Pieces] : n \in 0 .. 4} : Distinct(ps)}
LOCAL Spelled(ps) == FlattenSeq([i \in DOMAIN ps |-> ps[i].text])

\* What is in force at a piece, told from the pieces before it.
LOCAL Since(ps, i) == Max({0} \cup {j \in 1 .. i : ps[j].does = "reset"})
LOCAL InForce(ps, i, code) ==
  Cardinality({j \in Since(ps, i) + 1 .. i : ps[j].does = "toggle" /\ ps[j].with = code}) % 2 = 1
LOCAL ColorAt(ps, i) ==
  LET set == {j \in Since(ps, i) + 1 .. i : ps[j].does = "color"}
  IN IF set = {} THEN OWN ELSE ps[Max(set)].with
LOCAL Said(ps) == SelectSeq([i \in DOMAIN ps |-> i], LAMBDA i : ps[i].does = "say")

\* text_box.cc:44-152, message_util.cc:5-64: every character is drawn in the style
\* and colour the codes before it say, no code is drawn and no character taken
\* for one, whatever is behind the end; a notification has the same characters.
CodesRead ==
  \A ps \in Texts :
    LET said == Said(ps)
        on == [i \in DOMAIN said |->
                 [Plain EXCEPT !.bold = InForce(ps, said[i], 2), !.italics = InForce(ps, said[i], 29),
                               !.underline = InForce(ps, said[i], 31),
                               !.color = ColorAt(ps, said[i])]]
    IN /\ \A past \in {0, 49, COMMA} :
            Preprocess(Spelled(ps), past, TRUE, "normal")
              = [i \in DOMAIN said |-> RichChar(ps[said[i]].with, on[i], "normal")]
       /\ StripMessage(Spelled(ps)) = [i \in DOMAIN said |-> ps[said[i]].with]

\* Characters of one and two cells, underlined, struck out or neither.
LOCAL AdvOf == (NL :> 0) @@ (97 :> 1) @@ (98 :> 2)
LOCAL Char(cp, under, struck) ==
  [RichChar(cp, Plain, "normal") EXCEPT !.underline = under, !.strikethrough = struck]
LOCAL Lines ==
  UNION {[1 .. n -> {Char(NL, FALSE, FALSE), Char(97, FALSE, FALSE), Char(97, TRUE, FALSE),
                     Char(98, TRUE, TRUE), Char(98, FALSE, TRUE)}] : n \in 0 .. 4}
LOCAL Cells(from, to, line) == {<<x, line>> : x \in from .. to - 1}
LOCAL CellsOf(r, Test(_)) ==
  UNION {Cells(e.x, e.x + AdvOf[e.ch.cp], e.line) :
           e \in {r.entries[i] : i \in {j \in DOMAIN r.entries : Test(r.entries[j].ch)}}}
LOCAL Stroked(r, Test(_)) ==
  UNION {Cells(s.from, s.to, s.line) : s \in {t \in r.strokes : Test(t)}}

\* text_box.cc:13-39,161-311: a list makes room for exactly the lines that are
\* drawn later; each character is drawn once, within the box; a box that does not
\* grow draws the first of those lines; the cursor is behind the character it is
\* behind in the text.
LinesDrawn ==
  \A chars \in Lines, w \in 2 .. 4 :
    LET r == Render(chars, AdvOf, w, 1, TRUE, 0)
        seen == SelectSeq([i \in DOMAIN chars |-> i], LAMBDA i : chars[i].cp # NL)
    IN /\ ComputeHeight(chars, AdvOf, w, 0) = r.line
       /\ w > 2 => AddedLines(chars, AdvOf, w) <= r.line
       /\ [i \in DOMAIN r.entries |-> r.entries[i].ch] = [i \in DOMAIN seen |-> chars[seen[i]]]
       /\ \A e \in ToSet(r.entries) : e.x = 0 \/ e.x + AdvOf[e.ch.cp] < w
       /\ \A room \in 1 .. 2 :
            Render(chars, AdvOf, w, room, FALSE, 0).entries
              = SelectSeq(r.entries, LAMBDA e : e.line < room)
       /\ \A i \in DOMAIN seen :
            Render(chars, AdvOf, w, 1, TRUE, seen[i]).cursor
              = <<r.entries[i].x + AdvOf[chars[seen[i]].cp], r.entries[i].line>>

\* text_box.cc:241-290: a line is drawn below every underlined character and
\* none but underlined or struck ones, across line ends; what is struck out has
\* a line, through it or, if it ends within the line, below it.
StrokesDrawn ==
  \A chars \in Lines, w \in 2 .. 4 :
    LET r == Render(chars, AdvOf, w, 1, TRUE, 0)
        under == CellsOf(r, LAMBDA c : c.underline)
        struck == CellsOf(r, LAMBDA c : c.strikethrough)
        low == Stroked(r, LAMBDA s : s.low)
        through == Stroked(r, LAMBDA s : ~s.low)
    IN /\ under \subseteq low /\ struck \subseteq low \cup through
       /\ low \subseteq under \cup struck /\ through \subseteq struck

\* message_list.cc:313-347: in words of at most one link, all links are found
\* whole and in order, except that "https://" in front of "http://" is lost.
LOCAL Link == {<<s, c>> : s \in Schemes, c \in {"a", ".png"}}
LOCAL Word == Link \cup {<<"a">>, <<"a", "http">>}
LinksFound ==
  \A words \in UNION {[1 .. n -> Word] : n \in 0 .. 3} :
    LET linkOf(w) == IF w \in Link THEN w ELSE IF Len(w) = 2 THEN <<"http">> ELSE <<>>
        found == SelectSeq([i \in DOMAIN words |-> i],
                   LAMBDA i : /\ linkOf(words[i]) # <<>>
                              /\ linkOf(words[i])[1] = "https" =>
                                   \A j \in i + 1 .. Len(words) : linkOf(words[j]) = <<>>
                                                              \/ linkOf(words[j])[1] = "https")
        text == FlattenSeq([i \in DOMAIN words |-> Append(words[i], "|")])
    IN /\ Links(text) = [i \in DOMAIN found |-> linkOf(words[found[i]])]
       /\ \A i \in DOMAIN found :
            IsImage(Links(text)[i]) <=> ".png" \in ToSet(words[found[i]])

TextsDrawn == CodesRead /\ LinesDrawn /\ StrokesDrawn /\ LinksFound
=============================================================================
