----------------------------- MODULE FontAtlas ------------------------------
(***************************************************************************)
(* The glyphs of a text: FontAtlas (rendering/font_atlas.cc).  One texture, *)
(* a row of glyphs, grows by a glyph when a character is first asked for in *)
(* a style; a style whose fonts lack the character borrows another one's.   *)
(* An atlas is a record; a font is a record with its type, whether it has   *)
(* colours, and its glyphs, of the characters it has (FreeType's).  Widths  *)
(* and heights are in pixels.  Left out: where in its line a glyph stands,  *)
(* and a font whose file is missing, which ends the program.                *)
(***************************************************************************)
EXTENDS Integers, FiniteSets, SequencesExt

LINE_GAP == 5

NoAtlas == [characters |-> {}, texture |-> {}, xOffset |-> 0, atlas_width |-> 0,
            atlas_height |-> 0, effective_atlas_height |-> 0]

IsLoaded(a, cp, type) == \E e \in a.characters : e.c = cp /\ e.type = type
Entry(a, cp, type) == CHOOSE e \in a.characters : e.c = cp /\ e.type = type

\* The places of fonts, of which the first is taken.
GetFontsByType(fonts, type) == {i \in 1 .. Len(fonts) : fonts[i].type = type}
HasGlyph(font, cp) == cp \in DOMAIN font.glyphs
-----------------------------------------------------------------------------
\* What init_font and lazyLoadCharacter make of a glyph; its place is told as a
\* part of the width the texture has then.
CharacterEntry(a, font, cp, type, width) ==
  [c |-> cp, type |-> type, xPos |-> a.xOffset, of |-> width, hasColor |-> font.hasColor,
   width |-> font.glyphs[cp].width, rows |-> font.glyphs[cp].rows,
   advance |-> font.glyphs[cp].advance]

\* What glTexSubImage2D has written since glTexImage2D made the texture anew.
Written(entries) == {[c |-> e.c, type |-> e.type, xPos |-> e.xPos] : e \in entries}

\* lazyLoadCharacter: the texture is made anew, and all glyphs are written again.
LazyLoadCharacter(a, font, cp, type) ==
  LET glyph == font.glyphs[cp]
      width == a.atlas_width + glyph.width
      entries == {[e EXCEPT !.of = width] : e \in a.characters}
                   \cup {CharacterEntry(a, font, cp, type, width)}
  IN [characters |-> entries, texture |-> Written(entries),
      xOffset |-> a.xOffset + glyph.width, atlas_width |-> width,
      atlas_height |-> Max({a.atlas_height, glyph.rows}),
      effective_atlas_height |-> IF ~font.hasColor /\ glyph.rows > a.atlas_height
                                 THEN glyph.rows + LINE_GAP ELSE a.effective_atlas_height]

\* The first font, of which the ASCII characters are loaded at once into a
\* texture with twice the room they need.
InitFont(font, ascii) ==
  LET widthOf(cp) == font.glyphs[cp].width
      width == 2 * FoldLeft(LAMBDA n, cp : n + widthOf(cp), 0, ascii)
      height == Max({font.glyphs[cp].rows : cp \in ToSet(ascii)})
      full == FoldLeft(LAMBDA a, cp :
                [a EXCEPT !.characters = @ \cup {CharacterEntry(a, font, cp, font.type, width)},
                          !.xOffset = @ + widthOf(cp)], NoAtlas, ascii)
  IN [full EXCEPT !.atlas_width = width, !.atlas_height = height,
                  !.effective_atlas_height = height + LINE_GAP,
                  !.texture = Written(full.characters)]
-----------------------------------------------------------------------------
\* The styles another one borrows from, itself first.
Neighbours ==
  [bold |-> <<"bold", "normal", "italic", "bold_italic", "emoji">>,
   bold_italic |-> <<"bold_italic", "italic", "bold", "normal", "emoji">>,
   italic |-> <<"italic", "normal", "bold", "bold_italic", "emoji">>]
Order(type) ==
  IF type \in DOMAIN Neighbours THEN Neighbours[type]
  ELSE <<"normal", "bold", "italic", "bold_italic", "emoji">>

FontFor(fonts, cp, type) == {i \in GetFontsByType(fonts, type) : HasGlyph(fonts[i], cp)}

NoGlyph == "no glyph"

\* The half that render and getAdvance share: the style in which a character is
\* shown, and the atlas in which it is loaded.  A style of the order that is
\* loaded is passed over, and taken only if nothing can be loaded.
Lookup(a, fonts, cp, type) ==
  LET own == GetFontsByType(fonts, type)
      order == Order(type)
      next == SelectInSeq(order, LAMBDA s : ~IsLoaded(a, cp, s) /\ FontFor(fonts, cp, s) # {})
      backup == SelectInSeq(order, LAMBDA s : IsLoaded(a, cp, s))
  IN IF IsLoaded(a, cp, type) THEN [atlas |-> a, type |-> type]
     ELSE IF own # {} /\ HasGlyph(fonts[Min(own)], cp)
     THEN [atlas |-> LazyLoadCharacter(a, fonts[Min(own)], cp, type), type |-> type]
     ELSE IF next # 0
     THEN LET font == fonts[Min(FontFor(fonts, cp, order[next]))]
          IN [atlas |-> LazyLoadCharacter(a, font, cp, order[next]), type |-> order[next]]
     ELSE [atlas |-> a, type |-> IF backup # 0 THEN order[backup] ELSE NoGlyph]

\* getAdvance of one character, whose glyph has the size of the font if it has
\* colours, and of several.
GetAdvance(a, fonts, cp, type, fontSize) ==
  LET l == Lookup(a, fonts, cp, type)
      e == Entry(l.atlas, cp, l.type)
  IN [atlas |-> l.atlas,
      advance |-> IF l.type = NoGlyph THEN 0 ELSE IF e.hasColor THEN fontSize ELSE e.advance]
GetAdvances(a, fonts, points, type, fontSize) ==
  FoldLeft(LAMBDA r, cp : LET g == GetAdvance(r.atlas, fonts, cp, type, fontSize)
                          IN [atlas |-> g.atlas, advance |-> r.advance + g.advance],
           [atlas |-> a, advance |-> 0], points)
-----------------------------------------------------------------------------
(* Properties                                                               *)

LOCAL Ascii == <<65, 66>>
LOCAL Styles == {"normal", "bold", "italic", "bold_italic"}
LOCAL Types == <<"normal", "emoji", "bold", "italic", "bold_italic", "normal", "bold">>

\* The types of the fonts as AppState::start has them (those for one more script
\* once); the first has the ASCII characters, has says which has which other one.
LOCAL Glyph(cp, i) == [width |-> (cp % 3) + i, rows |-> ((cp + 2 * i) % 7) + 1, advance |-> i + 1]
LOCAL Fonts(has) ==
  [i \in DOMAIN Types |->
     [type |-> Types[i], hasColor |-> Types[i] = "emoji",
      glyphs |-> [cp \in {c \in {200, 201} : <<i, c>> \in has}
                         \cup (IF i = 1 THEN ToSet(Ascii) ELSE {}) |-> Glyph(cp, i)]]]

LOCAL After(fonts, asked) ==
  FoldLeft(LAMBDA a, q : Lookup(a, fonts, q[1], q[2]).atlas, InitFont(fonts[1], Ascii), asked)
LOCAL Asked(cps, types, n) == UNION {[1 .. k -> cps \X types] : k \in 0 .. n}

\* A glyph that was loaded.
FontTypes == {"normal", "bold", "italic", "bold_italic", "emoji"}
Entries == [c : Nat, type : FontTypes, xPos : Nat, of : Nat, hasColor : BOOLEAN,
            width : Nat, rows : Nat, advance : Nat]

\* No two glyphs share a column of the texture or stand for one character in one
\* style; none ends outside it, and each is where its part of the width says.
NoneOverlap(a) ==
  \A e \in a.characters :
    /\ e.xPos + e.width <= a.xOffset
    /\ e.of = a.atlas_width
    /\ \A f \in a.characters \ {e} :
         <<f.c, f.type>> # <<e.c, e.type>>
           /\ (e.xPos + e.width <= f.xPos \/ f.xPos + f.width <= e.xPos)

\* A line is as high as its characters, unless a taller picture was loaded before.
LinesHigh(a) ==
  \A e \in a.characters :
    /\ e.rows <= a.atlas_height
    /\ ~e.hasColor /\ e.rows + LINE_GAP > a.effective_atlas_height =>
         \E f \in a.characters : f.hasColor /\ f.xPos < e.xPos /\ f.rows >= e.rows

\* Both, the texture has what was written last, and what the next glyph relies on:
\* it begins inside the texture, and the highest glyph is of the line or a picture.
AtlasRight(a) ==
  /\ NoneOverlap(a) /\ LinesHigh(a)
  /\ a.texture = Written(a.characters)
  /\ {a.xOffset, a.atlas_width, a.atlas_height, a.effective_atlas_height} \subseteq Nat
  /\ a.xOffset <= a.atlas_width /\ a.effective_atlas_height >= LINE_GAP
  /\ a.characters \subseteq {e \in Entries : e.rows > 0 => e.width > 0}
  /\ a.atlas_height + LINE_GAP > a.effective_atlas_height =>
       \E e \in a.characters : e.hasColor /\ e.rows = a.atlas_height

\* font_atlas.cc:137-326: so it is, whatever is asked for.
GlyphsApart ==
  \A has \in SUBSET {<<1, 200>>, <<2, 201>>, <<3, 200>>, <<6, 201>>},
     asked \in Asked({65, 200, 201}, {"normal", "bold"}, 3) :
    AtlasRight(After(Fonts(has), asked))

\* font_atlas.cc:48-110,327-387: a character that any font has is shown in every
\* style, at first and at last in the style nearest to it that has it; a lookup
\* in between may show it in a farther one, each of them once.
GlyphSettles ==
  \A has \in SUBSET {<<i, 200>> : i \in DOMAIN Types},
     asked \in Asked({200}, {"normal", "bold"}, 1), type \in Styles :
    LET fonts == Fonts(has)
        near == SelectInSeq(Order(type), LAMBDA s : FontFor(fonts, 200, s) # {})
        best == IF near = 0 THEN NoGlyph ELSE Order(type)[near]
        seen(n) == Lookup(After(fonts, asked \o [i \in 1 .. n |-> <<200, type>>]),
                          fonts, 200, type).type
    IN /\ asked = <<>> => seen(0) = best
       /\ seen(5) = best
       /\ \A i, j \in 0 .. 4 : i # j /\ seen(i) = seen(j) => seen(i) = best

GlyphsFound == GlyphsApart /\ GlyphSettles
=============================================================================
