----------------------------- MODULE SearchList -----------------------------
(***************************************************************************)
(* SearchList (src/src/components/search_list.cc): a list of items, the    *)
(* text that narrows it and the selected one.  A list is a record.  items  *)
(* is the vector it was given, an item a record with a name; what it keeps *)
(* of them are addresses: filtered and selected hold places in the vector, *)
(* 0 the null pointer.  capacity is the vector's, moved says that it grew   *)
(* and that the addresses are of memory that was freed; index is            *)
(* selected_index.                                                          *)
(***************************************************************************)
EXTENDS TextBuffer

NoList == [items |-> <<>>, capacity |-> 0, moved |-> FALSE, given |-> FALSE,
           filtered |-> <<>>, selected |-> 0, index |-> -1, text |-> <<>>]

Matches(name, text) ==
  \E i \in 0 .. Len(name) : IsPrefix(text, SubSeq(name, i + 1, Len(name)))

\* The places of the items that match, in their order.
Found(items, text) ==
  LET found[i \in 0 .. Len(items)] ==
        IF i = 0 THEN <<>>
        ELSE IF Matches(items[i].name, text) THEN Append(found[i - 1], i)
        ELSE found[i - 1]
  IN found[Len(items)]

Select(l, index) == [l EXCEPT !.index = index, !.selected = l.filtered[index + 1]]

\* Mutant: a selection that no longer matches is kept.
RecomputeKeeping(l) ==
  LET filtered == Found(l.items, l.text)
      at == {i \in DOMAIN filtered : filtered[i] = l.selected}
      m == [l EXCEPT !.filtered = filtered, !.moved = FALSE,
                     !.index = IF at = {} THEN -1 ELSE Max(at) - 1]
  IN IF ~l.given THEN [l EXCEPT !.filtered = <<>>]
     ELSE IF l.selected = 0 /\ filtered # <<>> THEN Select(m, 0) ELSE m

Recompute(l) ==
  LET filtered == Found(l.items, l.text)
      at == {i \in DOMAIN filtered : filtered[i] = l.selected}
      m == [l EXCEPT !.filtered = filtered, !.moved = FALSE,
                     !.selected = IF at = {} THEN 0 ELSE @,
                     !.index = IF at = {} THEN -1 ELSE Max(at) - 1]
  IN IF ~l.given THEN [l EXCEPT !.filtered = <<>>]
     ELSE IF at = {} /\ filtered # <<>> THEN Select(m, 0) ELSE m

\* items.clear() and push_back, by the owner of the vector: std::vector doubles.
ClearItems(l) == [l EXCEPT !.items = <<>>]
PushItem(l, item) ==
  LET grows == Len(l.items) = l.capacity
  IN [l EXCEPT !.items = Append(@, item), !.moved = @ \/ grows,
               !.capacity = IF grows THEN Max({1, 2 * @}) ELSE @]

PushItems(l, items) ==
  LET pushed[i \in 0 .. Len(items)] ==
        IF i = 0 THEN l ELSE PushItem(pushed[i - 1], items[i])
  IN pushed[Len(items)]

\* setItems.  Freed memory may be used again: after a move the address of the
\* selected item may be that of any item of the new memory.
SetItems(l) ==
  {Recompute([l EXCEPT !.given = TRUE, !.selected = s]) :
     s \in IF l.moved THEN {0} \cup DOMAIN l.items ELSE {l.selected}}

TypeInto(l, str) == Recompute([l EXCEPT !.text = @ \o str])     \* onCodePoint, addText

\* onKey
ListKey(l, key, ctrl, alt) ==
  LET input == [data |-> l.text, text_x |-> Len(l.text), last_point |-> 0]
      shorter == IF alt THEN RemoveWord(input) ELSE RemoveChar(input)
  IN CASE key = "backspace" -> Recompute([l EXCEPT !.text = shorter.data])
       [] (key = "up" \/ (ctrl /\ key = "p")) /\ l.index > 0 -> Select(l, l.index - 1)
       \* -1 is the largest size_t: an empty selection does not move
       [] (key = "down" \/ (ctrl /\ key = "n")) /\ l.index \in 0 .. Len(l.filtered) - 2 ->
            Select(l, l.index + 1)
       [] OTHER -> l

\* onMouseWheel: by one, and no further than the ends.
Wheel(l, up) ==
  IF l.filtered = <<>> THEN l
  ELSE Select(l, IF up THEN Min({l.index + 1, Len(l.filtered) - 1}) ELSE Max({l.index - 1, 0}))

\* render: with room for so many rows, those from the first that is drawn; a
\* skipped row has y = 0, and onMousePress passes over it.
Rows(l, room) ==
  LET skip == IF l.index > room THEN l.index - room ELSE 0
  IN {i \in DOMAIN l.filtered : i > skip}
Press(l, row) == Select(l, row - 1)

\* A list whose addresses are of its present items.
Sound(l) == ~l.moved /\ \A i \in DOMAIN l.filtered : l.filtered[i] \in DOMAIN l.items
=============================================================================
