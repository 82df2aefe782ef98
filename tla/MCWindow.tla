------------------------------ MODULE MCWindow ------------------------------
(***************************************************************************)
(* Window with two channels on two networks, replies of at most three       *)
(* entries and one typed letter: enough for a list that grows, shrinks, is  *)
(* narrowed to one item or none, is filled while it is in use, and holds    *)
(* the two channels and an entry of a reply that came in between.           *)
(* Replies and TextBuffer have no state of their own: what they say of their *)
(* operators is evaluated where the run begins.                              *)
(***************************************************************************)
EXTENDS Window

Talk == INSTANCE Replies

MCHome == [ch \in {"c1", "c2"} |-> IF ch = "c1" THEN "n1" ELSE "n2"]
MCNames == [ch \in {"c1", "c2"} |-> IF ch = "c1" THEN <<97>> ELSE <<98>>]
MCChannels == <<"c1", "c2">>
MCEntries == {<<97>>}

\* text.cc, text_field.cc, chat_input.h, irc_event_handler.cc: editing keys edit
\* what is in front of the cursor, and replies tell of channels and users what
\* the server said.
InitiallyEditsAndRepliesRight == Init => EditsRight /\ Talk!RepliesRight
=============================================================================
