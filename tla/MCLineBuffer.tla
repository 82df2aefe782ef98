---------------------------- MODULE MCLineBuffer ----------------------------
(***************************************************************************)
(* LineBuffer over the two bytes of a line end and one other: seven bytes   *)
(* hold two lines and a rest, line ends cut in two by a read, a CR that is  *)
(* no line end, empty lines and a reconnection in the middle of a line.     *)
(* MessageParser, what becomes of a line, UrlParser, RichText, how its text *)
(* is drawn, and FontAtlas have no state of their own: what they say is     *)
(* evaluated where the run begins.                                          *)
(***************************************************************************)
EXTENDS LineBuffer, UrlParser

Drawing == INSTANCE RichText
Glyphs == INSTANCE FontAtlas

\* irc_client.cc:109-160, irc_messages.hpp: the parts of every short line are
\* read as the server wrote them, and the client's own lines as it meant them;
\* url_parser.cc: a URL's host, port and channels are those it is made of;
\* text_box.cc, message_util.cc, font_atlas.cc: what is drawn is what was said, in
\* its style, on as many lines as it was given, and in glyphs of its characters.
InitiallyTextsParsed ==
  Init => LinesParsed /\ UrlsRead /\ Drawing!TextsDrawn /\ Glyphs!GlyphsFound
=============================================================================
