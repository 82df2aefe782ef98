--------------------------- MODULE MCMessageCache ---------------------------
(***************************************************************************)
(* MessageCache with one name, which is joined and left and joined again,  *)
(* and has a file or none; a cache of one message, one restart.             *)
(* Encoding, what a message becomes in a file, and Config, the other file,  *)
(* have no state of their own: what they say is evaluated where the run     *)
(* begins.                                                                  *)
(***************************************************************************)
EXTENDS MessageCache, Encoding

MCFileNames == {<<1>>, <<0>>}
Settings == INSTANCE Config

\* base64.hpp, unicode_utils.h, irc_messages.hpp:159-186: a content of any bytes
\* comes back from the cache, and what was typed from its UTF-8;
\* config.cc: the networks of the configuration come back after a restart.
InitiallyFilesSurvive == Init => ContentSurvives /\ Settings!ConfigSurvives
=============================================================================
