--------------------------- MODULE MCIrcConnection ---------------------------
(***************************************************************************)
(* IrcConnection with a silence of four clock values: short, over 60 s,    *)
(* still over 60 s, over 65 s; one or two lines of the server in flight.   *)
(***************************************************************************)
EXTENDS IrcConnection
=============================================================================
