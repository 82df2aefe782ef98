---------------------------- MODULE MCKeepAlive ----------------------------
(***************************************************************************)
(* KeepAlive with one clock value to answer in: the PING is due at 2, the  *)
(* answer has come at 3, the connection is given up at 4.                  *)
(***************************************************************************)
EXTENDS KeepAlive
=============================================================================
