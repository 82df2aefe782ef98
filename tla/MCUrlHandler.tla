---------------------------- MODULE MCUrlHandler ----------------------------
(***************************************************************************)
(* Two instances: one that is the program and one that hands its URL over, *)
(* and three incidents, for a disconnect, another one after the next        *)
(* connection, and a kill.                                                  *)
(***************************************************************************)
EXTENDS UrlHandler
=============================================================================
