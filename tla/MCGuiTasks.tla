----------------------------- MODULE MCGuiTasks -----------------------------
(***************************************************************************)
(* GuiTasks with two posting threads: the least number with which a post   *)
(* can fall between two posts of another thread and between any two steps  *)
(* of the frame.  No symmetry: the runs check liveness.                    *)
(***************************************************************************)
EXTENDS GuiTasks

CONSTANTS Irc, Http

MCThreads == {Irc, Http}
=============================================================================
