----------------------------- MODULE TaskQueue -----------------------------
(***************************************************************************)
(* What GuiComponents::runLater promises the threads that are not the GUI  *)
(* thread (src/src/gui_components.h): a task handed over is run once, by   *)
(* the GUI thread, in the order in which the tasks were handed over.       *)
(* GuiTasks is the mutex, the vector and the flag that keep this promise.  *)
(***************************************************************************)
EXTENDS Sequences

CONSTANT Task        \* the closures the threads allocate

VARIABLES queue,     \* handed over and not yet run
          done       \* run, in the order of running

vars == <<queue, done>>

Elements(s) == {s[i] : i \in DOMAIN s}

Init == queue = <<>> /\ done = <<>>

\* A closure is allocated once, handed over once and deleted after its run.
Post(t) ==
  /\ t \notin Elements(queue) \cup Elements(done)
  /\ queue' = Append(queue, t)
  /\ UNCHANGED done

Run ==
  /\ queue # <<>>
  /\ done' = Append(done, Head(queue))
  /\ queue' = Tail(queue)

Next == Run \/ \E t \in Task : Post(t)

Spec == Init /\ [][Next]_vars
=============================================================================
