------------------------------ MODULE GuiTasks ------------------------------
(***************************************************************************)
(* The hand-over of work to the GUI thread: GuiComponents::runLater, called *)
(* by every thread, and the first block of GuiComponents::render, run by    *)
(* the GUI thread once per frame.  They share the vector "tasks", the       *)
(* mutex "mtx" and the plain bool "locked", which render reads and resets   *)
(* without holding the mutex.  One step is one access to the shared state.  *)
(* glfwPostEmptyEvent only ends glfwWaitEventsTimeout(1) early: the GUI     *)
(* thread may always leave "events", so the wake-up itself has no state.    *)
(***************************************************************************)
EXTENDS Naturals, Sequences, FiniteSets

CONSTANTS Threads,   \* connection threads and the HTTP client's thread
          Gui,       \* the thread that constructed GuiComponents
          Nobody,    \* the owner of a free mutex
          MaxPosts   \* bound: calls of runLater by one thread

ASSUME GuiTasksAssumption ==
  /\ Gui \notin Threads
  /\ Nobody \notin Threads \cup {Gui}
  /\ MaxPosts \in Nat

Callers == Threads \cup {Gui}
Task == Callers \X (1 .. MaxPosts)     \* <<caller, its n-th task>>

VARIABLES tasks,     \* GuiComponents::tasks
          locked,    \* GuiComponents::locked
          mtx,       \* the owner of GuiComponents::mtx
          call,      \* where each thread is inside runLater
          made,      \* how many tasks each thread has created
          render,    \* where the GUI thread is in its frame
          next,      \* the task the loop in render looks at
          posted,    \* history: the tasks, in the order of push_back
          ran        \* history: the queued tasks, in the order they ran

vars == <<tasks, locked, mtx, call, made, render, next, posted, ran>>

CallPoints   == {"out", "lock", "flag", "push", "unlock"}
RenderPoints == {"events", "test", "lock", "run", "clear", "unlock", "reset"}

TypeOK ==
  /\ tasks \in Seq(Task)
  /\ locked \in BOOLEAN
  /\ mtx \in Callers \cup {Nobody}
  /\ call \in [Callers -> CallPoints]
  /\ made \in [Callers -> 0 .. MaxPosts]
  /\ render \in RenderPoints
  /\ next \in 1 .. Len(tasks) + 1
  /\ posted \in Seq(Task)
  /\ ran \in Seq(Task)

Init ==
  /\ tasks = <<>> /\ posted = <<>> /\ ran = <<>>
  /\ locked = FALSE
  /\ mtx = Nobody
  /\ call = [p \in Callers |-> "out"]
  /\ made = [p \in Callers |-> 0]
  /\ render = "test"
  /\ next = 1
-----------------------------------------------------------------------------
(* runLater                                                                *)

\* t_id == this_id
OnGuiThread(p) == p = Gui

\* The GUI thread calls runLater from its event handlers and from inside a
\* task (a cached picture calls back at once while a channel is activated).
MayCall(p) ==
  /\ call[p] = "out"
  /\ made[p] < MaxPosts
  /\ p = Gui => render \in {"events", "run"}

Goto(p, point) == call' = [call EXCEPT ![p] = point]

CreateTask(p) == made' = [made EXCEPT ![p] = @ + 1]

\* On the GUI thread the task is run and deleted on the spot.
RunNow(p) ==
  /\ MayCall(p)
  /\ OnGuiThread(p)
  /\ CreateTask(p)
  /\ UNCHANGED <<tasks, locked, mtx, call, render, next, posted, ran>>

StartPost(p) ==
  /\ MayCall(p)
  /\ ~OnGuiThread(p)
  /\ CreateTask(p)
  /\ Goto(p, "lock")
  /\ UNCHANGED <<tasks, locked, mtx, render, next, posted, ran>>

PostLock(p) ==
  /\ call[p] = "lock"
  /\ mtx = Nobody
  /\ mtx' = p
  /\ Goto(p, "flag")
  /\ UNCHANGED <<tasks, locked, made, render, next, posted, ran>>

SetLocked(p) ==
  /\ call[p] = "flag"
  /\ locked' = TRUE
  /\ Goto(p, "push")
  /\ UNCHANGED <<tasks, mtx, made, render, next, posted, ran>>

\* Mutant: the newest task is put first.
PushTaskFirst(p) ==
  /\ call[p] = "push"
  /\ tasks' = <<<<p, made[p]>>>> \o tasks
  /\ posted' = Append(posted, <<p, made[p]>>)
  /\ Goto(p, "unlock")
  /\ UNCHANGED <<locked, mtx, made, render, next, ran>>

PushTask(p) ==
  /\ call[p] = "push"
  /\ tasks' = Append(tasks, <<p, made[p]>>)
  /\ posted' = Append(posted, <<p, made[p]>>)
  /\ Goto(p, "unlock")
  /\ UNCHANGED <<locked, mtx, made, render, next, ran>>

PostUnlock(p) ==
  /\ call[p] = "unlock"
  /\ mtx' = Nobody
  /\ Goto(p, "out")
  /\ UNCHANGED <<tasks, locked, made, render, next, posted, ran>>
-----------------------------------------------------------------------------
(* render                                                                  *)

\* The GUI thread goes on in render only when it is not inside runLater.
AtRender(point) == render = point /\ call[Gui] = "out"

\* glfwWaitEventsTimeout returns and the next frame begins.
NextFrame ==
  /\ AtRender("events")
  /\ render' = "test"
  /\ UNCHANGED <<tasks, locked, mtx, call, made, next, posted, ran>>

TestLocked ==
  /\ AtRender("test")
  /\ render' = IF locked THEN "lock" ELSE "events"
  /\ UNCHANGED <<tasks, locked, mtx, call, made, next, posted, ran>>

\* Mutant: render runs the tasks without taking the mutex.
RenderWithoutLock ==
  /\ AtRender("lock")
  /\ render' = "run"
  /\ UNCHANGED <<tasks, locked, mtx, call, made, next, posted, ran>>

RenderLock ==
  /\ AtRender("lock")
  /\ mtx = Nobody
  /\ mtx' = Gui
  /\ render' = "run"
  /\ UNCHANGED <<tasks, locked, call, made, next, posted, ran>>

RunTask ==
  /\ AtRender("run")
  /\ next <= Len(tasks)
  /\ ran' = Append(ran, tasks[next])
  /\ next' = next + 1
  /\ UNCHANGED <<tasks, locked, mtx, call, made, render, posted>>

\* Mutant: the loop ends one task early.
EndBeforeLast ==
  /\ AtRender("run")
  /\ next >= Len(tasks)
  /\ render' = "clear"
  /\ UNCHANGED <<tasks, locked, mtx, call, made, next, posted, ran>>

EndOfTasks ==
  /\ AtRender("run")
  /\ next > Len(tasks)
  /\ render' = "clear"
  /\ UNCHANGED <<tasks, locked, mtx, call, made, next, posted, ran>>

\* Mutant: the vector is cleared, the loop index is not.
ClearKeepsIndex ==
  /\ AtRender("clear")
  /\ tasks' = <<>>
  /\ render' = "unlock"
  /\ UNCHANGED <<locked, mtx, call, made, next, posted, ran>>

ClearTasks ==
  /\ AtRender("clear")
  /\ tasks' = <<>>
  /\ next' = 1
  /\ render' = "unlock"
  /\ UNCHANGED <<locked, mtx, call, made, posted, ran>>

\* Mutant: the mutex is still held after the block.
RenderKeepsLock ==
  /\ AtRender("unlock")
  /\ render' = "reset"
  /\ UNCHANGED <<tasks, locked, mtx, call, made, next, posted, ran>>

RenderUnlock ==
  /\ AtRender("unlock")
  /\ mtx' = Nobody
  /\ render' = "reset"
  /\ UNCHANGED <<tasks, locked, call, made, next, posted, ran>>

ResetLocked ==
  /\ AtRender("reset")
  /\ locked' = FALSE
  /\ render' = "events"
  /\ UNCHANGED <<tasks, mtx, call, made, next, posted, ran>>
-----------------------------------------------------------------------------
RunLater(p) ==
  RunNow(p) \/ StartPost(p) \/ PostLock(p) \/ SetLocked(p) \/ PushTask(p)
            \/ PostUnlock(p)

Render ==
  \/ NextFrame \/ TestLocked \/ RenderLock \/ RunTask \/ EndOfTasks
  \/ ClearTasks \/ RenderUnlock \/ ResetLocked

Next == Render \/ \E p \in Callers : RunLater(p)

Spec == Init /\ [][Next]_vars

\* A thread inside runLater and the GUI thread inside its loop keep running;
\* the mutex starves nobody who waits for it; nobody has to call runLater.
Fairness ==
  /\ WF_vars(Render)
  /\ SF_vars(RenderLock)
  /\ \A p \in Callers : /\ WF_vars(SetLocked(p) \/ PushTask(p) \/ PostUnlock(p))
                        /\ SF_vars(PostLock(p))

FairSpec == Spec /\ Fairness
-----------------------------------------------------------------------------
(* Properties                                                              *)

\* The tasks of the vector the loop of render has not run yet.
Waiting == SubSeq(tasks, next, Len(tasks))

\* gui_components.cc:47-51: nothing posted is dropped by tasks.clear(), run a
\* second time, or run before a task that was posted earlier.
FifoOnce == posted = ran \o Waiting

\* gui_components.h:61 against gui_components.cc:46: a task that itself calls
\* runLater never waits for the mutex that render holds around it.
NoSelfDeadlock == ~(mtx = Gui /\ call[Gui] = "lock")

\* gui_components.cc:47: the vector is not changed while render iterates over
\* it (a push_back would invalidate the iterators of the range-for).
StableWhileIterating == [][render = "run" => tasks' = tasks]_vars

\* gui_components.cc:45: a task handed over at any point of the frame but the
\* one between the unlock and "locked = false" is run.
FlaggedTasksRun ==
  \A n \in 1 .. MaxPosts * Cardinality(Threads) :
    (Len(posted) >= n /\ locked /\ render # "reset") ~> Len(ran) >= n

\* gui_components.h:64: runLater returns to the thread that called it.
CallsReturn == \A p \in Callers : call[p] # "out" ~> call[p] = "out"

\* src/README.md:71 says a received message is also appended to the raw
\* buffer; the append is a task, so every posted task has to be run.
EveryTaskRuns == \A n \in 1 .. MaxPosts * Cardinality(Threads) : Len(posted) >= n ~> Len(ran) >= n

\* The mutex, the vector and the flag implement the queue of TaskQueue.
Abstract == INSTANCE TaskQueue WITH queue <- Waiting, done <- ran
ImplementsTaskQueue == Abstract!Spec
-----------------------------------------------------------------------------
(* The inductive invariant that FifoOnce and the refinement rest on         *)

\* Whoever is inside a critical section owns the mutex, and only then.
Owner ==
  /\ call[Gui] = "out"
  /\ \A p \in Threads : call[p] \in {"flag", "push", "unlock"} <=> mtx = p
  /\ render \in {"run", "clear", "unlock"} <=> mtx = Gui

\* The loop index is at the start outside the loop and at the end after it.
LoopIndex ==
  /\ render \notin {"run", "clear"} => next = 1
  /\ render = "clear" => next = Len(tasks) + 1
  /\ render = "unlock" => tasks = <<>>

\* A thread inside runLater carries a task of its own not yet in the vector.
Fresh ==
  /\ \A p \in Callers : call[p] # "out" => made[p] # 0
  /\ \A i \in 1 .. Len(posted) :
       /\ posted[i][2] <= made[posted[i][1]]
       /\ call[posted[i][1]] \in {"lock", "flag", "push"}
            => posted[i][2] # made[posted[i][1]]

NoDuplicate ==
  \A i, j \in 1 .. Len(posted) : posted[i] = posted[j] => i = j

\* FifoOnce, position by position.
Positions ==
  /\ Len(posted) = Len(ran) + Len(tasks) + 1 - next
  /\ \A i \in 1 .. Len(ran) : ran[i] = posted[i]
  /\ \A i \in next .. Len(tasks) : tasks[i] = posted[Len(ran) + 1 + i - next]

IInv == TypeOK /\ Owner /\ LoopIndex /\ Fresh /\ NoDuplicate /\ Positions
=============================================================================
