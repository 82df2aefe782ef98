--------------------------- MODULE GuiTasksProofs ---------------------------
(***************************************************************************)
(* GuiTasks for any set of threads and any bound on their calls: types,    *)
(* mutual exclusion around the vector, the order of the tasks, and the     *)
(* refinement of TaskQueue.                                                *)
(***************************************************************************)
EXTENDS GuiTasks, SequenceTheorems, TLAPS

\* The initial state satisfies every part of the invariant.
LEMMA InitIInv == Init => IInv
<1> SUFFICES ASSUME Init PROVE IInv
  OBVIOUS
<1> USE GuiTasksAssumption DEF Init
<1>1. TypeOK
  <2>1. <<>> \in Seq(Task) /\ Len(<<>>) = 0
    OBVIOUS
  <2>2. call \in [Callers -> CallPoints] /\ made \in [Callers -> 0 .. MaxPosts]
    BY DEF CallPoints
  <2>3. next \in 1 .. Len(tasks) + 1 /\ render \in RenderPoints
    BY <2>1 DEF RenderPoints
  <2>4. mtx \in Callers \cup {Nobody} /\ locked \in BOOLEAN
    OBVIOUS
  <2>5. tasks \in Seq(Task) /\ posted \in Seq(Task) /\ ran \in Seq(Task)
    BY <2>1
  <2> QED BY <2>2, <2>3, <2>4, <2>5 DEF TypeOK
<1>2. Owner /\ LoopIndex /\ Fresh /\ NoDuplicate
  BY DEF Owner, LoopIndex, Fresh, NoDuplicate, Callers
<1>3. Positions
  BY DEF Positions
<1> QED BY <1>1, <1>2, <1>3 DEF IInv

\* The frame of the GUI thread keeps the invariant.
LEMMA RenderIInv == ASSUME IInv, Render PROVE IInv'
<1> USE GuiTasksAssumption DEF IInv, AtRender
<1>1. CASE NextFrame
  BY <1>1 DEF NextFrame, TypeOK, RenderPoints, Owner, LoopIndex, Fresh,
              NoDuplicate, Positions
<1>2. CASE TestLocked
  BY <1>2 DEF TestLocked, TypeOK, RenderPoints, Owner, LoopIndex, Fresh,
              NoDuplicate, Positions
<1>3. CASE RenderLock
  <2>1. TypeOK'
    BY <1>3 DEF RenderLock, TypeOK, RenderPoints, Callers
  <2>2. Owner' /\ LoopIndex'
    BY <1>3 DEF RenderLock, Owner, LoopIndex
  <2>3. Fresh' /\ NoDuplicate' /\ Positions'
    BY <1>3 DEF RenderLock, Fresh, NoDuplicate, Positions
  <2> QED BY <2>1, <2>2, <2>3
<1>4. CASE RunTask
  <2>1. tasks[next] \in Task /\ next + 1 \in 1 .. Len(tasks) + 1
    BY <1>4 DEF RunTask, TypeOK
  <2>2. TypeOK'
    BY <1>4, <2>1 DEF RunTask, TypeOK
  <2>3. Owner' /\ LoopIndex' /\ Fresh' /\ NoDuplicate'
    BY <1>4 DEF RunTask, Owner, LoopIndex, Fresh, NoDuplicate
  <2>4. Positions'
    BY <1>4, <2>1 DEF RunTask, TypeOK, Positions
  <2> QED BY <2>2, <2>3, <2>4
<1>5. CASE EndOfTasks
  <2>1. TypeOK'
    BY <1>5 DEF EndOfTasks, TypeOK, RenderPoints
  <2>2. LoopIndex'
    BY <1>5 DEF EndOfTasks, TypeOK, LoopIndex
  <2>3. Owner' /\ Fresh' /\ NoDuplicate' /\ Positions'
    BY <1>5 DEF EndOfTasks, Owner, Fresh, NoDuplicate, Positions
  <2> QED BY <2>1, <2>2, <2>3
<1>6. CASE ClearTasks
  <2>1. TypeOK'
    BY <1>6 DEF ClearTasks, TypeOK, RenderPoints
  <2>2. Owner' /\ LoopIndex' /\ Fresh' /\ NoDuplicate'
    BY <1>6 DEF ClearTasks, Owner, LoopIndex, Fresh, NoDuplicate
  <2>3. Positions'
    BY <1>6 DEF ClearTasks, TypeOK, LoopIndex, Positions
  <2> QED BY <2>1, <2>2, <2>3
<1>7. CASE RenderUnlock
  <2>1. TypeOK'
    BY <1>7 DEF RenderUnlock, TypeOK, RenderPoints
  <2>2. Owner' /\ LoopIndex' /\ Fresh' /\ NoDuplicate' /\ Positions'
    BY <1>7 DEF RenderUnlock, TypeOK, Callers, Owner, LoopIndex, Fresh,
                NoDuplicate, Positions
  <2> QED BY <2>1, <2>2
<1>8. CASE ResetLocked
  BY <1>8 DEF ResetLocked, TypeOK, RenderPoints, Owner, LoopIndex, Fresh,
              NoDuplicate, Positions
<1> QED BY <1>1, <1>2, <1>3, <1>4, <1>5, <1>6, <1>7, <1>8 DEF Render

\* The elements of the history are pairs of a caller and a number.
LEMMA PostedPairs ==
  ASSUME TypeOK
  PROVE  \A i \in 1 .. Len(posted) :
           posted[i][1] \in Callers /\ posted[i][2] \in Nat
  BY DEF TypeOK, Task

\* A caller that may call runLater once more stays within its bound.
LEMMA OneMore ==
  ASSUME TypeOK, NEW p \in Callers, made[p] < MaxPosts
  PROVE  [made EXCEPT ![p] = @ + 1] \in [Callers -> 0 .. MaxPosts]
  BY GuiTasksAssumption DEF TypeOK

\* Creating a task keeps Fresh: its number is above all those posted.
LEMMA FreshCreate ==
  ASSUME TypeOK, Fresh, NEW p \in Callers, call[p] = "out",
         made' = [made EXCEPT ![p] = @ + 1], posted' = posted,
         call' = call \/ call' = [call EXCEPT ![p] = "lock"]
  PROVE  Fresh'
<1>1. made \in [Callers -> Nat] /\ call \in [Callers -> CallPoints]
  BY GuiTasksAssumption DEF TypeOK
<1>2. \A q \in Callers : call'[q] # "out" => made'[q] # 0
  BY <1>1 DEF Fresh
<1>3. ASSUME NEW i \in 1 .. Len(posted), NEW q \in Callers, q = posted[i][1]
      PROVE  /\ posted[i][2] <= made'[q]
             /\ call'[q] \in {"lock", "flag", "push"} => posted[i][2] # made'[q]
  <2>1. posted[i][2] \in Nat /\ posted[i][2] <= made[q] /\ made[q] \in Nat
    BY <1>1, <1>3, PostedPairs DEF Fresh
  <2>2. CASE q = p
    BY <1>1, <2>1, <2>2
  <2>3. CASE q # p
    BY <1>1, <1>3, <2>1, <2>3 DEF Fresh
  <2> QED BY <2>2, <2>3
<1> QED BY <1>2, <1>3, PostedPairs DEF Fresh

\* Moving on inside runLater keeps Fresh.
LEMMA FreshMove ==
  ASSUME TypeOK, Fresh, NEW p \in Callers, NEW point \in CallPoints,
         call[p] # "out",
         point \in {"lock", "flag", "push"} => call[p] \in {"lock", "flag", "push"},
         made' = made, posted' = posted, call' = [call EXCEPT ![p] = point]
  PROVE  Fresh'
<1>1. call \in [Callers -> CallPoints]
  BY DEF TypeOK
<1>2. \A q \in Callers : call'[q] # "out" => made'[q] # 0
  BY <1>1 DEF Fresh
<1>3. \A q \in Callers :
        call'[q] \in {"lock", "flag", "push"} => call[q] \in {"lock", "flag", "push"}
  BY <1>1
<1> QED BY <1>2, <1>3, PostedPairs DEF Fresh

\* Posting the newest task keeps Fresh: its caller has left the push behind.
LEMMA FreshPush ==
  ASSUME TypeOK, Fresh, NEW p \in Callers, call[p] = "push",
         made' = made, posted' = Append(posted, <<p, made[p]>>),
         call' = [call EXCEPT ![p] = "unlock"]
  PROVE  Fresh'
<1>1. made \in [Callers -> Nat] /\ call \in [Callers -> CallPoints]
  BY GuiTasksAssumption DEF TypeOK
<1>2. \A q \in Callers : call'[q] # "out" => made'[q] # 0
  BY <1>1 DEF Fresh
<1>3. Len(posted) \in Nat /\ Len(posted') = Len(posted) + 1
  BY DEF TypeOK
<1>4. ASSUME NEW i \in 1 .. Len(posted')
      PROVE  /\ posted'[i][2] <= made'[posted'[i][1]]
             /\ call'[posted'[i][1]] \in {"lock", "flag", "push"}
                  => posted'[i][2] # made'[posted'[i][1]]
  <2>1. CASE i = Len(posted')
    <3>1. posted'[i] = <<p, made[p]>>
      BY <1>3, <2>1 DEF TypeOK
    <3>2. call'[p] = "unlock" /\ made[p] <= made'[p]
      BY <1>1
    <3> QED BY <3>1, <3>2
  <2>2. CASE i # Len(posted')
    <3>1. i \in 1 .. Len(posted) /\ posted'[i] = posted[i]
      BY <1>3, <2>2 DEF TypeOK
    <3>2. \A q \in Callers :
            call'[q] \in {"lock", "flag", "push"} => call[q] \in {"lock", "flag", "push"}
      BY <1>1
    <3> QED BY <3>1, <3>2, PostedPairs DEF Fresh
  <2> QED BY <2>1, <2>2
<1> QED BY <1>2, <1>4 DEF Fresh

\* A call of runLater keeps the invariant.
LEMMA RunLaterIInv ==
  ASSUME IInv, NEW p \in Callers, RunLater(p) PROVE IInv'
<1> USE GuiTasksAssumption DEF IInv, MayCall, Goto, CreateTask, OnGuiThread
<1>1. CASE RunNow(p)
  <2>1. TypeOK'
    BY <1>1, OneMore DEF RunNow, TypeOK
  <2>2. Owner' /\ LoopIndex' /\ NoDuplicate' /\ Positions'
    BY <1>1 DEF RunNow, Owner, LoopIndex, NoDuplicate, Positions
  <2>3. Fresh'
    BY <1>1, FreshCreate DEF RunNow
  <2> QED BY <2>1, <2>2, <2>3
<1>2. CASE StartPost(p)
  <2>1. TypeOK'
    BY <1>2, OneMore DEF StartPost, TypeOK, CallPoints
  <2>2. LoopIndex' /\ NoDuplicate' /\ Positions'
    BY <1>2 DEF StartPost, LoopIndex, NoDuplicate, Positions
  <2>3. Owner'
    BY <1>2 DEF StartPost, TypeOK, Callers, Owner
  <2>4. Fresh'
    BY <1>2, FreshCreate DEF StartPost
  <2> QED BY <2>1, <2>2, <2>3, <2>4
<1>3. CASE PostLock(p)
  <2>1. p # Gui /\ render \notin {"run", "clear", "unlock"}
    BY <1>3 DEF PostLock, Owner
  <2>2. TypeOK' /\ LoopIndex' /\ NoDuplicate' /\ Positions'
    BY <1>3 DEF PostLock, TypeOK, CallPoints, LoopIndex, NoDuplicate, Positions
  <2>3. Owner'
    BY <1>3, <2>1 DEF PostLock, TypeOK, Callers, Owner
  <2>4. Fresh'
    BY <1>3, FreshMove DEF PostLock, CallPoints
  <2> QED BY <2>2, <2>3, <2>4
<1>4. CASE SetLocked(p)
  <2>1. TypeOK' /\ LoopIndex' /\ NoDuplicate' /\ Positions'
    BY <1>4 DEF SetLocked, TypeOK, CallPoints, LoopIndex, NoDuplicate, Positions
  <2>2. Owner'
    BY <1>4 DEF SetLocked, TypeOK, Callers, Owner
  <2>3. Fresh'
    BY <1>4, FreshMove DEF SetLocked, CallPoints
  <2> QED BY <2>1, <2>2, <2>3
<1>5. CASE PushTask(p)
  <2> DEFINE t == <<p, made[p]>>
  <2>1. t \in Task
    BY <1>5 DEF PushTask, TypeOK, Fresh, Task
  <2>2. p \in Threads /\ mtx = p /\ next = 1
    BY <1>5 DEF PushTask, Owner, LoopIndex, Callers
  <2>3. TypeOK'
    <3>1. tasks' = Append(tasks, t) /\ posted' = Append(posted, t)
      BY <1>5 DEF PushTask
    <3>2. tasks' \in Seq(Task) /\ posted' \in Seq(Task)
          /\ Len(tasks') = Len(tasks) + 1
      <4> HIDE DEF t
      <4> QED BY <2>1, <3>1 DEF TypeOK
    <3>3. next' \in 1 .. Len(tasks') + 1
      BY <1>5, <3>2 DEF PushTask, TypeOK
    <3>4. UNCHANGED <<locked, mtx, made, render, ran>>
          /\ call' \in [Callers -> CallPoints]
      BY <1>5 DEF PushTask, TypeOK, CallPoints
    <3> QED BY <3>2, <3>3, <3>4 DEF TypeOK
  <2>4. Owner' /\ LoopIndex'
    BY <1>5, <2>2 DEF PushTask, TypeOK, Callers, Owner, LoopIndex
  <2>5. \A i \in 1 .. Len(posted) : posted[i] # t
    BY <1>5 DEF PushTask, Fresh
  <2>6. Fresh'
    BY <1>5, FreshPush DEF PushTask
  <2>7. NoDuplicate'
    <3> HIDE DEF t
    <3>1. posted' = Append(posted, t)
      BY <1>5 DEF PushTask, t
    <3> QED BY <2>5, <3>1 DEF TypeOK, NoDuplicate
  <2>8. Positions'
    <3> HIDE DEF t
    <3>1. tasks' = Append(tasks, t) /\ posted' = Append(posted, t)
      BY <1>5 DEF PushTask, t
    <3>2. ran' = ran /\ next' = next
      BY <1>5 DEF PushTask
    <3>3. Len(tasks') = Len(tasks) + 1 /\ Len(posted') = Len(posted) + 1
      BY <3>1 DEF TypeOK
    <3>4. Len(posted) = Len(ran) + Len(tasks) /\ Len(ran) \in Nat
          /\ Len(tasks) \in Nat
      BY <2>2 DEF TypeOK, Positions
    <3>5. \A i \in 1 .. Len(ran) : ran'[i] = posted'[i]
      BY <3>1, <3>2, <3>4 DEF TypeOK, Positions
    <3>6. ASSUME NEW i \in 1 .. Len(tasks')
          PROVE  tasks'[i] = posted'[Len(ran) + i]
      <4>1. CASE i = Len(tasks')
        BY <4>1, <3>1, <3>3, <3>4 DEF TypeOK
      <4>2. CASE i # Len(tasks')
        <5>1. i \in next .. Len(tasks) /\ Len(ran) + 1 + i - next = Len(ran) + i
          BY <4>2, <2>2, <3>3, <3>4
        <5>2. tasks[i] = posted[Len(ran) + i] /\ Len(ran) + i \in 1 .. Len(posted)
          BY <5>1, <3>4 DEF Positions
        <5>3. tasks'[i] = tasks[i] /\ posted'[Len(ran) + i] = posted[Len(ran) + i]
          BY <5>1, <5>2, <2>2, <3>1 DEF TypeOK
        <5> QED BY <5>2, <5>3
      <4> QED BY <4>1, <4>2
    <3>7. \A i \in next' .. Len(tasks') :
             tasks'[i] = posted'[Len(ran') + 1 + i - next']
      <4> SUFFICES ASSUME NEW i \in 1 .. Len(tasks')
                   PROVE  tasks'[i] = posted'[Len(ran) + 1 + i - 1]
        BY <2>2, <3>2
      <4>1. Len(ran) + 1 + i - 1 = Len(ran) + i
        BY <3>4
      <4> QED BY <3>6, <4>1
    <3> QED BY <2>2, <3>2, <3>3, <3>4, <3>5, <3>7 DEF Positions
  <2> QED BY <2>3, <2>4, <2>6, <2>7, <2>8
<1>6. CASE PostUnlock(p)
  <2>1. TypeOK' /\ LoopIndex' /\ NoDuplicate' /\ Positions'
    BY <1>6 DEF PostUnlock, TypeOK, CallPoints, LoopIndex, NoDuplicate, Positions
  <2>2. Owner'
    BY <1>6 DEF PostUnlock, TypeOK, Callers, Owner
  <2>3. Fresh'
    BY <1>6, FreshMove DEF PostUnlock, CallPoints
  <2> QED BY <2>1, <2>2, <2>3
<1> QED BY <1>1, <1>2, <1>3, <1>4, <1>5, <1>6 DEF RunLater

LEMMA StutterIInv == ASSUME IInv, UNCHANGED vars PROVE IInv'
  BY DEF vars, IInv, TypeOK, Owner, LoopIndex, Fresh, NoDuplicate, Positions

LEMMA Invariance == Spec => []IInv
<1>1. IInv /\ [Next]_vars => IInv'
  BY RenderIInv, RunLaterIInv, StutterIInv DEF Next
<1> QED BY InitIInv, <1>1, PTL DEF Spec

\* For any threads and any number of calls: the types of the shared state,
\* whose vector, mutex and flag are gui_components.h:24-37.
THEOREM TypeCorrect == Spec => []TypeOK
<1>1. IInv => TypeOK
  BY DEF IInv
<1> QED BY Invariance, <1>1, PTL

\* What SubSeq makes of the vector: its length and its elements.
LEMMA WaitingShape ==
  ASSUME TypeOK
  PROVE  /\ Waiting \in Seq(Task)
         /\ Len(Waiting) = Len(tasks) + 1 - next
         /\ \A i \in 1 .. Len(Waiting) : Waiting[i] = tasks[next - 1 + i]
<1>1. next \in Nat /\ next >= 1 /\ next <= Len(tasks) + 1 /\ Len(tasks) \in Nat
  BY DEF TypeOK
<1>2. \A i \in next .. Len(tasks) : tasks[i] \in Task
  BY <1>1 DEF TypeOK
<1> QED BY <1>1, <1>2 DEF Waiting

\* The invariant gives the order of the queue.
LEMMA InOrder == ASSUME IInv PROVE FifoOnce
<1> USE DEF IInv
<1>1. /\ posted \in Seq(Task) /\ ran \in Seq(Task) /\ next \in Nat
      /\ Len(ran) \in Nat /\ Len(tasks) \in Nat /\ Len(posted) \in Nat
  BY DEF TypeOK
<1>2. Waiting \in Seq(Task) /\ ran \o Waiting \in Seq(Task)
  BY <1>1, WaitingShape
<1>3. Len(ran \o Waiting) = Len(ran) + Len(Waiting)
  BY <1>1, <1>2
<1>4. Len(posted) = Len(ran \o Waiting)
  <2>1. Len(Waiting) = Len(tasks) + 1 - next
    BY WaitingShape
  <2>2. Len(posted) = Len(ran) + Len(tasks) + 1 - next
    BY DEF Positions
  <2> QED BY <1>1, <1>3, <2>1, <2>2
<1>5. ASSUME NEW i \in 1 .. Len(posted) PROVE posted[i] = (ran \o Waiting)[i]
  <2>1. CASE i <= Len(ran)
    BY <1>1, <1>2, <2>1 DEF Positions
  <2>2. CASE i > Len(ran)
    <3> DEFINE k == i - Len(ran)
    <3>1. k \in 1 .. Len(Waiting) /\ i = Len(ran) + k
      BY <1>1, <1>3, <1>4, <2>2
    <3>2. (ran \o Waiting)[i] = Waiting[k]
      BY <1>1, <1>2, <3>1
    <3>3. Waiting[k] = tasks[next - 1 + k] /\ next - 1 + k \in next .. Len(tasks)
      BY <1>1, <3>1, WaitingShape
    <3>4. Len(ran) + 1 + (next - 1 + k) - next = i
      BY <1>1, <3>1
    <3> QED BY <3>2, <3>3, <3>4 DEF Positions
  <2>3. i <= Len(ran) \/ i > Len(ran)
    BY <1>1
  <2> HIDE DEF IInv
  <2> QED BY <2>1, <2>2, <2>3
<1> HIDE DEF IInv
<1> QED BY <1>1, <1>2, <1>4, <1>5, SeqEqual DEF FifoOnce

\* No task is lost, repeated or overtaken: at any moment the history of
\* push_back is what has run followed by what the loop has still to run.
THEOREM TasksRunInOrder == Spec => []FifoOnce
<1>1. IInv => FifoOnce
  BY InOrder
<1> QED BY Invariance, <1>1, PTL

\* A thread never waits for a mutex it holds, and the vector stays as it is
\* while render iterates over it.
THEOREM IterationIsSafe == Spec => []NoSelfDeadlock /\ StableWhileIterating
<1>1. IInv => NoSelfDeadlock
  BY DEF IInv, Owner, NoSelfDeadlock
<1>2. IInv /\ [Next]_vars => [render = "run" => tasks' = tasks]_vars
  <2> SUFFICES ASSUME IInv, Next, render = "run" PROVE tasks' = tasks
    BY DEF vars
  <2>1. CASE Render
    BY <2>1 DEF Render, AtRender, NextFrame, TestLocked, RenderLock, RunTask,
                EndOfTasks, ClearTasks, RenderUnlock, ResetLocked
  <2>2. ASSUME NEW p \in Callers, RunLater(p) PROVE tasks' = tasks
    <3>1. ~PushTask(p)
      BY GuiTasksAssumption DEF IInv, Owner, PushTask, Callers
    <3> QED BY <2>2, <3>1 DEF RunLater, RunNow, StartPost, PostLock, SetLocked,
                              PostUnlock
  <2> QED BY <2>1, <2>2 DEF Next
<1>3. [][render = "run" => tasks' = tasks]_vars <=> StableWhileIterating
  BY DEF StableWhileIterating
<1> QED BY Invariance, <1>1, <1>2, <1>3, PTL DEF Spec

\* A step that runs a task takes the head of the abstract queue.
LEMMA RunRefines == ASSUME IInv, RunTask PROVE Abstract!Run
<1> USE DEF IInv
<1>1. /\ TypeOK /\ TypeOK'
      /\ tasks' = tasks /\ next' = next + 1 /\ ran' = Append(ran, tasks[next])
      /\ next \in 1 .. Len(tasks) /\ Len(tasks) \in Nat
  BY RenderIInv DEF RunTask, Render, TypeOK
<1>2. /\ Waiting \in Seq(Task) /\ Len(Waiting) = Len(tasks) + 1 - next
      /\ \A i \in 1 .. Len(Waiting) : Waiting[i] = tasks[next - 1 + i]
  BY <1>1, WaitingShape
<1>3. /\ Waiting' \in Seq(Task) /\ Len(Waiting') = Len(tasks) - next
      /\ \A i \in 1 .. Len(Waiting') : Waiting'[i] = tasks[next + i]
  <2>1. Waiting' = SubSeq(tasks, next + 1, Len(tasks))
    BY <1>1 DEF Waiting
  <2>2. \A i \in 1 .. Len(tasks) : tasks[i] \in Task
    BY <1>1 DEF TypeOK
  <2> QED BY SMTT(30), <1>1, <2>1, <2>2
<1>4. Waiting # <<>> /\ Head(Waiting) = tasks[next]
  BY <1>1, <1>2
<1>5. /\ Tail(Waiting) \in Seq(Task) /\ Len(Tail(Waiting)) = Len(tasks) - next
      /\ \A i \in 1 .. Len(Tail(Waiting)) : Tail(Waiting)[i] = tasks[next + i]
  <2>1. Tail(Waiting) \in Seq(Task) /\ Len(Tail(Waiting)) = Len(Waiting) - 1
    BY <1>2, <1>4
  <2>2. \A i \in 1 .. Len(Tail(Waiting)) : Tail(Waiting)[i] = Waiting[i + 1]
    BY <1>2, <1>4, <2>1
  <2>3. ASSUME NEW i \in 1 .. Len(Tail(Waiting))
        PROVE  Tail(Waiting)[i] = tasks[next + i]
    <3>1. i + 1 \in 1 .. Len(Waiting) /\ next - 1 + (i + 1) = next + i
      BY <1>1, <1>2, <2>1
    <3> QED BY <1>2, <2>2, <3>1
  <2> QED BY <1>1, <1>2, <2>1, <2>3
<1> HIDE DEF IInv
<1>6. Waiting' = Tail(Waiting)
  BY <1>3, <1>5, SeqEqual
<1> QED BY <1>1, <1>4, <1>6 DEF Abstract!Run

\* A push_back appends a new task to the abstract queue.
LEMMA PushRefines ==
  ASSUME IInv, NEW p \in Callers, PushTask(p)
  PROVE  Abstract!Post(<<p, made[p]>>)
<1> DEFINE t == <<p, made[p]>>
<1>1. TypeOK /\ next = 1 /\ next' = next /\ ran' = ran
  BY DEF IInv, PushTask, Owner, LoopIndex, Callers
<1>2. t \in Task
  BY DEF IInv, PushTask, TypeOK, Fresh, Task
<1>3. tasks' = Append(tasks, t)
  BY DEF PushTask
<1> HIDE DEF t
<1>4. tasks \in Seq(Task) /\ Len(tasks) \in Nat
  BY <1>1 DEF TypeOK
<1>5. Waiting = tasks /\ Waiting' = tasks'
  <2>1. \A s \in Seq(Task) : SubSeq(s, 1, Len(s)) = s
    BY SubSeqProperties, SeqEqual
  <2>2. tasks' \in Seq(Task)
    BY <1>2, <1>3, <1>4
  <2> QED BY <1>1, <1>4, <2>1, <2>2 DEF Waiting
<1>6. \A i \in 1 .. Len(posted) : posted[i] # t
  BY DEF IInv, PushTask, Fresh, t
<1>7. \A i \in DOMAIN ran : ran[i] # t
  <2>1. DOMAIN ran = 1 .. Len(ran) /\ Len(ran) \in Nat
    BY <1>1 DEF TypeOK
  <2>2. Len(posted) = Len(ran) + Len(tasks)
    BY <1>1, <1>4, <2>1 DEF IInv, Positions
  <2>3. 1 .. Len(ran) \subseteq 1 .. Len(posted)
    BY <1>4, <2>1, <2>2
  <2> QED BY <1>6, <2>1, <2>3 DEF IInv, Positions
<1>8. \A i \in DOMAIN tasks : tasks[i] # t
  <2> SUFFICES ASSUME NEW i \in 1 .. Len(tasks) PROVE tasks[i] # t
    BY <1>4
  <2>1. Len(ran) \in Nat /\ Len(posted) = Len(ran) + Len(tasks)
    BY <1>1, <1>4 DEF IInv, Positions, TypeOK
  <2>2. Len(ran) + 1 + i - next = Len(ran) + i
    BY <1>1, <2>1
  <2>3. tasks[i] = posted[Len(ran) + i]
    BY <1>1, <2>2 DEF IInv, Positions
  <2>4. Len(ran) + i \in 1 .. Len(posted)
    BY <1>4, <2>1
  <2> QED BY <1>6, <2>3, <2>4
<1>9. t \notin Abstract!Elements(Waiting) \cup Abstract!Elements(ran)
  BY <1>5, <1>7, <1>8 DEF Abstract!Elements
<1> QED BY <1>1, <1>3, <1>5, <1>9 DEF Abstract!Post, t

\* Every other step leaves the abstract queue as it is.
LEMMA OthersStutter ==
  ASSUME IInv, [Next]_vars, ~RunTask, \A p \in Callers : ~PushTask(p)
  PROVE  UNCHANGED <<Waiting, ran>>
<1>1. CASE ClearTasks
  <2>1. next = Len(tasks) + 1 /\ tasks \in Seq(Task) /\ Len(tasks) \in Nat
    BY <1>1 DEF IInv, TypeOK, LoopIndex, ClearTasks, AtRender
  <2>2. Waiting = <<>>
    BY <2>1 DEF Waiting
  <2>3. Waiting' = <<>> /\ ran' = ran
    BY <1>1 DEF ClearTasks, Waiting
  <2> QED BY <2>2, <2>3
<1>2. CASE ~ClearTasks
  <2>1. UNCHANGED <<tasks, next, ran>>
    BY <1>2 DEF Next, vars, Render, NextFrame, TestLocked, RenderLock,
                EndOfTasks, RenderUnlock, ResetLocked, RunLater, RunNow,
                StartPost, PostLock, SetLocked, PostUnlock
  <2> QED BY <2>1 DEF Waiting
<1> QED BY <1>1, <1>2

\* The mutex, the vector and the flag implement the queue of TaskQueue, for
\* any threads: every step of a thread is a step of the queue or none.
THEOREM QueueImplemented == Spec => ImplementsTaskQueue
<1>1. Init => Abstract!Init
  BY DEF Init, Waiting, Abstract!Init
<1>2. IInv /\ [Next]_vars => [Abstract!Next]_Abstract!vars
  <2> SUFFICES ASSUME IInv, [Next]_vars PROVE [Abstract!Next]_Abstract!vars
    OBVIOUS
  <2>1. CASE RunTask
    BY <2>1, RunRefines DEF Abstract!Next
  <2>2. ASSUME NEW p \in Callers, PushTask(p) PROVE Abstract!Next
    <3>1. <<p, made[p]>> \in Task
      BY <2>2 DEF IInv, PushTask, TypeOK, Fresh, Task
    <3> QED BY <2>2, <3>1, PushRefines DEF Abstract!Next
  <2>3. CASE ~RunTask /\ \A p \in Callers : ~PushTask(p)
    BY <2>3, OthersStutter DEF Abstract!vars
  <2> QED BY <2>1, <2>2, <2>3
<1> QED BY Invariance, <1>1, <1>2, PTL DEF Spec, Abstract!Spec, ImplementsTaskQueue
=============================================================================
