------------------------- MODULE MessageCacheProofs -------------------------
(***************************************************************************)
(* MessageCache for any names, files, cache size and bounds: types, the     *)
(* order of messages over restarts, and that a torn file stays torn.        *)
(***************************************************************************)
EXTENDS MessageCache, Encoding, SequenceTheorems, FiniteSetTheorems, TLAPS

\* Cached keeps the end of a sequence.
LEMMA CachedFacts ==
  ASSUME NEW S, NEW s \in Seq(S)
  PROVE  /\ Cached(s) \in Seq(S)
         /\ Len(Cached(s)) <= Len(s)
         /\ \A k \in 1 .. Len(Cached(s)) :
              Cached(s)[k] = s[k + (Len(s) - Len(Cached(s)))]
<1>1. CASE Len(s) <= CacheSize
  <2>1. Cached(s) = s /\ Len(s) \in Nat
    BY <1>1 DEF Cached
  <2> QED BY <2>1
<1>2. CASE ~(Len(s) <= CacheSize)
  <2> DEFINE first == Len(s) - CacheSize + 1
  <2>1. Len(s) \in Nat /\ CacheSize \in Nat
    BY MessageCacheAssumption
  <2>2. first \in 1 .. Len(s) + 1 /\ Len(s) \in Nat
    BY <1>2, <2>1
  <2>3. Cached(s) = SubSeq(s, first, Len(s))
    BY <1>2 DEF Cached
  <2>4. \A k \in first .. Len(s) : s[k] \in S
    BY <2>2
  <2>5. /\ SubSeq(s, first, Len(s)) \in Seq(S)
        /\ Len(SubSeq(s, first, Len(s))) = CacheSize
        /\ \A k \in 1 .. CacheSize :
             SubSeq(s, first, Len(s))[k] = s[first + k - 1]
    BY <2>1, <2>2, <2>4, <1>2, SubSeqProperties
  <2>6. \A k \in 1 .. CacheSize : first + k - 1 = k + (Len(s) - CacheSize)
    BY <2>1
  <2> QED BY <1>2, <2>1, <2>3, <2>5, <2>6
<1> QED BY <1>1, <1>2

\* A thread that moves on keeps the types of its locals.
LEMMA MovedFacts ==
  ASSUME NEW place \in Place, NEW p \in Points
  PROVE  Moved(place, p) \in Place /\ Moved(place, p).pc = p
<1>1. 0 \in Id /\ <<>> \in Seq(Message)
  BY MessageCacheAssumption DEF Id
<1>2. AtRest \in Place
  BY <1>1, MessageCacheAssumption DEF AtRest, Place, Points, Job, NoName
<1> QED BY <1>1, <1>2 DEF Moved, Place, AtRest

LEMMA GoToFacts ==
  ASSUME TypeOK, NEW t \in Thread, NEW p \in Points, GoTo(t, p)
  PROVE  /\ at' \in [Thread -> Place]
         /\ at'[t] = Moved(at[t], p)
         /\ \A u \in Thread \ {t} : at'[u] = at[u]
<1>1. at \in [Thread -> Place] /\ at[t] \in Place
  BY DEF TypeOK
<1>2. Moved(at[t], p) \in Place
  BY <1>1, MovedFacts
<1> QED BY <1>1, <1>2 DEF GoTo

LEMMA SavedFacts == ASSUME NEW t PROVE Saved(t) \in Points /\ Got(t) \in Points
BY DEF Saved, Got, Points

LEMMA Kept ==
  /\ DiskOK /\ UNCHANGED disk => DiskOK'
  /\ ModelOK /\ UNCHANGED model => ModelOK'
<1>1. DiskOK /\ UNCHANGED disk => DiskOK'
  BY DEF DiskOK, disk
<1>2. ModelOK /\ UNCHANGED model => ModelOK'
  BY DEF ModelOK, model
<1> QED BY <1>1, <1>2

LEMMA InitTypes == Init => TypeOK
<1> SUFFICES ASSUME Init PROVE TypeOK
  OBVIOUS
<1>1. 0 \in Id /\ <<>> \in Seq(Message)
  BY MessageCacheAssumption DEF Id
<1>2. AtRest \in Place
  BY <1>1, MessageCacheAssumption DEF AtRest, Place, Points, Job, NoName
<1>3. DiskOK
  BY MessageCacheAssumption DEF Init, DiskOK
<1>4. ModelOK
  BY MessageCacheAssumption DEF Init, ModelOK
<1> QED BY <1>2, <1>3, <1>4, MessageCacheAssumption DEF Init, TypeOK

\* Steps of the program that only the files survive.
LEMMA EndTypes == ASSUME TypeOK, NEW how \in {"down", "undefined"}, Ends(how)
                  PROVE  TypeOK'
<1>1. 0 \in Id /\ <<>> \in Seq(Message)
  BY MessageCacheAssumption DEF Id
<1>2. AtRest \in Place
  BY <1>1, MessageCacheAssumption DEF AtRest, Place, Points, Job, NoName
<1>3. at' \in [Thread -> Place]
  BY <1>2 DEF Ends
<1>4. DiskOK'
  BY Kept DEF TypeOK, Ends
<1>5. ModelOK'
  BY MessageCacheAssumption DEF Ends, ModelOK
<1>6. run' \in {"up", "down", "undefined"} /\ starts' \in Nat
  BY DEF TypeOK, Ends
<1>7. focused' \in BOOLEAN /\ sent' \in 0 .. MaxMessages
  BY DEF TypeOK, Ends
<1>8. stale' \subseteq Thread /\ slipped' \subseteq Id /\ disturbed' \subseteq Id
  BY DEF Ends
<1> QED BY <1>3, <1>4, <1>5, <1>6, <1>7, <1>8 DEF TypeOK

\* The types of what a step leaves alone, and of the locals of one thread.
LEMMA BeginFacts ==
  ASSUME TypeOK, NEW t \in Thread, NEW n \in Name, NEW p \in Points,
         NEW j \in Job, NEW m \in Message \cup {None}, Begin(t, n, p, j, m)
  PROVE  /\ at' \in [Thread -> Place]
         /\ at'[t] = [pc |-> p, job |-> j, name |-> n, id |-> joined[n],
                      msg |-> m, buffer |-> <<>>]
         /\ joined[n] \in Id
         /\ \A u \in Thread \ {t} : at'[u] = at[u]
<1>1. joined[n] \in Id /\ n \in 0 .. Names
  BY MessageCacheAssumption DEF Begin, TypeOK, ModelOK, Name
<1>2. <<>> \in Seq(Message)
  OBVIOUS
<1>3. [pc |-> p, job |-> j, name |-> n, id |-> joined[n], msg |-> m,
       buffer |-> <<>>] \in Place
  BY <1>1, <1>2 DEF Place
<1>4. at \in [Thread -> Place]
  BY DEF TypeOK
<1> QED BY <1>1, <1>3, <1>4 DEF Begin

LEMMA AddMessageFacts ==
  ASSUME TypeOK, NEW t \in Thread, NEW n \in Name, AddMessage(t, n)
  PROVE  /\ sent' = sent + 1 /\ sent' \in 0 .. MaxMessages
         /\ at' \in [Thread -> Place]
         /\ at'[t] = [pc |-> "get", job |-> "add", name |-> n,
                      id |-> joined[n], buffer |-> <<>>,
                      msg |-> [by |-> t, number |-> sent + 1]]
         /\ [by |-> t, number |-> sent + 1] \in Message
         /\ joined[n] \in Id
         /\ \A u \in Thread \ {t} : at'[u] = at[u]
<1>1. sent + 1 \in 1 .. MaxMessages /\ sent' = sent + 1
      /\ sent' \in 0 .. MaxMessages
  BY MessageCacheAssumption DEF AddMessage, TypeOK
<1>2. [by |-> t, number |-> sent + 1] \in Message
  BY <1>1 DEF Message
<1>3. Begin(t, n, "get", "add", [by |-> t, number |-> sent + 1])
  BY DEF AddMessage
<1>4. "get" \in Points /\ "add" \in Job
  BY DEF Points, Job
<1> QED BY <1>1, <1>2, <1>3, <1>4, BeginFacts

LEMMA LocalTypes ==
  ASSUME TypeOK, Working, NEW t \in Thread, ThreadStep(t) \/ ConnStep \/ GuiStep,
         run' = "up"
  PROVE  at' \in [Thread -> Place] /\ sent' \in 0 .. MaxMessages
<1>0. at \in [Thread -> Place] /\ sent \in 0 .. MaxMessages
  BY DEF TypeOK
<1>1. ASSUME NEW u \in Thread, NEW p \in Points, GoTo(u, p)
      PROVE  at' \in [Thread -> Place]
  BY <1>1, GoToFacts
<1>2. \A u \in Thread : Saved(u) \in Points /\ Got(u) \in Points
  BY SavedFacts
<1>3. ASSUME NEW how, how # "up", Ends(how) PROVE FALSE
  BY <1>3 DEF Ends
<1>4. {"idle", "load", "push", "test", "save", "write", "reset", "erase", "close"}
        \subseteq Points
  BY DEF Points
<1>5. ASSUME NEW u \in Thread, ThreadStep(u)
      PROVE  at' \in [Thread -> Place] /\ sent' \in 0 .. MaxMessages
  <2>1. ASSUME NEW n \in Name, AddChannel(u, n)
        PROVE  at' \in [Thread -> Place] /\ sent' = sent
    <3>1. count \in Id /\ n \in 0 .. Names /\ at[u] \in Place
      BY <1>0, <2>1, MessageCacheAssumption
      DEF AddChannel, TypeOK, ModelOK, Id, Name
    <3>2. [at[u] EXCEPT !.pc = "register", !.name = n, !.id = count] \in Place
      BY <3>1 DEF Place, Points
    <3>3. at' = [at EXCEPT ![u] =
                   [at[u] EXCEPT !.pc = "register", !.name = n, !.id = count]]
      BY <1>0, <2>1 DEF AddChannel
    <3> QED BY <1>0, <2>1, <3>2, <3>3 DEF AddChannel
  <2>2. ASSUME NEW n \in Name, AddMessage(u, n)
        PROVE  at' \in [Thread -> Place] /\ sent' \in 0 .. MaxMessages
    BY <2>2, AddMessageFacts
  <2>3. CASE Register(u)
    BY <1>0, <1>1, <1>4, <2>3 DEF Register
  <2>4. CASE Get(u)
    <3>1. (IF StateThere(u) THEN Got(u) ELSE "load") \in Points
      BY <1>2, <1>4
    <3> QED BY <1>0, <1>1, <2>4, <3>1 DEF Get
  <2>5. CASE Load(u)
    <3> DEFINE read == IF HasFile(u) /\ file[CurrentFile(u)] # Absent
                       THEN file[CurrentFile(u)] ELSE <<>>
    <3>1. at[u] \in Place /\ at[u].name \in Name
      BY <1>0, <2>5 DEF Load, At, Working
    <3>2. HasFile(u) => CurrentFile(u) \in Name
      BY <3>1, MessageCacheAssumption
      DEF HasFile, CurrentFile, NoFile, Name, TypeOK, DiskOK
    <3>3. read \in Seq(Message)
      <4>1. CASE HasFile(u) /\ file[CurrentFile(u)] # Absent
        <5>1. file[CurrentFile(u)] \in Seq(Message) \cup {Absent, Torn}
          BY <3>2, <4>1 DEF TypeOK, DiskOK
        <5> QED BY <2>5, <4>1, <5>1 DEF Load, ReadsTornFile
      <4>2. CASE ~(HasFile(u) /\ file[CurrentFile(u)] # Absent)
        BY <4>2
      <4> QED BY <4>1, <4>2
    <3> HIDE DEF read
    <3>4. [at[u] EXCEPT !.pc = "insert", !.buffer = read] \in Place
      BY <3>1, <3>3 DEF Place, Points
    <3>5. at' = [at EXCEPT ![u] = [at[u] EXCEPT !.pc = "insert", !.buffer = read]]
      BY <1>0, <2>5 DEF Load, read
    <3> QED BY <1>0, <2>5, <3>4, <3>5 DEF Load
  <2>6. CASE Insert(u)
    BY <1>0, <1>1, <1>2, <2>6 DEF Insert
  <2>7. CASE Mark(u)
    BY <1>0, <1>1, <1>4, <2>7 DEF Mark
  <2>8. CASE Push(u)
    BY <1>0, <1>1, <1>4, <2>8 DEF Push
  <2>9. CASE TestFocus(u)
    <3>1. (IF focused THEN "idle" ELSE "save") \in Points
      BY <1>4
    <3> QED BY <1>0, <1>1, <2>9, <3>1 DEF TestFocus
  <2>10. CASE Save(u)
    <3>1. CASE StateThere(u) /\ state[at[u].id].received
      <4> DEFINE copy == Cached(state[at[u].id].messages)
      <4>1. at[u] \in Place /\ at[u].id \in Id
        BY <1>0 DEF Place
      <4>2. state[at[u].id] \in ChannelState
        BY <3>1, <4>1 DEF StateThere, TypeOK, ModelOK
      <4>3. copy \in Seq(Message)
        BY <4>2, CachedFacts DEF ChannelState
      <4> HIDE DEF copy
      <4>4. [at[u] EXCEPT !.pc = "open", !.buffer = copy] \in Place
        BY <4>1, <4>3 DEF Place, Points
      <4>5. at' = [at EXCEPT ![u] = [at[u] EXCEPT !.pc = "open", !.buffer = copy]]
        BY <1>0, <2>10, <3>1 DEF Save, copy
      <4> QED BY <1>0, <2>10, <4>4, <4>5 DEF Save
    <3>2. CASE ~(StateThere(u) /\ state[at[u].id].received)
      BY <1>0, <1>1, <1>2, <2>10, <3>2 DEF Save
    <3> QED BY <3>1, <3>2
  <2>11. CASE OpenFile(u)
    BY <1>0, <1>1, <1>4, <2>11 DEF OpenFile
  <2>12. CASE WriteFile(u)
    BY <1>0, <1>1, <1>4, <2>12 DEF WriteFile
  <2>13. CASE Reset(u)
    BY <1>0, <1>1, <1>2, <2>13 DEF Reset
  <2>14. CASE Dangling(u) \/ ParseError(u)
    BY <1>3, <2>14 DEF Dangling, ParseError
  <2> QED BY <1>0, <1>5, <2>1, <2>2, <2>3, <2>4, <2>5, <2>6, <2>7, <2>8, <2>9,
             <2>10, <2>11, <2>12, <2>13, <2>14 DEF ThreadStep
<1>6. "conn" \in Thread /\ "gui" \in Thread
  BY DEF Thread
<1>7. CASE ConnStep
  <2>1. ASSUME NEW n \in Name, Part(n)
        PROVE  at' \in [Thread -> Place] /\ sent' = sent
    <3>1. "save" \in Points /\ "part" \in Job
      BY DEF Points, Job
    <3> QED BY <1>6, <2>1, <3>1, BeginFacts DEF Part
  <2>2. CASE RemoveChannel
    BY <1>0, <1>1, <1>4, <1>6, <2>2 DEF RemoveChannel
  <2>3. CASE EraseChannel
    BY <1>0, <1>1, <1>4, <1>6, <2>3 DEF EraseChannel
  <2> QED BY <1>0, <1>7, <2>1, <2>2, <2>3 DEF ConnStep
<1>8. CASE GuiStep
  <2>1. ASSUME NEW n \in Name, OpenChannel(n)
        PROVE  at' \in [Thread -> Place] /\ sent' = sent
    <3>1. "get" \in Points /\ "open" \in Job
      BY DEF Points, Job
    <3> QED BY <1>6, <2>1, <3>1, BeginFacts DEF OpenChannel
  <2>2. ASSUME NEW j \in Job, PersistChannels(j)
        PROVE  at' \in [Thread -> Place] /\ sent' = sent
    <3>1. [at["gui"] EXCEPT !.pc = "advance", !.job = j] \in Place
      BY <1>0, <1>6 DEF Place, Points
    <3>2. at' = [at EXCEPT !["gui"] =
                   [at["gui"] EXCEPT !.pc = "advance", !.job = j]]
      BY <1>0, <1>6, <2>2 DEF PersistChannels
    <3> QED BY <1>0, <1>6, <2>2, <3>1, <3>2 DEF PersistChannels
  <2>3. CASE LoseFocus \/ EndLoop
    <3>1. "focus" \in Job /\ "exit" \in Job
      BY DEF Job
    <3> QED BY <1>0, <2>2, <2>3, <3>1 DEF LoseFocus, EndLoop
  <2>4. CASE GainFocus \/ Disconnect
    BY <1>0, <2>4 DEF GainFocus, Disconnect
  <2>5. CASE Advance
    <3>1. CASE GoTo("gui", IF at["gui"].job = "exit" THEN "close" ELSE "idle")
      <4>1. (IF at["gui"].job = "exit" THEN "close" ELSE "idle") \in Points
        BY <1>4
      <4> QED BY <1>0, <1>1, <1>6, <2>5, <3>1, <4>1 DEF Advance
    <3>2. ASSUME NEW n \in Later,
                 at' = [at EXCEPT !["gui"].pc = "save", !["gui"].name = n,
                                  !["gui"].id = joined[n]]
          PROVE  at' \in [Thread -> Place]
      <4>1. n \in 0 .. Names /\ joined[n] \in Id
        BY <3>2, MessageCacheAssumption DEF Later, Name, TypeOK, ModelOK
      <4>2. [at["gui"] EXCEPT !.pc = "save", !.name = n, !.id = joined[n]] \in Place
        BY <1>0, <1>6, <4>1 DEF Place, Points
      <4>3. at' = [at EXCEPT !["gui"] = [at["gui"] EXCEPT !.pc = "save",
                     !.name = n, !.id = joined[n]]]
        BY <1>0, <1>6, <3>2
      <4> QED BY <1>0, <1>6, <4>2, <4>3
    <3> QED BY <1>0, <2>5, <3>1, <3>2 DEF Advance
  <2>6. CASE CloseAll
    BY <1>3, <2>6 DEF CloseAll
  <2> QED BY <1>0, <1>8, <2>1, <2>3, <2>4, <2>5, <2>6 DEF GuiStep
<1> QED BY <1>5, <1>7, <1>8

\* The state of a channel that is replaced by another one, or removed.
LEMMA StateTypes ==
  ASSUME ModelOK, NEW i \in Id, NEW c \in ChannelState \cup {None},
         state' = [state EXCEPT ![i] = c], UNCHANGED <<joined, count>>
  PROVE  ModelOK'
BY DEF ModelOK

LEMMA ThreadModel ==
  ASSUME TypeOK, Working, NEW t \in Thread, ThreadStep(t), run' = "up"
  PROVE  ModelOK'
<1>0. /\ at[t] \in Place /\ at[t].id \in Id /\ at[t].buffer \in Seq(Message)
      /\ ModelOK
  BY DEF TypeOK, Place
<1>1. StateThere(t) => /\ state[at[t].id] \in ChannelState
                       /\ state[at[t].id].messages \in Seq(Message)
  BY <1>0 DEF StateThere, ModelOK, ChannelState
<1>2. CASE Register(t)
  <2>1. at[t].name \in Name
    BY <1>2 DEF Register, At, Working
  <2>2. at[t].id + 1 \in 0 .. MaxIds
    BY <1>0, MessageCacheAssumption DEF Id
  <2>3. joined' \in [Name -> Id \cup {None}] /\ count' \in 0 .. MaxIds
    BY <1>0, <1>2, <2>1, <2>2 DEF Register, ModelOK
  <2> QED BY <1>0, <1>2, <2>3 DEF Register, ModelOK
<1>3. CASE Insert(t)
  <2>1. [messages |-> at[t].buffer, received |-> FALSE] \in ChannelState
    BY <1>0 DEF ChannelState
  <2> QED BY <1>0, <1>3, <2>1, StateTypes DEF Insert
<1>4. CASE Mark(t)
  <2>1. [state[at[t].id] EXCEPT !.received = TRUE] \in ChannelState
    BY <1>1, <1>4 DEF Mark, ChannelState
  <2>2. state' = [state EXCEPT ![at[t].id] =
                    [state[at[t].id] EXCEPT !.received = TRUE]]
    BY <1>0, <1>4 DEF Mark, ModelOK
  <2> QED BY <1>0, <1>4, <2>1, <2>2, StateTypes DEF Mark
<1>5. CASE Reset(t)
  <2>1. [state[at[t].id] EXCEPT !.received = FALSE] \in ChannelState
    BY <1>1, <1>5 DEF Reset, ChannelState
  <2>2. state' = [state EXCEPT ![at[t].id] =
                    [state[at[t].id] EXCEPT !.received = FALSE]]
    BY <1>0, <1>5 DEF Reset, ModelOK
  <2> QED BY <1>0, <1>5, <2>1, <2>2, StateTypes DEF Reset
<1>6. CASE Push(t)
  <2> DEFINE longer == Append(state[at[t].id].messages, at[t].msg)
  <2>1. at[t].msg \in Message
    BY <1>6 DEF Push, At, Working, Adding
  <2>2. longer \in Seq(Message)
    BY <1>1, <1>6, <2>1 DEF Push
  <2> HIDE DEF longer
  <2>3. [state[at[t].id] EXCEPT !.messages = longer] \in ChannelState
    BY <1>1, <1>6, <2>2 DEF Push, ChannelState
  <2>4. state' = [state EXCEPT ![at[t].id] =
                    [state[at[t].id] EXCEPT !.messages = longer]]
    BY <1>0, <1>6 DEF Push, ModelOK, longer
  <2> QED BY <1>0, <1>6, <2>3, <2>4, StateTypes DEF Push
<1>7. CASE Dangling(t) \/ ParseError(t)
  BY <1>7 DEF Dangling, ParseError, Ends
<1>8. CASE UNCHANGED model
  BY <1>0, <1>8, Kept
<1>9. CASE \E n \in Name : AddChannel(t, n) \/ AddMessage(t, n)
  BY <1>8, <1>9 DEF AddChannel, AddMessage, Begin
<1> QED BY <1>2, <1>3, <1>4, <1>5, <1>6, <1>7, <1>8, <1>9
        DEF ThreadStep, Get, Load, TestFocus, Save, OpenFile, WriteFile

LEMMA ThreadDisk ==
  ASSUME TypeOK, Working, NEW t \in Thread, ThreadStep(t), run' = "up"
  PROVE  DiskOK' /\ UNCHANGED fileOf
<1>0. at[t] \in Place /\ at[t].buffer \in Seq(Message) /\ DiskOK
  BY DEF TypeOK, Place
<1>1. ASSUME NEW f, NEW content \in Seq(Message) \cup {Absent, Torn},
             file' = [file EXCEPT ![f] = content], UNCHANGED fileOf
      PROVE  DiskOK'
  BY <1>0, <1>1 DEF DiskOK
<1>2. CASE OpenFile(t)
  <2>1. CASE HasFile(t)
    BY <1>0, <1>1, <1>2, <2>1 DEF OpenFile
  <2>2. CASE ~HasFile(t)
    BY <1>0, <1>2, <2>2, Kept DEF OpenFile, disk
  <2> QED BY <1>2, <2>1, <2>2 DEF OpenFile
<1>3. CASE WriteFile(t)
  BY <1>0, <1>1, <1>3 DEF WriteFile
<1>4. CASE UNCHANGED disk
  BY <1>0, <1>4, Kept DEF disk
<1>5. CASE \E n \in Name : AddChannel(t, n) \/ AddMessage(t, n)
  BY <1>4, <1>5 DEF AddChannel, AddMessage, Begin
<1> QED BY <1>2, <1>3, <1>4, <1>5
        DEF ThreadStep, Register, Get, Load, Insert, Mark, Push, TestFocus, Save,
            Reset, Dangling, ParseError, Ends

LEMMA OtherTypes ==
  ASSUME TypeOK, NEW t \in Thread, ThreadStep(t), run' = "up"
  PROVE  /\ run' \in {"up", "down", "undefined"} /\ starts' \in Nat
         /\ focused' \in BOOLEAN
         /\ stale' \subseteq Thread /\ slipped' \subseteq Id
         /\ disturbed' \subseteq Id
<1>0. /\ starts \in Nat /\ focused \in BOOLEAN /\ stale \subseteq Thread
      /\ slipped \subseteq Id /\ disturbed \subseteq Id /\ at[t].id \in Id
  BY DEF TypeOK, Place
<1>1. starts' = starts /\ focused' = focused
  <2>1. CASE \E n \in Name : AddChannel(t, n) \/ AddMessage(t, n)
    BY <2>1 DEF AddChannel, AddMessage, Begin
  <2>2. CASE Dangling(t) \/ ParseError(t)
    BY <2>2 DEF Dangling, ParseError, Ends
  <2> QED BY <2>1, <2>2 DEF ThreadStep, Register, Get, Load, Insert, Mark, Push,
             TestFocus, Save, OpenFile, WriteFile, Reset
<1>2. stale' \subseteq Thread
  <2>1. CASE \E n \in Name : AddChannel(t, n) \/ AddMessage(t, n)
    BY <1>0, <2>1 DEF AddChannel, AddMessage, Begin
  <2>2. CASE Dangling(t) \/ ParseError(t)
    BY <2>2 DEF Dangling, ParseError, Ends
  <2>3. CASE OpenFile(t)
    BY <1>0, <2>3 DEF OpenFile
  <2>4. CASE WriteFile(t)
    BY <1>0, <2>4 DEF WriteFile
  <2> QED BY <1>0, <2>1, <2>2, <2>3, <2>4 DEF ThreadStep, Register, Get, Load,
             Insert, Mark, Push, TestFocus, Save, Reset
<1>3. slipped' \subseteq Id /\ disturbed' \subseteq Id
  <2>1. CASE UNCHANGED history
    BY <1>0, <2>1 DEF history
  <2>2. CASE \E n \in Name : AddChannel(t, n) \/ AddMessage(t, n)
    BY <2>1, <2>2 DEF AddChannel, AddMessage, Begin
  <2>3. CASE Dangling(t) \/ ParseError(t)
    BY <2>3 DEF Dangling, ParseError, Ends
  <2>4. CASE Register(t) \/ Insert(t) \/ WriteFile(t)
    BY <1>0, <2>4 DEF Register, Insert, WriteFile
  <2>5. CASE Mark(t) \/ Push(t) \/ Reset(t)
    BY <1>0, <2>5 DEF Mark, Push, Reset, history
  <2> QED BY <2>1, <2>2, <2>3, <2>4, <2>5 DEF ThreadStep, Get, Load, TestFocus,
             Save, OpenFile
<1> QED BY <1>0, <1>1, <1>2, <1>3

LEMMA TypesKept == TypeOK /\ Working /\ [Next]_vars => TypeOK'
<1> SUFFICES ASSUME TypeOK, Working, [Next]_vars PROVE TypeOK'
  OBVIOUS
<1>0. DiskOK /\ ModelOK /\ "gui" \in Thread /\ "conn" \in Thread
  BY DEF TypeOK, Thread
<1>1. CASE run' = "up"
  <2>1. ASSUME NEW t \in Thread, ThreadStep(t) PROVE TypeOK'
    <3>1. at' \in [Thread -> Place] /\ sent' \in 0 .. MaxMessages
      BY <1>1, <2>1, LocalTypes
    <3>2. ModelOK' /\ DiskOK'
      BY <1>1, <2>1, ThreadModel, ThreadDisk
    <3> QED BY <1>1, <2>1, <3>1, <3>2, OtherTypes DEF TypeOK
  <2>2. CASE ConnStep \/ GuiStep
    <3>1. at' \in [Thread -> Place] /\ sent' \in 0 .. MaxMessages
      BY <1>0, <1>1, <2>2, LocalTypes
    <3>2. ModelOK'
      <4>1. CASE RemoveChannel
        <5>1. at["conn"].id \in Id
          BY <1>0 DEF TypeOK, Place
        <5> QED BY <1>0, <4>1, <5>1, StateTypes DEF RemoveChannel
      <4>2. CASE EraseChannel \/ Disconnect
        BY <1>0, <4>2 DEF EraseChannel, Disconnect, ModelOK
      <4>3. CASE UNCHANGED model
        BY <1>0, <4>3, Kept
      <4>4. CASE \E n \in Name : Part(n) \/ OpenChannel(n)
        BY <4>3, <4>4 DEF Part, OpenChannel, Begin
      <4>5. CASE LoseFocus \/ EndLoop
        BY <4>3, <4>5 DEF LoseFocus, EndLoop, PersistChannels
      <4>6. CASE CloseAll
        BY <1>1, <4>6 DEF CloseAll, Ends
      <4> QED BY <2>2, <4>1, <4>2, <4>3, <4>4, <4>5, <4>6
              DEF ConnStep, GuiStep, GainFocus, Advance
    <3>3. /\ UNCHANGED disk /\ starts' = starts /\ focused' \in BOOLEAN
          /\ UNCHANGED <<stale, history>>
      <4>1. CASE \E n \in Name : Part(n) \/ OpenChannel(n)
        BY <4>1 DEF Part, OpenChannel, Begin, TypeOK
      <4>2. CASE LoseFocus \/ EndLoop
        BY <4>2 DEF LoseFocus, EndLoop, PersistChannels, TypeOK
      <4>3. CASE CloseAll
        BY <1>1, <4>3 DEF CloseAll, Ends
      <4> QED BY <2>2, <4>1, <4>2, <4>3 DEF ConnStep, GuiStep, GainFocus, Advance,
                 Disconnect, RemoveChannel, EraseChannel, TypeOK
    <3>4. DiskOK'
      BY <1>0, <3>3, Kept
    <3> QED BY <1>1, <3>1, <3>2, <3>3, <3>4 DEF TypeOK, history
  <2>3. CASE Start
    <3>1. ModelOK' /\ DiskOK'
      BY <1>0, <2>3, Kept DEF Start
    <3>2. /\ starts' \in Nat /\ at' = at /\ sent' = sent /\ focused' = focused
          /\ stale' = stale /\ slipped' = slipped /\ disturbed' = disturbed
      BY <2>3 DEF Start, history, TypeOK
    <3> QED BY <1>1, <3>1, <3>2 DEF TypeOK
  <2>4. CASE UNCHANGED vars
    <3>1. ModelOK' /\ DiskOK'
      BY <1>0, <2>4, Kept DEF vars
    <3> QED BY <1>1, <2>4, <3>1 DEF TypeOK, vars, history
  <2>5. CASE Crash
    BY <1>1, <2>5 DEF Crash, Ends
  <2> QED BY <2>1, <2>2, <2>3, <2>4, <2>5 DEF Next
<1>2. CASE run' # "up"
  <2>1. CASE UNCHANGED vars
    <3>1. ModelOK' /\ DiskOK'
      BY <1>0, <2>1, Kept DEF vars
    <3> QED BY <2>1, <3>1 DEF TypeOK, vars, history
  <2>2. CASE \E how \in {"down", "undefined"} : Ends(how)
    BY <2>2, EndTypes
  <2>3. run = "up" /\ Next => \E how \in {"down", "undefined"} : Ends(how)
    BY <1>2 DEF Next, ThreadStep, ConnStep, GuiStep, AddChannel, AddMessage, Begin,
       Register, Get, Load, Insert, Mark, Push, TestFocus, Save, OpenFile,
       WriteFile, Reset, Dangling, ParseError, Part, RemoveChannel, EraseChannel,
       OpenChannel, LoseFocus, EndLoop, PersistChannels, GainFocus, Advance,
       Disconnect, CloseAll, Crash, Start
  <2>4. run # "up" /\ Next => Start
    BY DEF Next, ThreadStep, ConnStep, GuiStep, AddChannel, AddMessage, Begin,
       Register, Get, Load, Insert, Mark, Push, TestFocus, Save, OpenFile,
       WriteFile, Reset, Dangling, ParseError, Part, RemoveChannel, EraseChannel,
       OpenChannel, LoseFocus, EndLoop, PersistChannels, GainFocus, Advance,
       Disconnect, CloseAll, Crash, At
  <2>5. Start => run' = "up"
    BY DEF Start
  <2> QED BY <1>2, <2>1, <2>2, <2>3, <2>4, <2>5
<1> QED BY <1>1, <1>2

\* A step of the running program, one that ends it, or a start.
LEMMA StepKinds ==
  ASSUME Next
  PROVE  \/ /\ run = "up" /\ run' = "up"
            /\ (\E t \in Thread : ThreadStep(t)) \/ ConnStep \/ GuiStep
         \/ \E how \in {"down", "undefined"} : Ends(how)
         \/ Start
<1>1. CASE Crash
  BY <1>1 DEF Crash
<1>2. CASE Start
  BY <1>2
<1>3. ASSUME NEW t \in Thread, ThreadStep(t)
      PROVE  /\ run = "up"
             /\ run' = "up" \/ \E how \in {"down", "undefined"} : Ends(how)
  BY <1>3 DEF ThreadStep, AddChannel, AddMessage, Begin, Register, Get, Load,
     Insert, Mark, Push, TestFocus, Save, OpenFile, WriteFile, Reset, Dangling,
     ParseError, At
<1>4. ASSUME ConnStep \/ GuiStep
      PROVE  /\ run = "up"
             /\ run' = "up" \/ \E how \in {"down", "undefined"} : Ends(how)
  BY <1>4 DEF ConnStep, GuiStep, Begin, Part, RemoveChannel, EraseChannel,
     OpenChannel, LoseFocus, EndLoop, PersistChannels, GainFocus, Advance,
     Disconnect, CloseAll, At
<1> QED BY <1>1, <1>2, <1>3, <1>4 DEF Next

-----------------------------------------------------------------------------
\* The place of one thread changes, and it gets no message to add.

NoNewMessage ==
  /\ sent' = sent
  /\ \A t \in Thread : Adding(t)' => Adding(t) /\ at'[t].msg = at[t].msg

LEMMA PlaceFrame ==
  ASSUME TypeOK, Working, NEW t \in Thread, NEW new,
         at' = [at EXCEPT ![t] = new], sent' = sent,
         new.pc \notin {"idle", "advance", "close"} => new.name \in Name,
         new.pc \in {"mark", "push"} => new.job = "add",
         (new.job = "add" /\ new.pc \in {"get", "load", "insert", "mark", "push"})
           => Adding(t) /\ new.msg = at[t].msg
  PROVE  Working' /\ NoNewMessage
<1>1. at'[t] = new /\ \A u \in Thread \ {t} : at'[u] = at[u]
  BY DEF TypeOK
<1>2. NoNewMessage
  <2>1. ASSUME NEW u \in Thread, Adding(u)'
        PROVE  Adding(u) /\ at'[u].msg = at[u].msg
    BY <1>1, <2>1 DEF Adding
  <2> QED BY <2>1 DEF NoNewMessage
<1>3. ASSUME NEW u \in Thread
      PROVE  /\ at'[u].pc \notin {"idle", "advance", "close"} => at'[u].name \in Name
             /\ at'[u].pc \in {"mark", "push"} => at'[u].job = "add"
             /\ Adding(u)' => /\ at'[u].msg \in Message
                              /\ at'[u].msg.by = u /\ at'[u].msg.number <= sent'
  <2>1. Adding(u)' => /\ at'[u].msg \in Message
                      /\ at'[u].msg.by = u /\ at'[u].msg.number <= sent'
    BY <1>2 DEF NoNewMessage, Working
  <2>2. CASE u = t
    BY <1>1, <2>1, <2>2
  <2>3. CASE u # t
    BY <1>1, <2>1, <2>3 DEF Working
  <2> QED BY <2>2, <2>3
<1>4. Working'
  BY <1>3 DEF Working
<1> QED BY <1>2, <1>4

LEMMA GoToFrame ==
  ASSUME TypeOK, Working, NEW t \in Thread, NEW p \in Points \ {"get", "insert"},
         GoTo(t, p), sent' = sent,
         p \notin {"idle", "advance", "close"} => at[t].name \in Name,
         p \in {"mark", "push"} => at[t].job = "add",
         p \in {"load", "mark", "push"} /\ at[t].job = "add" => Adding(t)
  PROVE  /\ Working' /\ NoNewMessage
         /\ at'[t].buffer \in {at[t].buffer, <<>>}
         /\ \A u \in Thread \ {t} : at'[u] = at[u]
<1> DEFINE new == Moved(at[t], p)
<1>0. at \in [Thread -> Place] /\ at[t] \in Place
  BY DEF TypeOK
<1>1. new.pc = p /\ new \in Place
  BY <1>0, MovedFacts
<1>2. at' = [at EXCEPT ![t] = new]
  BY <1>0 DEF GoTo
<1>3. CASE p \in {"idle", "close"}
  <2>1. new = [AtRest EXCEPT !.pc = p]
    BY <1>3 DEF Moved
  <2>2. new.buffer = <<>>
    BY <2>1 DEF AtRest
  <2> HIDE DEF new
  <2>3. Working' /\ NoNewMessage
    BY <1>0, <1>1, <1>2, <1>3, PlaceFrame
  <2> QED BY <1>0, <1>2, <2>2, <2>3
<1>4. CASE p \notin {"idle", "close"}
  <2>1. new = [at[t] EXCEPT !.pc = p,
                 !.msg = IF p \in {"load", "mark", "push"} THEN @ ELSE None,
                 !.buffer = IF p \in {"write", "reset"} THEN @ ELSE <<>>]
    BY <1>4 DEF Moved
  <2>2. /\ new.job = at[t].job /\ new.name = at[t].name
        /\ p \in {"load", "mark", "push"} => new.msg = at[t].msg
        /\ new.buffer \in {at[t].buffer, <<>>}
    BY <1>0, <2>1 DEF Place
  <2> HIDE DEF new
  <2>3. Working' /\ NoNewMessage
    BY <1>0, <1>1, <1>2, <1>4, <2>2, PlaceFrame
  <2> QED BY <1>0, <1>2, <2>2, <2>3
<1> QED BY <1>3, <1>4

-----------------------------------------------------------------------------
\* Sequences of messages that are in order and older than what comes.

Fine(s) == s \in Seq(Message) /\ Ordered(s) /\ Older(s)

LEMMA ContentsFine ==
  ASSUME TypeOK, Logged
  PROVE  /\ \A i \in Id : state[i] # None => Fine(state[i].messages)
         /\ \A f \in Name : Readable(f) => Fine(file[f])
         /\ \A t \in Thread : Fine(at[t].buffer)
         /\ Fine(<<>>)
<1>1. ASSUME NEW i \in Id, state[i] # None PROVE Fine(state[i].messages)
  <2>1. state[i].messages \in Contents
    BY <1>1 DEF Contents
  <2>2. state[i].messages \in Seq(Message)
    BY <1>1 DEF TypeOK, ModelOK, ChannelState
  <2> QED BY <2>1, <2>2 DEF Logged, Fine
<1>2. ASSUME NEW f \in Name, Readable(f) PROVE Fine(file[f])
  <2>1. file[f] \in Contents
    BY <1>2 DEF Contents
  <2>2. file[f] \in Seq(Message)
    BY <1>2 DEF TypeOK, DiskOK, Readable
  <2> QED BY <2>1, <2>2 DEF Logged, Fine
<1>3. ASSUME NEW t \in Thread PROVE Fine(at[t].buffer)
  <2>1. at[t].buffer \in Contents
    BY DEF Contents
  <2>2. at[t].buffer \in Seq(Message)
    BY DEF TypeOK, Place
  <2> QED BY <2>1, <2>2 DEF Logged, Fine
<1>4. Fine(<<>>)
  BY DEF Fine, Ordered, Older
<1> QED BY <1>1, <1>2, <1>3, <1>4

LEMMA CachedFine == ASSUME NEW s, Fine(s) PROVE Fine(Cached(s))
<1> DEFINE c == Cached(s)
           d == Len(s) - Len(c)
<1>1. s \in Seq(Message)
  BY DEF Fine
<1>2. /\ c \in Seq(Message) /\ Len(c) <= Len(s)
      /\ \A k \in 1 .. Len(c) : c[k] = s[k + d]
  BY <1>1, CachedFacts
<1>3. Len(s) \in Nat /\ Len(c) \in Nat
  BY <1>1, <1>2
<1> HIDE DEF c
<1>4. \A k \in 1 .. Len(c) : k + d \in 1 .. Len(s)
  BY <1>2, <1>3
<1>5. Ordered(c)
  <2> SUFFICES ASSUME NEW i \in 1 .. Len(c), NEW j \in 1 .. Len(c), i < j,
                      c[i].by = c[j].by
               PROVE  c[i].number < c[j].number
    BY DEF Ordered
  <2>1. i + d \in 1 .. Len(s) /\ j + d \in 1 .. Len(s) /\ i + d < j + d
    BY <1>3, <1>4
  <2>2. c[i] = s[i + d] /\ c[j] = s[j + d]
    BY <1>2
  <2> HIDE DEF d
  <2> QED BY <2>1, <2>2 DEF Fine, Ordered
<1>6. Older(c)
  <2> SUFFICES ASSUME NEW k \in 1 .. Len(c)
               PROVE  /\ c[k].number <= sent
                      /\ Adding(c[k].by) => c[k].number < at[c[k].by].msg.number
    BY DEF Older
  <2>1. k + d \in 1 .. Len(s) /\ c[k] = s[k + d]
    BY <1>2, <1>4
  <2> HIDE DEF d
  <2> QED BY <2>1 DEF Fine, Older
<1> QED BY <1>2, <1>5, <1>6 DEF Fine, c

\* A step without a new message keeps what is in order so.
LEMMA FineKept ==
  ASSUME TypeOK, TypeOK', NoNewMessage, NEW s, Fine(s)
  PROVE  Ordered(s)' /\ Older(s)'
<1>1. Ordered(s)'
  BY DEF Fine, Ordered
<1>2. ASSUME NEW k \in 1 .. Len(s)
      PROVE  /\ s[k].number <= sent'
             /\ Adding(s[k].by)' => s[k].number < at'[s[k].by].msg.number
  <2>1. s[k] \in Message
    BY <1>2 DEF Fine
  <2>2. s[k].by \in Thread
    BY <2>1 DEF Message
  <2> QED BY <2>2 DEF Fine, Older, NoNewMessage
<1> QED BY <1>1, <1>2 DEF Older

LEMMA LoggedKept ==
  ASSUME TypeOK, TypeOK', NoNewMessage,
         \A i \in Id : state'[i] # None => Fine(state'[i].messages),
         \A f \in Name : Readable(f)' => Fine(file'[f]),
         \A t \in Thread : Fine(at'[t].buffer)
  PROVE  Logged'
<1> SUFFICES ASSUME NEW s \in Contents' PROVE Ordered(s)' /\ Older(s)'
  BY DEF Logged
<1>1. CASE \E i \in Id : state'[i] # None /\ s = state'[i].messages
  BY <1>1, FineKept
<1>2. CASE \E f \in Name : Readable(f)' /\ s = file'[f]
  BY <1>2, FineKept
<1>3. CASE \E t \in Thread : s = at'[t].buffer
  BY <1>3, FineKept
<1> QED BY <1>1, <1>2, <1>3 DEF Contents

-----------------------------------------------------------------------------
\* What every step but the arrival of a message does to the locals.

BuffersFine == \A u \in Thread : Fine(at'[u].buffer)

LEMMA PlaceBuffers ==
  ASSUME TypeOK, Logged, NEW t \in Thread, NEW new, at' = [at EXCEPT ![t] = new],
         Fine(new.buffer)
  PROVE  BuffersFine
<1>1. at'[t] = new /\ \A u \in Thread \ {t} : at'[u] = at[u]
  BY DEF TypeOK
<1> QED BY <1>1, ContentsFine DEF BuffersFine

LEMMA ThreadLocals ==
  ASSUME TypeOK, Working, Logged, NEW t \in Thread, ThreadStep(t), run' = "up",
         \A n \in Name : ~AddMessage(t, n)
  PROVE  Working' /\ NoNewMessage /\ BuffersFine
<1>0. /\ at \in [Thread -> Place] /\ at[t] \in Place /\ Fine(at[t].buffer)
      /\ Fine(<<>>)
  BY ContentsFine DEF TypeOK
<1>1. at[t].pc \notin {"idle", "advance", "close"} => at[t].name \in Name
  BY DEF Working
<1>2. ASSUME NEW p \in Points \ {"get", "insert"}, GoTo(t, p), sent' = sent,
             at[t].name \in Name,
             p \in {"mark", "push"} => at[t].job = "add",
             p \in {"load", "mark", "push"} /\ at[t].job = "add" => Adding(t)
      PROVE  Working' /\ NoNewMessage /\ BuffersFine
  <2>1. /\ Working' /\ NoNewMessage
        /\ at'[t].buffer \in {at[t].buffer, <<>>}
        /\ \A u \in Thread \ {t} : at'[u] = at[u]
    BY <1>2, GoToFrame
  <2> QED BY <1>0, <2>1, ContentsFine DEF BuffersFine
<1>3. {"idle", "load", "mark", "push", "test", "save", "write", "reset", "remove",
       "advance"} \subseteq Points \ {"get", "insert"}
  BY DEF Points
<1>4. ASSUME NEW n \in Name, AddChannel(t, n)
      PROVE  Working' /\ NoNewMessage /\ BuffersFine
  <2> DEFINE new == [at[t] EXCEPT !.pc = "register", !.name = n, !.id = count]
  <2>1. at' = [at EXCEPT ![t] = new] /\ sent' = sent
    BY <1>0, <1>4 DEF AddChannel
  <2>2. new.pc = "register" /\ new.name = n /\ new.buffer = at[t].buffer
    BY <1>0 DEF Place
  <2> HIDE DEF new
  <2> QED BY <1>0, <2>1, <2>2, PlaceFrame, PlaceBuffers
<1>5. CASE Register(t)
  BY <1>1, <1>2, <1>3, <1>5 DEF Register, At
<1>6. CASE Get(t)
  <2>1. CASE StateThere(t) /\ at[t].job = "add"
    <3>1. GoTo(t, "mark") /\ Adding(t)
      BY <1>6, <2>1 DEF Get, Got, At, Adding
    <3> QED BY <1>1, <1>2, <1>3, <1>6, <2>1, <3>1 DEF Get, At
  <2>2. CASE StateThere(t) /\ at[t].job # "add"
    <3>1. GoTo(t, "idle")
      BY <1>6, <2>2 DEF Get, Got
    <3> QED BY <1>1, <1>2, <1>3, <1>6, <3>1 DEF Get, At
  <2>3. CASE ~StateThere(t)
    <3>1. GoTo(t, "load") /\ (at[t].job = "add" => Adding(t))
      BY <1>6, <2>3 DEF Get, At, Adding
    <3> QED BY <1>1, <1>2, <1>3, <1>6, <3>1 DEF Get, At
  <2> QED BY <2>1, <2>2, <2>3
<1>7. CASE Load(t)
  <2> DEFINE read == IF HasFile(t) /\ file[CurrentFile(t)] # Absent
                     THEN file[CurrentFile(t)] ELSE <<>>
             new == [at[t] EXCEPT !.pc = "insert", !.buffer = read]
  <2>1. at[t].name \in Name
    BY <1>1, <1>7 DEF Load, At
  <2>2. HasFile(t) => CurrentFile(t) \in Name
    BY <2>1, MessageCacheAssumption
    DEF HasFile, CurrentFile, NoFile, Name, TypeOK, DiskOK
  <2>3. Fine(read)
    <3>1. CASE HasFile(t) /\ file[CurrentFile(t)] # Absent
      <4>1. Readable(CurrentFile(t))
        BY <1>7, <3>1 DEF Load, ReadsTornFile, Readable
      <4> QED BY <2>2, <3>1, <4>1, ContentsFine
    <3>2. CASE ~(HasFile(t) /\ file[CurrentFile(t)] # Absent)
      BY <1>0, <3>2
    <3> QED BY <3>1, <3>2
  <2>4. at' = [at EXCEPT ![t] = new] /\ sent' = sent /\ at[t].pc = "load"
    BY <1>0, <1>7 DEF Load, At
  <2> HIDE DEF read
  <2>5. /\ new.pc = "insert" /\ new.name = at[t].name /\ new.buffer = read
        /\ new.job = at[t].job /\ new.msg = at[t].msg
    BY <1>0 DEF Place
  <2>6. new.job = "add" => Adding(t)
    BY <2>4, <2>5 DEF Adding
  <2> HIDE DEF new
  <2>7. Working' /\ NoNewMessage
    BY <2>1, <2>4, <2>5, <2>6, PlaceFrame
  <2>8. BuffersFine
    BY <2>3, <2>4, <2>5, PlaceBuffers
  <2> QED BY <2>7, <2>8
<1>8. CASE Insert(t)
  <2>1. CASE at[t].job = "add"
    <3>1. GoTo(t, "mark") /\ Adding(t)
      BY <1>8, <2>1 DEF Insert, Got, At, Adding
    <3> QED BY <1>1, <1>2, <1>3, <1>8, <2>1, <3>1 DEF Insert, At
  <2>2. CASE at[t].job # "add"
    <3>1. GoTo(t, "idle")
      BY <1>8, <2>2 DEF Insert, Got
    <3> QED BY <1>1, <1>2, <1>3, <1>8, <3>1 DEF Insert, At
  <2> QED BY <2>1, <2>2
<1>9. CASE Mark(t)
  <2>1. at[t].job = "add" /\ Adding(t)
    BY <1>9 DEF Mark, At, Working, Adding
  <2> QED BY <1>1, <1>2, <1>3, <1>9, <2>1 DEF Mark, At
<1>10. CASE Push(t)
  BY <1>1, <1>2, <1>3, <1>10 DEF Push, At
<1>11. CASE TestFocus(t)
  <2>1. GoTo(t, "idle") \/ GoTo(t, "save")
    BY <1>11 DEF TestFocus
  <2> QED BY <1>1, <1>2, <1>3, <1>11, <2>1 DEF TestFocus, At
<1>12. Saved(t) \in {"idle", "remove", "advance"}
  BY DEF Saved
<1>13. CASE Save(t)
  <2>1. CASE StateThere(t) /\ state[at[t].id].received
    <3> DEFINE copy == Cached(state[at[t].id].messages)
               new == [at[t] EXCEPT !.pc = "open", !.buffer = copy]
    <3>1. at[t].id \in Id
      BY <1>0 DEF Place
    <3>2. Fine(copy)
      BY <2>1, <3>1, ContentsFine, CachedFine DEF StateThere
    <3>3. at' = [at EXCEPT ![t] = new] /\ sent' = sent /\ at[t].name \in Name
      BY <1>0, <1>1, <1>13, <2>1 DEF Save, At
    <3> HIDE DEF copy
    <3>4. new.pc = "open" /\ new.name = at[t].name /\ new.buffer = copy
      BY <1>0 DEF Place
    <3> HIDE DEF new
    <3>5. Working' /\ NoNewMessage
      BY <3>3, <3>4, PlaceFrame
    <3>6. BuffersFine
      BY <3>2, <3>3, <3>4, PlaceBuffers
    <3> QED BY <3>5, <3>6
  <2>2. CASE ~(StateThere(t) /\ state[at[t].id].received)
    <3>1. GoTo(t, Saved(t)) /\ sent' = sent /\ at[t].name \in Name
      BY <1>1, <1>13, <2>2 DEF Save, At
    <3> QED BY <1>2, <1>3, <1>12, <3>1
  <2> QED BY <2>1, <2>2
<1>14. CASE OpenFile(t)
  <2>1. (GoTo(t, "write") \/ GoTo(t, "reset")) /\ sent' = sent /\ at[t].name \in Name
    BY <1>1, <1>14 DEF OpenFile, At
  <2> QED BY <1>2, <1>3, <2>1
<1>15. CASE WriteFile(t)
  <2>1. GoTo(t, "reset") /\ sent' = sent /\ at[t].name \in Name
    BY <1>1, <1>15 DEF WriteFile, At
  <2> QED BY <1>2, <1>3, <2>1
<1>16. CASE Reset(t)
  <2>1. GoTo(t, Saved(t)) /\ sent' = sent /\ at[t].name \in Name
    BY <1>1, <1>16 DEF Reset, At
  <2> QED BY <1>2, <1>3, <1>12, <2>1
<1>17. ~Dangling(t) /\ ~ParseError(t)
  BY DEF Dangling, ParseError, Ends
<1> QED BY <1>4, <1>5, <1>6, <1>7, <1>8, <1>9, <1>10, <1>11, <1>13, <1>14, <1>15,
           <1>16, <1>17 DEF ThreadStep

LEMMA WindowLocals ==
  ASSUME TypeOK, Working, Logged, ConnStep \/ GuiStep, run' = "up"
  PROVE  Working' /\ NoNewMessage /\ BuffersFine
<1>0. /\ at \in [Thread -> Place] /\ "gui" \in Thread /\ "conn" \in Thread
      /\ at["gui"] \in Place /\ at["conn"] \in Place
      /\ Fine(at["gui"].buffer) /\ Fine(at["conn"].buffer) /\ Fine(<<>>)
  BY ContentsFine DEF TypeOK, Thread
<1>1. ASSUME NEW t \in Thread, NEW p \in {"idle", "erase", "close"}, GoTo(t, p),
             sent' = sent, p = "erase" => at[t].name \in Name
      PROVE  Working' /\ NoNewMessage /\ BuffersFine
  <2>1. p \in Points \ {"get", "insert"}
    BY DEF Points
  <2>2. /\ Working' /\ NoNewMessage
        /\ at'[t].buffer \in {at[t].buffer, <<>>}
        /\ \A u \in Thread \ {t} : at'[u] = at[u]
    BY <1>1, <2>1, GoToFrame
  <2> QED BY <1>0, <2>2, ContentsFine DEF BuffersFine
<1>2. ASSUME NEW n \in Name, Part(n) \/ OpenChannel(n)
      PROVE  Working' /\ NoNewMessage /\ BuffersFine
  <2>1. PICK t \in Thread, p \in {"save", "get"}, j \in {"part", "open"} :
               Begin(t, n, p, j, None) /\ sent' = sent
    BY <1>0, <1>2 DEF Part, OpenChannel
  <2> DEFINE new == [pc |-> p, job |-> j, name |-> n, id |-> joined[n],
                     msg |-> None, buffer |-> <<>>]
  <2>2. at' = [at EXCEPT ![t] = new]
    BY <2>1 DEF Begin
  <2>3. /\ new.pc = p /\ new.job = j /\ new.name = n /\ new.buffer = <<>>
    OBVIOUS
  <2> HIDE DEF new
  <2>4. Working' /\ NoNewMessage
    BY <2>1, <2>2, <2>3, PlaceFrame
  <2>5. BuffersFine
    BY <1>0, <2>2, <2>3, PlaceBuffers
  <2> QED BY <2>4, <2>5
<1>3. CASE RemoveChannel
  <2>1. at["conn"].name \in Name
    BY <1>0, <1>3 DEF RemoveChannel, At, Working
  <2> QED BY <1>0, <1>1, <1>3, <2>1 DEF RemoveChannel
<1>4. CASE EraseChannel
  BY <1>0, <1>1, <1>4 DEF EraseChannel
<1>5. CASE LoseFocus \/ EndLoop
  <2>1. PICK j \in {"focus", "exit"} : PersistChannels(j)
    BY <1>5 DEF LoseFocus, EndLoop
  <2> DEFINE new == [at["gui"] EXCEPT !.pc = "advance", !.job = j]
  <2>2. at' = [at EXCEPT !["gui"] = new] /\ sent' = sent
    BY <1>0, <2>1 DEF PersistChannels
  <2>3. new.pc = "advance" /\ new.job = j /\ new.buffer = at["gui"].buffer
    BY <1>0 DEF Place
  <2> HIDE DEF new
  <2>4. Working' /\ NoNewMessage
    BY <1>0, <2>2, <2>3, PlaceFrame
  <2>5. BuffersFine
    BY <1>0, <2>2, <2>3, PlaceBuffers
  <2> QED BY <2>4, <2>5
<1>6. CASE GainFocus \/ Disconnect
  <2>1. at' = at /\ sent' = sent
    BY <1>6 DEF GainFocus, Disconnect
  <2>2. Working' /\ NoNewMessage
    BY <2>1 DEF Working, NoNewMessage, Adding
  <2>3. BuffersFine
    BY <2>1, ContentsFine DEF BuffersFine
  <2> QED BY <2>2, <2>3
<1>7. CASE Advance
  <2>1. CASE GoTo("gui", "close") \/ GoTo("gui", "idle")
    BY <1>0, <1>1, <1>7, <2>1 DEF Advance
  <2>2. ASSUME NEW n \in Later,
               at' = [at EXCEPT !["gui"].pc = "save", !["gui"].name = n,
                                !["gui"].id = joined[n]]
        PROVE  Working' /\ NoNewMessage /\ BuffersFine
    <3> DEFINE new == [at["gui"] EXCEPT !.pc = "save", !.name = n, !.id = joined[n]]
    <3>1. at' = [at EXCEPT !["gui"] = new] /\ sent' = sent /\ n \in Name
      BY <1>0, <1>7, <2>2 DEF Advance, Later
    <3>2. new.pc = "save" /\ new.name = n /\ new.buffer = at["gui"].buffer
      BY <1>0 DEF Place
    <3> HIDE DEF new
    <3>3. Working' /\ NoNewMessage
      BY <1>0, <3>1, <3>2, PlaceFrame
    <3>4. BuffersFine
      BY <1>0, <3>1, <3>2, PlaceBuffers
    <3> QED BY <3>3, <3>4
  <2> QED BY <1>7, <2>1, <2>2 DEF Advance
<1>8. ~CloseAll
  BY DEF CloseAll, Ends
<1> QED BY <1>2, <1>3, <1>4, <1>5, <1>6, <1>7, <1>8 DEF ConnStep, GuiStep

\* What every step but Push does to the map and to the files.
LEMMA StoresFine ==
  ASSUME TypeOK, Working, Logged, run' = "up",
         (\E t \in Thread : ThreadStep(t) /\ ~Push(t)) \/ ConnStep \/ GuiStep
  PROVE  /\ \A i \in Id : state'[i] # None => Fine(state'[i].messages)
         /\ \A f \in Name : Readable(f)' => Fine(file'[f])
<1>0. /\ state \in [Id -> ChannelState \cup {None}]
      /\ file \in [Name -> Seq(Message) \cup {Absent, Torn}]
      /\ \A t \in Thread : at[t].id \in Id /\ Fine(at[t].buffer)
      /\ \A i \in Id : state[i] # None => Fine(state[i].messages)
      /\ \A f \in Name : Readable(f) => Fine(file[f])
  BY ContentsFine DEF TypeOK, ModelOK, DiskOK, Place
<1>1. ASSUME state' = state
      PROVE  \A j \in Id : state'[j] # None => Fine(state'[j].messages)
  BY <1>0, <1>1
<1>2. ASSUME file' = file
      PROVE  \A f \in Name : Readable(f)' => Fine(file'[f])
  BY <1>0, <1>2 DEF Readable
<1>3. ASSUME NEW i \in Id, NEW c, c = None \/ Fine(c.messages),
             state' = [state EXCEPT ![i] = c]
      PROVE  \A j \in Id : state'[j] # None => Fine(state'[j].messages)
  BY <1>0, <1>3
<1>4. ASSUME NEW t \in Thread, Insert(t)
      PROVE  \A j \in Id : state'[j] # None => Fine(state'[j].messages)
  <2> DEFINE c == [messages |-> at[t].buffer, received |-> FALSE]
  <2>1. c.messages = at[t].buffer
    OBVIOUS
  <2>2. state' = [state EXCEPT ![at[t].id] = c]
    BY <1>4 DEF Insert
  <2> HIDE DEF c
  <2>3. Fine(c.messages) /\ at[t].id \in Id
    BY <1>0, <2>1
  <2> QED BY <1>3, <2>2, <2>3
<1>5. ASSUME NEW t \in Thread, NEW b \in BOOLEAN, StateThere(t),
             state' = [state EXCEPT ![at[t].id].received = b]
      PROVE  \A j \in Id : state'[j] # None => Fine(state'[j].messages)
  <2> DEFINE c == [state[at[t].id] EXCEPT !.received = b]
  <2>1. at[t].id \in Id /\ state[at[t].id] \in ChannelState
    BY <1>0, <1>5 DEF StateThere
  <2>2. c.messages = state[at[t].id].messages
    BY <2>1 DEF ChannelState
  <2>3. state' = [state EXCEPT ![at[t].id] = c]
    BY <1>0, <1>5, <2>1
  <2> HIDE DEF c
  <2>4. Fine(c.messages)
    BY <1>0, <1>5, <2>1, <2>2 DEF StateThere
  <2> QED BY <1>3, <2>1, <2>3, <2>4
<1>6. CASE RemoveChannel
  <2>1. "conn" \in Thread
    BY DEF Thread
  <2> QED BY <1>0, <1>2, <1>3, <1>6, <2>1 DEF RemoveChannel, disk
<1>7. ASSUME NEW t \in Thread, ThreadStep(t), ~Push(t)
      PROVE  \A j \in Id : state'[j] # None => Fine(state'[j].messages)
  <2>1. CASE \E n \in Name : AddChannel(t, n) \/ AddMessage(t, n)
    BY <1>1, <1>0, <2>1 DEF AddChannel, AddMessage, Begin, model
  <2>2. CASE Mark(t)
    BY <1>5, <2>2 DEF Mark
  <2>3. CASE Reset(t)
    BY <1>5, <2>3 DEF Reset
  <2>4. ~Dangling(t) /\ ~ParseError(t)
    BY DEF Dangling, ParseError, Ends
  <2> QED BY <1>0, <1>1, <1>4, <1>7, <2>1, <2>2, <2>3, <2>4
          DEF ThreadStep, Register, Get, Load, TestFocus, Save, OpenFile,
              WriteFile, model
<1>8. ASSUME NEW t \in Thread, ThreadStep(t)
      PROVE  \A f \in Name : Readable(f)' => Fine(file'[f])
  <2>1. CASE \E n \in Name : AddChannel(t, n) \/ AddMessage(t, n)
    BY <1>2, <2>1 DEF AddChannel, AddMessage, Begin, disk
  <2>2. CASE OpenFile(t)
    BY <1>0, <1>2, <2>2 DEF OpenFile, Readable
  <2>3. CASE WriteFile(t)
    BY <1>0, <2>3 DEF WriteFile, Readable
  <2>4. ~Dangling(t) /\ ~ParseError(t)
    BY DEF Dangling, ParseError, Ends
  <2> QED BY <1>2, <1>8, <2>1, <2>2, <2>3, <2>4
          DEF ThreadStep, Register, Get, Load, Insert, Mark, Push, TestFocus, Save,
              Reset, disk
<1>9. CASE (ConnStep \/ GuiStep) /\ ~RemoveChannel
  <2>1. UNCHANGED state /\ UNCHANGED file
    <3>1. CASE \E n \in Name : Part(n) \/ OpenChannel(n)
      BY <3>1 DEF Part, OpenChannel, Begin, model, disk
    <3>2. CASE LoseFocus \/ EndLoop
      BY <3>2 DEF LoseFocus, EndLoop, PersistChannels, model, disk
    <3>3. ~CloseAll
      BY DEF CloseAll, Ends
    <3> QED BY <1>9, <3>1, <3>2, <3>3 DEF ConnStep, GuiStep, EraseChannel,
               GainFocus, Advance, Disconnect, model, disk
  <2> QED BY <1>1, <1>2, <2>1
<1> QED BY <1>6, <1>7, <1>8, <1>9

\* A message arrives: it is newer than everything there is.
LEMMA Arrival ==
  ASSUME TypeOK, Working, Logged, TypeOK', NEW t \in Thread, NEW n \in Name,
         AddMessage(t, n)
  PROVE  Working' /\ Logged'
<1> DEFINE m == [by |-> t, number |-> sent + 1]
<1>1. /\ sent' = sent + 1 /\ m \in Message
      /\ at'[t].pc = "get" /\ at'[t].job = "add" /\ at'[t].name = n
      /\ at'[t].msg = m /\ at'[t].buffer = <<>>
      /\ \A u \in Thread \ {t} : at'[u] = at[u]
  <2>1. /\ sent' = sent + 1 /\ m \in Message
        /\ at'[t] = [pc |-> "get", job |-> "add", name |-> n, id |-> joined[n],
                     buffer |-> <<>>, msg |-> m]
        /\ \A u \in Thread \ {t} : at'[u] = at[u]
    BY AddMessageFacts
  <2> HIDE DEF m
  <2> QED BY <2>1
<1>2. m.by = t /\ m.number = sent' /\ sent \in Nat
  BY <1>1, MessageCacheAssumption DEF TypeOK
<1> HIDE DEF m
<1>3. Working'
  <2>1. ASSUME NEW u \in Thread
        PROVE  /\ at'[u].pc \notin {"idle", "advance", "close"} => at'[u].name \in Name
               /\ at'[u].pc \in {"mark", "push"} => at'[u].job = "add"
               /\ Adding(u)' => /\ at'[u].msg \in Message
                                /\ at'[u].msg.by = u /\ at'[u].msg.number <= sent'
    <3>1. CASE u = t
      BY <1>1, <1>2, <3>1
    <3>2. CASE u # t
      <4>1. at'[u] = at[u] /\ (Adding(u)' => Adding(u))
        BY <1>1, <3>2 DEF Adding
      <4>2. Adding(u) => /\ at[u].msg \in Message /\ at[u].msg.by = u
                         /\ at[u].msg.number <= sent
        BY DEF Working
      <4>3. Adding(u) => at[u].msg.number \in Nat
        BY <4>2 DEF Message
      <4>4. Adding(u) => at[u].msg.number <= sent'
        BY <1>1, <1>2, <4>2, <4>3
      <4> QED BY <4>1, <4>2, <4>4 DEF Working
    <3> QED BY <3>1, <3>2
  <2> QED BY <2>1 DEF Working
<1>4. ASSUME NEW s, Fine(s) PROVE Ordered(s)' /\ Older(s)'
  <2>1. Ordered(s)'
    BY <1>4 DEF Fine, Ordered
  <2>2. ASSUME NEW k \in 1 .. Len(s)
        PROVE  /\ s[k].number <= sent'
               /\ Adding(s[k].by)' => s[k].number < at'[s[k].by].msg.number
    <3>1. s[k] \in Message /\ s[k].number <= sent
      BY <1>4, <2>2 DEF Fine, Older
    <3>2. s[k].number \in Nat /\ s[k].by \in Thread
      BY <3>1 DEF Message
    <3>3. s[k].number < sent'
      BY <1>1, <1>2, <3>1, <3>2
    <3>4. s[k].number <= sent'
      BY <1>1, <1>2, <3>2, <3>3
    <3>5. Adding(s[k].by)' => s[k].number < at'[s[k].by].msg.number
      <4>1. CASE s[k].by = t
        BY <1>1, <1>2, <3>3, <4>1
      <4>2. CASE s[k].by # t
        <5>1. at'[s[k].by] = at[s[k].by]
          BY <1>1, <3>2, <4>2
        <5>2. Adding(s[k].by) => s[k].number < at[s[k].by].msg.number
          BY <1>4, <2>2 DEF Fine, Older
        <5> QED BY <5>1, <5>2 DEF Adding
      <4> QED BY <4>1, <4>2
    <3> QED BY <3>4, <3>5
  <2> QED BY <2>1, <2>2 DEF Older
<1>5. /\ state' = state /\ file' = file
      /\ \A u \in Thread : at'[u].buffer \in {at[u].buffer, <<>>}
  <2>1. state' = state /\ file' = file
    BY DEF AddMessage, Begin, model, disk
  <2> QED BY <1>1, <2>1
<1>6. Logged'
  <2> SUFFICES ASSUME NEW s \in Contents' PROVE Fine(s)
    BY <1>4 DEF Logged
  <2>1. CASE \E i \in Id : state[i] # None /\ s = state[i].messages
    BY <2>1, ContentsFine
  <2>2. CASE \E f \in Name : Readable(f) /\ s = file[f]
    BY <2>2, ContentsFine
  <2>3. CASE \E u \in Thread : s = at'[u].buffer
    BY <1>5, <2>3, ContentsFine
  <2> QED BY <1>5, <2>1, <2>2, <2>3 DEF Contents, Readable
<1> QED BY <1>3, <1>6

\* The message is stored behind those of its sender that came before.
LEMMA Stored ==
  ASSUME TypeOK, Working, Logged, TypeOK', NEW t \in Thread, Push(t)
  PROVE  Working' /\ Logged'
<1> DEFINE i == at[t].id
           m == at[t].msg
           old == state[i].messages
           longer == Append(old, m)
<1>1. /\ run' = "up" /\ ThreadStep(t) /\ \A n \in Name : ~AddMessage(t, n)
  BY DEF Push, At, ThreadStep, AddMessage, Begin
<1>2. Working' /\ NoNewMessage /\ BuffersFine
  BY <1>1, ThreadLocals
<1>3. /\ at[t] \in Place /\ i \in Id /\ state[i] # None /\ Adding(t)
      /\ m \in Message /\ m.by = t /\ m.number <= sent
  BY DEF TypeOK, Place, Push, At, StateThere, Working, Adding
<1>4. Fine(old)
  BY <1>3, ContentsFine
<1>5. ~Adding(t)'
  <2>1. "test" \in Points
    BY DEF Points
  <2>2. at'[t].pc = "test"
    BY <1>3, <2>1, GoToFacts, MovedFacts DEF Push
  <2> QED BY <2>2 DEF Adding
<1>6. state' = [state EXCEPT ![i] = [state[i] EXCEPT !.messages = longer]]
  BY <1>3 DEF Push, TypeOK, ModelOK
<1>7. /\ state'[i].messages = longer
      /\ \A j \in Id \ {i} : state'[j] = state[j]
  BY <1>3, <1>6 DEF TypeOK, ModelOK, ChannelState
<1>8. /\ old \in Seq(Message) /\ Len(longer) = Len(old) + 1
      /\ Len(old) \in Nat /\ longer[Len(old) + 1] = m
      /\ \A k \in 1 .. Len(old) : longer[k] = old[k]
  BY <1>3, <1>4 DEF Fine
<1>9. \A k \in 1 .. Len(old) : old[k].by = t => old[k].number < m.number
  BY <1>3, <1>4 DEF Fine, Older
<1> HIDE DEF i, m, old, longer
<1>10. PICK new : new = longer
  OBVIOUS
<1>11. Ordered(new)'
  <2> SUFFICES ASSUME NEW j \in 1 .. Len(new), NEW k \in 1 .. Len(new),
                      j < k, new[j].by = new[k].by
               PROVE  new[j].number < new[k].number
    BY DEF Ordered
  <2>1. CASE k = Len(old) + 1
    <3>1. j \in 1 .. Len(old)
      BY <1>8, <2>1
    <3> QED BY <1>3, <1>8, <1>9, <1>10, <2>1, <3>1
  <2>2. CASE k \in 1 .. Len(old)
    <3>1. j \in 1 .. Len(old)
      BY <1>8, <2>2
    <3> QED BY <1>4, <1>8, <1>10, <2>2, <3>1 DEF Fine, Ordered
  <2> QED BY <1>8, <1>10, <2>1, <2>2
<1>12. Older(new)'
  <2>1. ASSUME NEW k \in 1 .. Len(new)
        PROVE  /\ new[k].number <= sent'
               /\ Adding(new[k].by)' => new[k].number < at'[new[k].by].msg.number
    <3>1. CASE k = Len(old) + 1
      <4>1. new[k] = m /\ sent' = sent
        BY <1>2, <1>8, <1>10, <3>1 DEF NoNewMessage
      <4> QED BY <1>3, <1>5, <4>1
    <3>2. CASE k \in 1 .. Len(old)
      <4>1. new[k] = old[k]
        BY <1>8, <1>10, <3>2
      <4>2. old[k] \in Message
        BY <1>4, <3>2 DEF Fine
      <4>3. old[k].by \in Thread
        BY <4>2 DEF Message
      <4> QED BY <1>2, <1>4, <3>2, <4>1, <4>3 DEF Fine, Older, NoNewMessage
    <3> QED BY <1>8, <1>10, <2>1, <3>1, <3>2
  <2> QED BY <2>1 DEF Older
<1>13. file' = file
  BY DEF Push, disk
<1>14. ASSUME NEW s \in Contents' PROVE Ordered(s)' /\ Older(s)'
  <2>1. CASE s = new
    BY <1>11, <1>12, <2>1
  <2>2. CASE Fine(s)
    BY <1>2, <2>2, FineKept
  <2>3. CASE \E j \in Id : state'[j] # None /\ s = state'[j].messages
    <3>1. PICK j \in Id : state'[j] # None /\ s = state'[j].messages
      BY <2>3
    <3>2. CASE j = i
      BY <1>7, <1>10, <2>1, <3>1, <3>2
    <3>3. CASE j # i
      <4>1. Fine(s)
        BY <1>7, <3>1, <3>3, ContentsFine
      <4> QED BY <2>2, <4>1
    <3> QED BY <3>2, <3>3
  <2>4. CASE \E f \in Name : Readable(f)' /\ s = file'[f]
    <3>1. Fine(s)
      BY <1>13, <2>4, ContentsFine DEF Readable
    <3> QED BY <2>2, <3>1
  <2>5. CASE \E u \in Thread : s = at'[u].buffer
    <3>1. Fine(s)
      BY <1>2, <2>5 DEF BuffersFine
    <3> QED BY <2>2, <3>1
  <2> QED BY <2>3, <2>4, <2>5 DEF Contents
<1> QED BY <1>2, <1>14 DEF Logged

-----------------------------------------------------------------------------
\* Ids.

\* A thread that moves on keeps the channel it uses.
LEMMA GoToChannel ==
  ASSUME TypeOK, NEW t \in Thread, NEW p \in Points, GoTo(t, p)
  PROVE  /\ \A u \in Thread \ {t} : at'[u] = at[u]
         /\ at'[t].pc = p
         /\ Using(p) => at'[t].id = at[t].id /\ at'[t].name = at[t].name
<1>1. at[t] \in Place
  BY DEF TypeOK
<1>2. at'[t] = Moved(at[t], p) /\ \A u \in Thread \ {t} : at'[u] = at[u]
  BY GoToFacts
<1>3. at'[t].pc = p
  BY <1>1, <1>2, MovedFacts
<1>4. ASSUME Using(p) PROVE at'[t].id = at[t].id /\ at'[t].name = at[t].name
  <2>1. at'[t] = [at[t] EXCEPT !.pc = p,
                 !.msg = IF p \in {"load", "mark", "push"} THEN @ ELSE None,
                 !.buffer = IF p \in {"write", "reset"} THEN @ ELSE <<>>]
    BY <1>2, <1>4 DEF Moved, Using
  <2> QED BY <1>1, <2>1 DEF Place
<1> QED BY <1>2, <1>3, <1>4

\* What Counted says when there was no race.
Entries == \A i \in Id : state[i] # None => Given(i)
Channels == \A n \in Name : joined[n] # None => Given(joined[n])
Uses == \A t \in Thread : Using(at[t].pc) => Given(at[t].id)
OneName == \A n, m \in Name : joined[n] # None /\ joined[n] = joined[m] => n = m

LEMMA CountedParts ==
  /\ Counted <=> (disturbed # Id => Entries /\ Channels /\ Uses /\ OneName)
  /\ Counted' <=> (disturbed' # Id => Entries' /\ Channels' /\ Uses' /\ OneName')
BY DEF Counted, Entries, Channels, Uses, OneName, Using

LEMMA UsesMoved ==
  ASSUME TypeOK, Uses, NEW t \in Thread, NEW p \in Points, GoTo(t, p),
         Using(p) => Using(at[t].pc), count' = count
  PROVE  Uses'
<1>1. ASSUME NEW u \in Thread, Using(at'[u].pc) PROVE at'[u].id < count'
  <2>1. CASE u = t
    BY <1>1, <2>1, GoToChannel DEF Uses, Given
  <2>2. CASE u # t
    BY <1>1, <2>2, GoToChannel DEF Uses, Given
  <2> QED BY <2>1, <2>2
<1> QED BY <1>1 DEF Uses, Given

LEMMA UsesPlaced ==
  ASSUME TypeOK, Uses, NEW t \in Thread, NEW new, at' = [at EXCEPT ![t] = new],
         Using(new.pc) => new.id < count, count' = count
  PROVE  Uses'
<1>1. ASSUME NEW u \in Thread, Using(at'[u].pc) PROVE at'[u].id < count'
  <2>1. CASE u = t
    BY <1>1, <2>1 DEF TypeOK
  <2>2. CASE u # t
    BY <1>1, <2>2 DEF TypeOK, Uses, Given
  <2> QED BY <2>1, <2>2
<1> QED BY <1>1 DEF Uses, Given

LEMMA ThreadCounted ==
  ASSUME TypeOK, TypeOK', Working, Counted, NEW t \in Thread, ThreadStep(t), run' = "up"
  PROVE  Counted'
<1>0. /\ at[t] \in Place /\ at[t].id \in Id /\ count \in Nat
      /\ joined \in [Name -> Id \cup {None}]
      /\ state \in [Id -> ChannelState \cup {None}]
  BY MessageCacheAssumption DEF TypeOK, ModelOK, Place
<1>1. SUFFICES ASSUME disturbed' # Id
               PROVE  Entries' /\ Channels' /\ Uses' /\ OneName'
  BY CountedParts
<1>2. CASE \E n \in Name : AddChannel(t, n) \/ AddMessage(t, n)
  <2>1. PICK n \in Name : AddChannel(t, n) \/ AddMessage(t, n)
    BY <1>2
  <2>2. /\ UNCHANGED <<joined, count, state>> /\ disturbed' = disturbed
    BY <2>1 DEF AddChannel, AddMessage, Begin, model, history
  <2>3. Entries /\ Channels /\ Uses /\ OneName
    BY <1>1, <2>2, CountedParts
  <2>4. Entries' /\ Channels' /\ OneName'
    BY <2>2, <2>3 DEF Entries, Channels, OneName, Given
  <2>5. CASE AddChannel(t, n)
    <3> DEFINE new == [at[t] EXCEPT !.pc = "register", !.name = n, !.id = count]
    <3>1. at' = [at EXCEPT ![t] = new]
      BY <1>0, <2>5 DEF AddChannel, TypeOK
    <3>2. new.pc = "register"
      BY <1>0 DEF Place
    <3> HIDE DEF new
    <3>3. Uses'
      BY <2>2, <2>3, <3>1, <3>2, UsesPlaced DEF Using
    <3> QED BY <2>4, <3>3
  <2>6. CASE AddMessage(t, n)
    <3> DEFINE new == [pc |-> "get", job |-> "add", name |-> n, id |-> joined[n],
                       msg |-> [by |-> t, number |-> sent + 1], buffer |-> <<>>]
    <3>1. at' = [at EXCEPT ![t] = new] /\ joined[n] # None
      BY <2>6 DEF AddMessage, Begin
    <3>2. new.id = joined[n]
      OBVIOUS
    <3> HIDE DEF new
    <3>3. Uses'
      BY <2>2, <2>3, <3>1, <3>2, UsesPlaced DEF Channels, Given
    <3> QED BY <2>4, <3>3
  <2> QED BY <2>1, <2>5, <2>6
<1>3. CASE Register(t)
  <2>1. count = at[t].id /\ disturbed # Id
    BY <1>1, <1>3 DEF Register
  <2>2. Entries /\ Channels /\ Uses /\ OneName
    BY <2>1, CountedParts
  <2>3. /\ count' = count + 1 /\ state' = state
        /\ joined' = [joined EXCEPT ![at[t].name] = count]
    BY <1>3, <2>1 DEF Register
  <2>4. \A i \in Id : i \in Nat
    BY MessageCacheAssumption DEF Id
  <2>5. \A i \in Id : i < count => i < count'
    BY <1>0, <2>3, <2>4
  <2>6. count < count' /\ count \in Id
    BY <1>0, <2>1, <2>3
  <2>7. Entries'
    BY <2>2, <2>3, <2>5 DEF Entries, Given
  <2>8. Channels'
    <3>1. ASSUME NEW n \in Name, joined'[n] # None PROVE joined'[n] < count'
      <4>1. joined'[n] = count \/ joined'[n] = joined[n]
        BY <1>0, <2>3
      <4>2. joined[n] # None => joined[n] \in Id
        BY <1>0
      <4> QED BY <2>2, <2>5, <2>6, <3>1, <4>1, <4>2 DEF Channels, Given
    <3> QED BY <3>1 DEF Channels, Given
  <2>9. Uses'
    <3>1. "idle" \in Points
      BY DEF Points
    <3>2. /\ at'[t].pc = "idle" /\ \A u \in Thread \ {t} : at'[u] = at[u]
      BY <1>3, <3>1, GoToChannel DEF Register
    <3>3. ASSUME NEW u \in Thread, Using(at'[u].pc) PROVE at'[u].id < count'
      <4>1. u # t
        BY <3>2, <3>3 DEF Using
      <4>2. at[u].id \in Id
        BY DEF TypeOK, Place
      <4> QED BY <2>2, <2>5, <3>2, <3>3, <4>1, <4>2 DEF Uses, Given
    <3> QED BY <3>3 DEF Uses, Given
  <2>10. OneName'
    <3>1. \A n \in Name : joined[n] # None => joined[n] # count
      <4>1. ASSUME NEW n \in Name, joined[n] # None PROVE joined[n] # count
        <5>1. joined[n] \in Id /\ joined[n] < count
          BY <1>0, <2>2, <4>1 DEF Channels, Given
        <5> QED BY <1>0, <2>4, <5>1
      <4> QED BY <4>1
    <3>2. ASSUME NEW n \in Name, NEW m \in Name, joined'[n] # None,
                 joined'[n] = joined'[m]
          PROVE  n = m
      <4>1. /\ joined'[n] = IF n = at[t].name THEN count ELSE joined[n]
            /\ joined'[m] = IF m = at[t].name THEN count ELSE joined[m]
        BY <1>0, <2>3
      <4>2. CASE n = at[t].name \/ m = at[t].name
        BY <3>1, <3>2, <4>1, <4>2
      <4>3. CASE n # at[t].name /\ m # at[t].name
        BY <2>2, <3>2, <4>1, <4>3 DEF OneName
      <4> QED BY <4>2, <4>3
    <3> QED BY <3>2 DEF OneName
  <2> QED BY <2>7, <2>8, <2>9, <2>10
<1>4. CASE Insert(t) \/ Mark(t) \/ Push(t) \/ Reset(t)
  <2>1. /\ UNCHANGED <<joined, count>> /\ Using(at[t].pc)
        /\ disturbed \subseteq disturbed'
    BY <1>4 DEF Insert, Mark, Push, Reset, At, Using, history
  <2>2. disturbed # Id
    BY <1>1, <2>1 DEF TypeOK
  <2>3. Entries /\ Channels /\ Uses /\ OneName
    BY <2>2, CountedParts
  <2>4. \A i \in Id : i # at[t].id => state'[i] = state[i]
    BY <1>0, <1>4 DEF Insert, Mark, Push, Reset
  <2>5. Entries'
    <3>1. Given(at[t].id)
      BY <2>1, <2>3 DEF Uses
    <3> QED BY <2>1, <2>3, <2>4, <3>1 DEF Entries, Given
  <2>6. Channels' /\ OneName'
    BY <2>1, <2>3 DEF Channels, OneName, Given
  <2>7. PICK p \in Points : GoTo(t, p)
    <3>1. {"push", "test"} \subseteq Points
      BY DEF Points
    <3> QED BY <1>4, <3>1, SavedFacts DEF Insert, Mark, Push, Reset
  <2>8. Uses'
    BY <2>1, <2>3, <2>7, UsesMoved
  <2> QED BY <2>5, <2>6, <2>8
<1>5. CASE Get(t) \/ Load(t) \/ TestFocus(t) \/ Save(t) \/ OpenFile(t) \/ WriteFile(t)
  <2>1. /\ UNCHANGED <<joined, count, state>> /\ Using(at[t].pc)
        /\ disturbed \subseteq disturbed'
    BY <1>5 DEF Get, Load, TestFocus, Save, OpenFile, WriteFile, At, Using, model,
       history
  <2>2. disturbed # Id
    BY <1>1, <2>1 DEF TypeOK
  <2>3. Entries /\ Channels /\ Uses /\ OneName
    BY <2>2, CountedParts
  <2>4. Entries' /\ Channels' /\ OneName'
    BY <2>1, <2>3 DEF Entries, Channels, OneName, Given
  <2>5. ASSUME NEW p \in Points, NEW b,
               at' = [at EXCEPT ![t].pc = p, ![t].buffer = b]
        PROVE  Uses'
    <3> DEFINE new == [at[t] EXCEPT !.pc = p, !.buffer = b]
    <3>1. at' = [at EXCEPT ![t] = new]
      BY <1>0, <2>5 DEF TypeOK
    <3>2. new.id = at[t].id
      BY <1>0 DEF Place
    <3> HIDE DEF new
    <3> QED BY <2>1, <2>3, <3>1, <3>2, UsesPlaced DEF Uses, Given
  <2>6. ASSUME NEW p \in Points, GoTo(t, p) PROVE Uses'
    BY <2>1, <2>3, <2>6, UsesMoved
  <2>7. {"load", "idle", "save", "insert", "open", "write", "reset"} \subseteq Points
    BY DEF Points
  <2>8. CASE Load(t)
    BY <2>4, <2>5, <2>7, <2>8 DEF Load
  <2>9. CASE Save(t)
    BY <2>4, <2>5, <2>6, <2>7, <2>9, SavedFacts DEF Save
  <2>10. CASE Get(t)
    <3>1. (IF StateThere(t) THEN Got(t) ELSE "load") \in Points
      BY <2>7, SavedFacts
    <3> QED BY <2>4, <2>6, <2>10, <3>1 DEF Get
  <2>11. CASE TestFocus(t)
    <3>1. (IF focused THEN "idle" ELSE "save") \in Points
      BY <2>7
    <3> QED BY <2>4, <2>6, <2>11, <3>1 DEF TestFocus
  <2>12. CASE OpenFile(t) \/ WriteFile(t)
    BY <2>4, <2>6, <2>7, <2>12 DEF OpenFile, WriteFile
  <2> QED BY <1>5, <2>4, <2>8, <2>9, <2>10, <2>11, <2>12
<1>6. ~Dangling(t) /\ ~ParseError(t)
  BY DEF Dangling, ParseError, Ends
<1> QED BY <1>2, <1>3, <1>4, <1>5, <1>6 DEF ThreadStep

LEMMA WindowCounted ==
  ASSUME TypeOK, TypeOK', Counted, ConnStep \/ GuiStep, run' = "up"
  PROVE  Counted'
<1>0. /\ at \in [Thread -> Place] /\ "gui" \in Thread /\ "conn" \in Thread
      /\ at["gui"] \in Place /\ at["conn"] \in Place
      /\ at["conn"].id \in Id
      /\ joined \in [Name -> Id \cup {None}]
      /\ state \in [Id -> ChannelState \cup {None}]
  BY DEF TypeOK, ModelOK, Thread, Place
<1>1. SUFFICES ASSUME disturbed' # Id
               PROVE  Entries' /\ Channels' /\ Uses' /\ OneName'
  BY CountedParts
<1>2. disturbed # Id /\ count' = count
  <2>1. CASE \E n \in Name : Part(n) \/ OpenChannel(n)
    BY <1>1, <2>1 DEF Part, OpenChannel, Begin, model, history
  <2>2. CASE LoseFocus \/ EndLoop
    BY <1>1, <2>2 DEF LoseFocus, EndLoop, PersistChannels, model, history
  <2>3. ~CloseAll
    BY DEF CloseAll, Ends
  <2> QED BY <1>1, <2>1, <2>2, <2>3 DEF ConnStep, GuiStep, RemoveChannel,
             EraseChannel, GainFocus, Advance, Disconnect, model, history
<1>3. Entries /\ Channels /\ Uses /\ OneName
  BY <1>2, CountedParts
<1>4. Entries'
  <2>1. state' = state \/ state' = [state EXCEPT ![at["conn"].id] = None]
    <3>1. CASE \E n \in Name : Part(n) \/ OpenChannel(n)
      BY <3>1 DEF Part, OpenChannel, Begin, model
    <3>2. CASE LoseFocus \/ EndLoop
      BY <3>2 DEF LoseFocus, EndLoop, PersistChannels, model
    <3>3. ~CloseAll
      BY DEF CloseAll, Ends
    <3> QED BY <3>1, <3>2, <3>3 DEF ConnStep, GuiStep, RemoveChannel, EraseChannel,
               GainFocus, Advance, Disconnect, model
  <2> QED BY <1>0, <1>2, <1>3, <2>1 DEF Entries, Given
<1>5. Channels' /\ OneName'
  <2>1. \A n \in Name : joined'[n] \in {joined[n], None}
    <3>1. CASE \E n \in Name : Part(n) \/ OpenChannel(n)
      BY <3>1 DEF Part, OpenChannel, Begin, model
    <3>2. CASE LoseFocus \/ EndLoop
      BY <3>2 DEF LoseFocus, EndLoop, PersistChannels, model
    <3>3. ~CloseAll
      BY DEF CloseAll, Ends
    <3>4. CASE EraseChannel
      BY <1>0, <3>4 DEF EraseChannel
    <3>5. CASE Disconnect
      BY <3>5 DEF Disconnect
    <3> QED BY <3>1, <3>2, <3>3, <3>4, <3>5 DEF ConnStep, GuiStep, RemoveChannel,
               GainFocus, Advance, model
  <2> QED BY <1>2, <1>3, <2>1 DEF Channels, OneName, Given
<1>6. Uses'
  <2>1. ASSUME NEW n \in Name, Part(n) \/ OpenChannel(n) PROVE Uses'
    <3>1. PICK t \in Thread, p \in {"save", "get"}, j \in {"part", "open"} :
                 Begin(t, n, p, j, None)
      BY <1>0, <2>1 DEF Part, OpenChannel
    <3> DEFINE new == [pc |-> p, job |-> j, name |-> n, id |-> joined[n],
                       msg |-> None, buffer |-> <<>>]
    <3>2. at' = [at EXCEPT ![t] = new] /\ joined[n] # None
      BY <3>1 DEF Begin
    <3>3. new.id = joined[n]
      OBVIOUS
    <3> HIDE DEF new
    <3> QED BY <1>2, <1>3, <3>2, <3>3, UsesPlaced DEF Channels, Given
  <2>2. CASE RemoveChannel
    <3>1. "erase" \in Points /\ Using(at["conn"].pc)
      BY <2>2 DEF RemoveChannel, At, Using, Points
    <3> QED BY <1>0, <1>2, <1>3, <2>2, <3>1, UsesMoved DEF RemoveChannel
  <2>3. {"idle", "close"} \subseteq Points /\ ~Using("idle") /\ ~Using("close")
    BY DEF Points, Using
  <2>4. CASE EraseChannel
    BY <1>0, <1>2, <1>3, <2>3, <2>4, UsesMoved DEF EraseChannel
  <2>5. CASE LoseFocus \/ EndLoop
    <3>1. PICK j : PersistChannels(j)
      BY <2>5 DEF LoseFocus, EndLoop
    <3> DEFINE new == [at["gui"] EXCEPT !.pc = "advance", !.job = j]
    <3>2. at' = [at EXCEPT !["gui"] = new]
      BY <1>0, <3>1 DEF PersistChannels
    <3>3. new.pc = "advance"
      BY <1>0 DEF Place
    <3> HIDE DEF new
    <3> QED BY <1>0, <1>2, <1>3, <3>2, <3>3, UsesPlaced DEF Using
  <2>6. CASE GainFocus \/ Disconnect
    BY <1>2, <1>3, <2>6 DEF GainFocus, Disconnect, Uses, Given
  <2>7. CASE Advance
    <3>1. CASE GoTo("gui", "close") \/ GoTo("gui", "idle")
      BY <1>0, <1>2, <1>3, <2>3, <3>1, UsesMoved
    <3>2. ASSUME NEW n \in Later,
                 at' = [at EXCEPT !["gui"].pc = "save", !["gui"].name = n,
                                  !["gui"].id = joined[n]]
          PROVE  Uses'
      <4> DEFINE new == [at["gui"] EXCEPT !.pc = "save", !.name = n, !.id = joined[n]]
      <4>1. at' = [at EXCEPT !["gui"] = new] /\ joined[n] # None /\ n \in Name
        BY <1>0, <3>2 DEF Later
      <4>2. new.id = joined[n]
        BY <1>0 DEF Place
      <4> HIDE DEF new
      <4> QED BY <1>0, <1>2, <1>3, <4>1, <4>2, UsesPlaced DEF Channels, Given
    <3> QED BY <2>7, <3>1, <3>2 DEF Advance
  <2>8. ~CloseAll
    BY DEF CloseAll, Ends
  <2> QED BY <2>1, <2>2, <2>4, <2>5, <2>6, <2>7, <2>8 DEF ConnStep, GuiStep
<1> QED BY <1>4, <1>5, <1>6

-----------------------------------------------------------------------------
\* What a step does, point by point, while the program runs.

Others(t) == \A u \in Thread \ {t} : at'[u] = at[u]

\* Thread t goes from p to q with what it holds.
Moves(t, p, q) ==
  /\ at[t].pc = p /\ at'[t].pc = q /\ Others(t)
  /\ IF q \in {"idle", "close"} THEN at'[t].name = NoName
     ELSE /\ at'[t].name = at[t].name /\ at'[t].id = at[t].id
          /\ at'[t].job = at[t].job
  /\ q \in {"write", "reset"} => at'[t].buffer = at[t].buffer

SameFiles == UNCHANGED <<fileOf, file>>
SameModel == UNCHANGED <<joined, count, state>>
SameHistory == UNCHANGED <<slipped, disturbed>>
Same == SameFiles /\ SameModel /\ SameHistory /\ UNCHANGED focused
StateOf(t) == state[at[t].id]
OtherStates(t) == \A i \in Id \ {at[t].id} : state'[i] = state[i]

Starts(t) ==
  /\ at[t].pc = "idle" /\ at'[t].pc \in {"get", "save"} /\ Others(t)
  /\ at'[t].name \in Name /\ joined[at'[t].name] # None
  /\ at'[t].id = joined[at'[t].name]
  /\ (t = "gui" => focused) /\ Same
Asks(t) ==
  /\ at[t].pc = "idle" /\ at'[t].pc = "register" /\ Others(t)
  /\ at'[t].name \in Name /\ joined[at'[t].name] = None
  /\ at'[t].id = count
  /\ (t = "gui" => focused) /\ Same
Registers(t) ==
  /\ Moves(t, "register", "idle")
  /\ count' = at[t].id + 1
  /\ joined' = [joined EXCEPT ![at[t].name] = at[t].id]
  /\ disturbed' = (IF count = at[t].id THEN disturbed ELSE Id)
  /\ SameFiles /\ UNCHANGED <<state, slipped, focused>>
Gets(t) ==
  /\ ChannelThere(t) /\ Same
  /\ \/ ~StateThere(t) /\ Moves(t, "get", "load")
     \/ StateThere(t) /\ Moves(t, "get", "mark")
     \/ StateThere(t) /\ Moves(t, "get", "idle")
Loads(t) ==
  /\ ChannelThere(t) /\ Same /\ ~ReadsTornFile(t)
  /\ Moves(t, "load", "insert")
  /\ at'[t].buffer = (IF HasFile(t) /\ file[CurrentFile(t)] # Absent
                      THEN file[CurrentFile(t)] ELSE <<>>)
Inserts(t) ==
  /\ ChannelThere(t)
  /\ Moves(t, "insert", "mark") \/ Moves(t, "insert", "idle")
  /\ state'[at[t].id] # None
  /\ state'[at[t].id].messages = at[t].buffer /\ ~state'[at[t].id].received
  /\ OtherStates(t)
  /\ disturbed' = (IF StateThere(t) THEN disturbed \cup {at[t].id} ELSE disturbed)
  /\ SameFiles /\ UNCHANGED <<joined, count, slipped, focused>>
Marks(t) ==
  /\ StateThere(t) /\ Moves(t, "mark", "push")
  /\ state'[at[t].id] # None
  /\ state'[at[t].id].messages = StateOf(t).messages /\ state'[at[t].id].received
  /\ OtherStates(t)
  /\ slipped' = slipped \ {at[t].id}
  /\ SameFiles /\ UNCHANGED <<joined, count, disturbed, focused>>
Stores(t) ==
  /\ StateThere(t) /\ Moves(t, "push", "test")
  /\ state'[at[t].id] # None
  /\ state'[at[t].id].messages = Append(StateOf(t).messages, at[t].msg)
  /\ state'[at[t].id].received = StateOf(t).received
  /\ OtherStates(t)
  /\ SameFiles /\ SameHistory /\ UNCHANGED <<joined, count, focused>>
Tests(t) ==
  /\ Same
  /\ \/ focused /\ Moves(t, "test", "idle")
     \/ ~focused /\ Moves(t, "test", "save")
Copies(t) ==
  /\ ChannelThere(t) /\ StateThere(t) /\ Same
  /\ Moves(t, "save", "open")
  /\ at'[t].buffer = Cached(StateOf(t).messages)
Skips(t) ==
  /\ ChannelThere(t) /\ Same
  /\ ~(StateThere(t) /\ StateOf(t).received)
  /\ Moves(t, "save", Saved(t))
OpensFile(t) ==
  /\ ChannelThere(t) /\ SameModel /\ SameHistory /\ UNCHANGED <<fileOf, focused>>
  /\ \/ /\ HasFile(t) /\ file' = [file EXCEPT ![CurrentFile(t)] = Torn]
        /\ Moves(t, "open", "write")
     \/ /\ ~HasFile(t) /\ file' = file /\ Moves(t, "open", "reset")
Writes(t) ==
  /\ Moves(t, "write", "reset")
  /\ \E content \in {at[t].buffer, Torn} :
       /\ file' = [file EXCEPT ![CurrentFile(t)] = content]
       /\ content # at[t].buffer => disturbed' = disturbed \cup {at[t].id}
  /\ disturbed' \in {disturbed, disturbed \cup {at[t].id}}
  /\ SameModel /\ UNCHANGED <<fileOf, slipped, focused>>
Resets(t) ==
  /\ StateThere(t) /\ Moves(t, "reset", Saved(t))
  /\ state'[at[t].id] # None
  /\ state'[at[t].id].messages = StateOf(t).messages /\ ~state'[at[t].id].received
  /\ OtherStates(t)
  /\ slipped' = (IF Misses(t) THEN slipped \cup {at[t].id} ELSE slipped)
  /\ SameFiles /\ UNCHANGED <<joined, count, disturbed, focused>>
Removes ==
  /\ ChannelThere("conn") /\ Moves("conn", "remove", "erase")
  /\ state'[at["conn"].id] = None /\ OtherStates("conn")
  /\ SameFiles /\ SameHistory /\ UNCHANGED <<joined, count, focused>>
Erases ==
  /\ Moves("conn", "erase", "idle")
  /\ joined' = [joined EXCEPT ![at["conn"].name] = None]
  /\ SameFiles /\ SameHistory /\ UNCHANGED <<count, state, focused>>
Persists ==
  /\ at["gui"].pc = "idle" /\ at'["gui"].pc = "advance" /\ Others("gui")
  /\ at'["gui"].name = at["gui"].name /\ at'["gui"].job \in {"focus", "exit"}
  /\ SameFiles /\ SameModel /\ SameHistory /\ (focused' => focused)
Regains ==
  /\ at["gui"].pc = "idle" /\ at' = at /\ focused'
  /\ SameFiles /\ SameModel /\ SameHistory
WalksOn ==
  /\ at["gui"].pc = "advance" /\ at'["gui"].pc = "save" /\ Others("gui")
  /\ at'["gui"].name \in Later /\ \A m \in Later : at'["gui"].name <= m
  /\ at'["gui"].id = joined[at'["gui"].name] /\ at'["gui"].job = at["gui"].job
  /\ Same
WalksOff ==
  /\ Later = {} /\ Same
  /\ Moves("gui", "advance", "idle") \/ Moves("gui", "advance", "close")
Disconnects ==
  /\ \A t \in Thread : at[t].pc = "idle"
  /\ \A n \in Name : joined'[n] = None
  /\ at' = at /\ SameFiles /\ SameHistory /\ UNCHANGED <<count, state, focused>>

Calm(t) ==
  \/ Starts(t) \/ Asks(t) \/ Gets(t) \/ Loads(t) \/ Tests(t) \/ Copies(t) \/ Skips(t)
Changes(t) ==
  \/ Registers(t) \/ Inserts(t) \/ Marks(t) \/ Stores(t)
  \/ OpensFile(t) \/ Writes(t) \/ Resets(t)
WindowStep ==
  Removes \/ Erases \/ Persists \/ Regains \/ WalksOn \/ WalksOff \/ Disconnects

LEMMA GoToMoves ==
  ASSUME TypeOK, NEW t \in Thread, NEW p \in Points, GoTo(t, p)
  PROVE  Moves(t, at[t].pc, p)
<1>1. at[t] \in Place
  BY DEF TypeOK
<1>2. at'[t] = Moved(at[t], p) /\ \A u \in Thread \ {t} : at'[u] = at[u]
  BY GoToFacts
<1>3. at'[t].pc = p
  BY <1>1, <1>2, MovedFacts
<1>4. CASE p \in {"idle", "close"}
  <2>1. at'[t] = [AtRest EXCEPT !.pc = p]
    BY <1>2, <1>4 DEF Moved
  <2>2. at'[t].name = NoName
    BY <2>1 DEF AtRest
  <2> QED BY <1>2, <1>3, <1>4, <2>2 DEF Moves, Others
<1>5. CASE p \notin {"idle", "close"}
  <2>1. at'[t] = [at[t] EXCEPT !.pc = p,
                 !.msg = IF p \in {"load", "mark", "push"} THEN @ ELSE None,
                 !.buffer = IF p \in {"write", "reset"} THEN @ ELSE <<>>]
    BY <1>2, <1>5 DEF Moved
  <2>2. /\ at'[t].name = at[t].name /\ at'[t].id = at[t].id
        /\ at'[t].job = at[t].job
        /\ p \in {"write", "reset"} => at'[t].buffer = at[t].buffer
    BY <1>1, <2>1 DEF Place
  <2> QED BY <1>2, <1>3, <1>5, <2>2 DEF Moves, Others
<1> QED BY <1>4, <1>5

\* Likewise where a step sets the buffer.
LEMMA BufferMoves ==
  ASSUME TypeOK, NEW t \in Thread, NEW p \in {"insert", "open"}, NEW b,
         at' = [at EXCEPT ![t].pc = p, ![t].buffer = b]
  PROVE  Moves(t, at[t].pc, p) /\ at'[t].buffer = b
<1>1. at \in [Thread -> Place] /\ at[t] \in Place
  BY DEF TypeOK
<1>2. at'[t] = [at[t] EXCEPT !.pc = p, !.buffer = b] /\ Others(t)
  BY <1>1 DEF Others
<1>3. /\ at'[t].pc = p /\ at'[t].buffer = b
      /\ at'[t].name = at[t].name /\ at'[t].id = at[t].id /\ at'[t].job = at[t].job
  BY <1>1, <1>2 DEF Place
<1> QED BY <1>2, <1>3 DEF Moves

\* A message or a request begins.
LEMMA BeginStarts ==
  ASSUME TypeOK, NEW t \in Thread, NEW n \in Name, NEW p \in {"get", "save"},
         NEW j, NEW m, Begin(t, n, p, j, m), t = "gui" => focused
  PROVE  Starts(t)
<1>1. /\ at'[t] = [pc |-> p, job |-> j, name |-> n, id |-> joined[n],
                   msg |-> m, buffer |-> <<>>]
      /\ Others(t)
  BY DEF Begin, TypeOK, Others
<1>2. at'[t].pc = p /\ at'[t].name = n /\ at'[t].id = joined[n]
  BY <1>1
<1>3. Same /\ at[t].pc = "idle" /\ joined[n] # None
  BY DEF Begin, At, Same, SameFiles, SameModel, SameHistory, disk, model, history
<1> QED BY <1>1, <1>2, <1>3 DEF Starts

LEMMA ThreadSteps ==
  ASSUME TypeOK, Working, NEW t \in Thread, ThreadStep(t), run' = "up"
  PROVE  Calm(t) \/ Changes(t)
<1>0. /\ at \in [Thread -> Place] /\ at[t] \in Place /\ at[t].id \in Id
      /\ state \in [Id -> ChannelState \cup {None}]
  BY DEF TypeOK, ModelOK, Place
<1>1. ASSUME NEW p \in Points, GoTo(t, p) PROVE Moves(t, at[t].pc, p)
  BY <1>1, GoToMoves
<1>2. {"idle", "load", "mark", "push", "test", "save", "write", "reset"} \subseteq Points
  BY DEF Points
<1>3. ASSUME NEW c \in ChannelState, state' = [state EXCEPT ![at[t].id] = c]
      PROVE  state'[at[t].id] = c /\ OtherStates(t)
  BY <1>0, <1>3 DEF OtherStates
<1>4. \A c \in ChannelState : c # None
  BY ValueAssumption
<1>5. ASSUME NEW n \in Name, AddChannel(t, n) PROVE Asks(t)
  <2>1. at'[t] = [at[t] EXCEPT !.pc = "register", !.name = n, !.id = count] /\ Others(t)
    BY <1>0, <1>5 DEF AddChannel, Others
  <2>2. at'[t].pc = "register" /\ at'[t].name = n /\ at'[t].id = count
    BY <1>0, <2>1 DEF Place
  <2> QED BY <1>5, <2>1, <2>2
          DEF Asks, AddChannel, At, Same, SameFiles, SameModel, SameHistory, disk, model, history
<1>6. ASSUME NEW n \in Name, AddMessage(t, n) PROVE Starts(t)
  BY <1>6, BeginStarts DEF AddMessage
<1>7. ASSUME Register(t) PROVE Registers(t)
  BY <1>1, <1>2, <1>7 DEF Register, Registers, At, SameFiles, disk
<1>8. ASSUME Get(t) PROVE Gets(t)
  <2>1. Got(t) \in {"mark", "idle"}
    BY DEF Got
  <2>2. Same
    BY <1>8 DEF Get, Same, SameFiles, SameModel, SameHistory, disk, model, history
  <2>3. CASE StateThere(t)
    <3>1. PICK p \in {"mark", "idle"} : GoTo(t, p)
      BY <1>8, <2>1, <2>3 DEF Get
    <3> QED BY <1>1, <1>2, <1>8, <2>2, <2>3, <3>1 DEF Get, Gets, At
  <2>4. CASE ~StateThere(t)
    BY <1>1, <1>2, <1>8, <2>2, <2>4 DEF Get, Gets, At
  <2> QED BY <2>3, <2>4
<1>9. ASSUME Load(t) PROVE Loads(t)
  <2>1. Same
    BY <1>9 DEF Load, Same, SameFiles, SameModel, SameHistory, disk, model, history
  <2> QED BY <1>9, <2>1, BufferMoves DEF Load, Loads, At
<1>10. ASSUME Insert(t) PROVE Inserts(t)
  <2> DEFINE c == [messages |-> at[t].buffer, received |-> FALSE]
  <2>1. c \in ChannelState /\ c.messages = at[t].buffer /\ ~c.received
    BY <1>0 DEF ChannelState, Place
  <2>2. state' = [state EXCEPT ![at[t].id] = c]
    BY <1>10 DEF Insert
  <2> HIDE DEF c
  <2>3. state'[at[t].id] = c /\ OtherStates(t) /\ c # None
    BY <1>3, <1>4, <2>1, <2>2
  <2>4. PICK p \in {"mark", "idle"} : GoTo(t, p)
    BY <1>10 DEF Insert, Got
  <2>5. Moves(t, "insert", p)
    BY <1>1, <1>2, <1>10, <2>4 DEF Insert, At
  <2> QED BY <1>10, <2>1, <2>3, <2>5 DEF Insert, Inserts, SameFiles, disk
<1>11. ASSUME NEW b \in BOOLEAN, StateThere(t),
              state' = [state EXCEPT ![at[t].id].received = b]
       PROVE  /\ state'[at[t].id] # None /\ OtherStates(t)
              /\ state'[at[t].id].messages = StateOf(t).messages
              /\ state'[at[t].id].received = b
  <2> DEFINE c == [state[at[t].id] EXCEPT !.received = b]
  <2>1. state[at[t].id] \in ChannelState
    BY <1>0, <1>11 DEF StateThere
  <2>2. c \in ChannelState /\ c.messages = StateOf(t).messages /\ c.received = b
    BY <2>1 DEF ChannelState, StateOf
  <2>3. state' = [state EXCEPT ![at[t].id] = c]
    BY <1>0, <1>11
  <2> HIDE DEF c
  <2> QED BY <1>3, <1>4, <2>2, <2>3
<1>12. ASSUME Mark(t) PROVE Marks(t)
  <2>1. Moves(t, "mark", "push")
    BY <1>1, <1>2, <1>12 DEF Mark, At
  <2> QED BY <1>11, <1>12, <2>1 DEF Mark, Marks, SameFiles, disk
<1>13. ASSUME Push(t) PROVE Stores(t)
  <2> DEFINE longer == Append(state[at[t].id].messages, at[t].msg)
             c == [state[at[t].id] EXCEPT !.messages = longer]
  <2>1. /\ state[at[t].id] \in ChannelState /\ at[t].msg \in Message
        /\ state[at[t].id].messages \in Seq(Message)
    BY <1>0, <1>13 DEF Push, At, StateThere, Working, Adding, ChannelState
  <2>2. longer \in Seq(Message)
    BY <2>1
  <2>3. state' = [state EXCEPT ![at[t].id] = c]
    BY <1>0, <1>13 DEF Push
  <2> HIDE DEF longer
  <2>4. c \in ChannelState /\ c.messages = longer /\ c.received = StateOf(t).received
    BY <2>1, <2>2 DEF ChannelState, StateOf
  <2> HIDE DEF c
  <2>5. state'[at[t].id] = c /\ OtherStates(t) /\ c # None
    BY <1>3, <1>4, <2>3, <2>4
  <2>6. Moves(t, "push", "test")
    BY <1>1, <1>2, <1>13 DEF Push, At
  <2> QED BY <1>13, <2>4, <2>5, <2>6
          DEF Push, Stores, SameFiles, SameHistory, disk, history, StateOf, longer
<1>14. ASSUME TestFocus(t) PROVE Tests(t)
  <2>1. Same
    BY <1>14 DEF TestFocus, Same, SameFiles, SameModel, SameHistory, disk, model, history
  <2> QED BY <1>1, <1>2, <1>14, <2>1 DEF TestFocus, Tests, At
<1>15. Saved(t) \in Points
  BY SavedFacts
<1>16. ASSUME Save(t) PROVE Copies(t) \/ Skips(t)
  <2>1. Same
    BY <1>16 DEF Save, Same, SameFiles, SameModel, SameHistory, disk, model, history
  <2>2. CASE StateThere(t) /\ StateOf(t).received
    <3>1. at' = [at EXCEPT ![t].pc = "open", ![t].buffer = Cached(state[at[t].id].messages)]
      BY <1>16, <2>2 DEF Save, StateOf
    <3> QED BY <1>16, <2>1, <2>2, <3>1, BufferMoves DEF Save, Copies, At, StateOf
  <2>3. CASE ~(StateThere(t) /\ StateOf(t).received)
    BY <1>1, <1>15, <1>16, <2>1, <2>3 DEF Save, Skips, At, StateOf
  <2> QED BY <2>2, <2>3
<1>17. ASSUME OpenFile(t) PROVE OpensFile(t)
  <2>1. SameModel /\ SameHistory /\ UNCHANGED <<fileOf, focused>> /\ ChannelThere(t)
    BY <1>17 DEF OpenFile, SameModel, SameHistory, model, history
  <2> QED BY <1>1, <1>2, <1>17, <2>1 DEF OpenFile, OpensFile, At
<1>18. ASSUME WriteFile(t) PROVE Writes(t)
  <2>1. SameModel /\ UNCHANGED <<fileOf, slipped, focused>> /\ Moves(t, "write", "reset")
    BY <1>1, <1>2, <1>18 DEF WriteFile, SameModel, model, At
  <2>2. disturbed' = IF Overlays(t) THEN disturbed \cup {at[t].id} ELSE disturbed
    BY <1>18 DEF WriteFile
  <2>3. PICK content \in {at[t].buffer} \cup (IF Overlays(t) THEN {Torn} ELSE {}) :
          file' = [file EXCEPT ![CurrentFile(t)] = content]
    BY <1>18 DEF WriteFile
  <2> QED BY <2>1, <2>2, <2>3 DEF Writes
<1>19. ASSUME Reset(t) PROVE Resets(t)
  <2>1. Moves(t, "reset", Saved(t))
    BY <1>1, <1>15, <1>19 DEF Reset, At
  <2> QED BY <1>11, <1>19, <2>1 DEF Reset, Resets, SameFiles, disk
<1>20. ~Dangling(t) /\ ~ParseError(t)
  BY DEF Dangling, ParseError, Ends
<1> QED BY <1>5, <1>6, <1>7, <1>8, <1>9, <1>10, <1>12, <1>13, <1>14, <1>16, <1>17,
           <1>18, <1>19, <1>20 DEF ThreadStep, Calm, Changes

LEMMA WindowSteps ==
  ASSUME TypeOK, Working, ConnStep \/ GuiStep, run' = "up"
  PROVE  WindowStep \/ \E t \in Thread : Starts(t)
<1>0. /\ at \in [Thread -> Place] /\ "gui" \in Thread /\ "conn" \in Thread
      /\ at["gui"] \in Place /\ at["conn"] \in Place /\ at["conn"].id \in Id
      /\ state \in [Id -> ChannelState \cup {None}]
  BY DEF TypeOK, ModelOK, Thread, Place
<1>1. ASSUME NEW n \in Name, Part(n) PROVE Starts("conn")
  BY <1>0, <1>1, BeginStarts DEF Part
<1>2. ASSUME NEW n \in Name, OpenChannel(n) PROVE Starts("gui")
  BY <1>0, <1>2, BeginStarts DEF OpenChannel
<1>3. {"erase", "idle", "close"} \subseteq Points
  BY DEF Points
<1>4. ASSUME RemoveChannel PROVE Removes
  <2>1. Moves("conn", "remove", "erase")
    BY <1>0, <1>3, <1>4, GoToMoves DEF RemoveChannel, At
  <2>2. state'[at["conn"].id] = None /\ OtherStates("conn")
    BY <1>0, <1>4 DEF RemoveChannel, OtherStates
  <2> QED BY <1>4, <2>1, <2>2 DEF RemoveChannel, Removes, SameFiles, SameHistory, disk, history
<1>5. ASSUME EraseChannel PROVE Erases
  <2>1. Moves("conn", "erase", "idle")
    BY <1>0, <1>3, <1>5, GoToMoves DEF EraseChannel, At
  <2> QED BY <1>5, <2>1 DEF EraseChannel, Erases, SameFiles, SameHistory, disk, history
<1>6. ASSUME LoseFocus \/ EndLoop PROVE Persists
  <2>1. PICK j \in {"focus", "exit"} : PersistChannels(j) /\ (focused' => focused)
    BY <1>6 DEF LoseFocus, EndLoop
  <2>2. at'["gui"] = [at["gui"] EXCEPT !.pc = "advance", !.job = j] /\ Others("gui")
    BY <1>0, <2>1 DEF PersistChannels, Others
  <2>3. /\ at'["gui"].pc = "advance" /\ at'["gui"].job = j
        /\ at'["gui"].name = at["gui"].name
    BY <1>0, <2>2 DEF Place
  <2>4. SameFiles /\ SameModel /\ SameHistory /\ at["gui"].pc = "idle"
    BY <2>1 DEF PersistChannels, SameFiles, SameModel, SameHistory, disk, model, history, At
  <2> QED BY <2>1, <2>2, <2>3, <2>4 DEF Persists
<1>7. ASSUME GainFocus PROVE Regains
  BY <1>7 DEF GainFocus, Regains, SameFiles, SameModel, SameHistory, disk, model, history, At
<1>8. ASSUME Advance PROVE WalksOn \/ WalksOff
  <2>1. Same /\ at["gui"].pc = "advance"
    BY <1>8 DEF Advance, Same, SameFiles, SameModel, SameHistory, disk, model, history, At
  <2>2. CASE Later = {} /\ GoTo("gui", IF at["gui"].job = "exit" THEN "close" ELSE "idle")
    <3>1. PICK p \in {"close", "idle"} : GoTo("gui", p)
      BY <2>2
    <3>2. Moves("gui", "advance", p)
      BY <1>0, <1>3, <2>1, <3>1, GoToMoves
    <3> QED BY <2>1, <2>2, <3>2 DEF WalksOff
  <2>3. ASSUME NEW n \in Later, \A m \in Later : n <= m,
               at' = [at EXCEPT !["gui"].pc = "save", !["gui"].name = n,
                                !["gui"].id = joined[n]]
        PROVE  WalksOn
    <3>1. at'["gui"] = [at["gui"] EXCEPT !.pc = "save", !.name = n, !.id = joined[n]]
          /\ Others("gui")
      BY <1>0, <2>3 DEF Others
    <3>2. /\ at'["gui"].pc = "save" /\ at'["gui"].name = n
          /\ at'["gui"].id = joined[n] /\ at'["gui"].job = at["gui"].job
      BY <1>0, <3>1 DEF Place
    <3> QED BY <2>1, <2>3, <3>1, <3>2 DEF WalksOn
  <2> QED BY <1>8, <2>2, <2>3 DEF Advance
<1>9. ASSUME Disconnect PROVE Disconnects
  <2>1. \A t \in Thread : at[t].pc = "idle"
    BY <1>9 DEF Disconnect, At, Thread
  <2> QED BY <1>9, <2>1 DEF Disconnect, Disconnects, SameFiles, SameHistory, disk, history
<1>10. ~CloseAll
  BY DEF CloseAll, Ends
<1> QED BY <1>0, <1>1, <1>2, <1>4, <1>5, <1>6, <1>7, <1>8, <1>9, <1>10
        DEF ConnStep, GuiStep, WindowStep

-----------------------------------------------------------------------------
\* Where the channels are: Homes.

Step == (\E t \in Thread : Calm(t) \/ Changes(t)) \/ WindowStep

LEMMA StepOfNext ==
  ASSUME TypeOK, Working, run' = "up",
         (\E t \in Thread : ThreadStep(t)) \/ ConnStep \/ GuiStep
  PROVE  Step
BY ThreadSteps, WindowSteps DEF Step, Calm

LEMMA BothThreads ==
  /\ "conn" \in Thread /\ "gui" \in Thread
  /\ \A t \in Thread : t = "conn" \/ t = "gui"
BY DEF Thread

\* The types that the arguments below use.
LEMMA ShapeFacts ==
  ASSUME TypeOK
  PROVE  /\ joined \in [Name -> Id \cup {None}] /\ count \in Nat
         /\ state \in [Id -> ChannelState \cup {None}]
         /\ None \notin Id /\ \A i \in Id : i \in Nat
         /\ \A t \in Thread : at[t].id \in Id /\ at[t] \in Place
         /\ disturbed \subseteq Id /\ slipped \subseteq Id
BY MessageCacheAssumption DEF TypeOK, ModelOK, Place, Id

\* No step undoes a disturbance.
LEMMA DisturbedGrows ==
  ASSUME TypeOK, Step PROVE disturbed \subseteq disturbed'
<1>1. disturbed \subseteq Id
  BY DEF TypeOK
<1> QED BY <1>1 DEF Step, Calm, Changes, WindowStep, Starts, Asks, Gets, Loads, Tests,
           Copies, Skips, Registers, Inserts, Marks, Stores, OpensFile, Writes, Resets,
           Removes, Erases, Persists, Regains, WalksOn, WalksOff, Disconnects, Same, SameHistory

LEMMA StillClean ==
  ASSUME TypeOK, TypeOK', Step, disturbed' # Id PROVE disturbed # Id
<1>1. disturbed' \subseteq Id
  BY DEF TypeOK
<1> QED BY <1>1, DisturbedGrows

FreshId ==
  \A t \in Thread : at[t].pc = "register" =>
    at[t].id <= count /\ (at[t].id = count => joined[at[t].name] = None)
OwnName ==
  \A t \in Thread, n \in Name :
    Using(at[t].pc) /\ joined[n] = at[t].id => n = at[t].name
KeepsChannel == Using(at["conn"].pc) => ChannelThere("conn")

LEMMA HomesParts ==
  /\ Homes <=> (disturbed # Id => FreshId /\ OwnName /\ KeepsChannel)
  /\ Homes' <=> (disturbed' # Id => FreshId' /\ OwnName' /\ KeepsChannel')
BY DEF Homes, FreshId, OwnName, KeepsChannel

\* A thread that goes on with its channel, or lets it go.
GoesOn(t) ==
  /\ Others(t) /\ at'[t].pc # "register"
  /\ Using(at'[t].pc) =>
       Using(at[t].pc) /\ at'[t].name = at[t].name /\ at'[t].id = at[t].id

LEMMA StepGroups ==
  ASSUME TypeOK, Step
  PROVE  \E t \in Thread :
           \/ GoesOn(t) /\ UNCHANGED <<joined, count>>
           \/ Starts(t) \/ Asks(t) \/ Registers(t)
           \/ t = "gui" /\ (WalksOn \/ Disconnects)
           \/ t = "conn" /\ Erases
<1>1. ASSUME NEW t \in Thread, NEW p, NEW q, Moves(t, p, q), q # "register",
             Using(p) \/ ~Using(q)
      PROVE  GoesOn(t)
  BY <1>1 DEF Moves, GoesOn, Using
<1>2. ASSUME NEW t \in Thread, Gets(t) \/ Loads(t) \/ Tests(t) \/ Copies(t)
      PROVE  GoesOn(t) /\ UNCHANGED <<joined, count>>
  BY <1>1, <1>2 DEF Gets, Loads, Tests, Copies, Same, SameModel, Using
<1>3. \A t \in Thread : Saved(t) # "register" /\ Using("save") /\ Using("reset")
  BY DEF Saved, Using
<1>4. ASSUME NEW t \in Thread, Skips(t) \/ Resets(t)
      PROVE  GoesOn(t) /\ UNCHANGED <<joined, count>>
  BY <1>1, <1>3, <1>4 DEF Skips, Resets, Same, SameModel
<1>5. ASSUME NEW t \in Thread, Inserts(t) \/ Marks(t) \/ Stores(t) \/ OpensFile(t) \/ Writes(t)
      PROVE  GoesOn(t) /\ UNCHANGED <<joined, count>>
  BY <1>1, <1>5 DEF Inserts, Marks, Stores, OpensFile, Writes, SameModel, Using
<1>6. CASE Removes \/ WalksOff
  <2>1. Removes => GoesOn("conn")
    BY <1>1, BothThreads DEF Removes, Using
  <2>2. WalksOff => GoesOn("gui")
    BY <1>1, BothThreads DEF WalksOff, Using
  <2>3. UNCHANGED <<joined, count>>
    BY <1>6 DEF Removes, WalksOff, Same, SameModel
  <2> QED BY <1>6, <2>1, <2>2, <2>3, BothThreads
<1>7. CASE Persists \/ Regains
  BY <1>7, BothThreads DEF Persists, Regains, GoesOn, Others, SameModel, Using
<1> QED BY <1>2, <1>4, <1>5, <1>6, <1>7, BothThreads DEF Step, Calm, Changes, WindowStep

LEMMA HomesKept ==
  ASSUME TypeOK, TypeOK', Working, Counted, Homes, Step PROVE Homes'
<1> SUFFICES ASSUME disturbed' # Id PROVE FreshId' /\ OwnName' /\ KeepsChannel'
  BY HomesParts
<1>1. disturbed # Id
  BY StillClean
<1>2. FreshId /\ OwnName /\ KeepsChannel /\ Channels /\ Uses /\ OneName
  BY <1>1, HomesParts, CountedParts
<1>3. PICK t \in Thread :
           \/ GoesOn(t) /\ UNCHANGED <<joined, count>>
           \/ Starts(t) \/ Asks(t) \/ Registers(t)
           \/ t = "gui" /\ (WalksOn \/ Disconnects)
           \/ t = "conn" /\ Erases
  BY StepGroups
<1>4. CASE GoesOn(t) /\ UNCHANGED <<joined, count>>
  <2>1. FreshId'
    BY <1>2, <1>4 DEF FreshId, GoesOn, Others
  <2>2. OwnName'
    BY <1>2, <1>4 DEF OwnName, GoesOn, Others
  <2>3. KeepsChannel'
    BY <1>2, <1>4, BothThreads DEF KeepsChannel, ChannelThere, GoesOn, Others
  <2> QED BY <2>1, <2>2, <2>3
<1>5. CASE Starts(t) \/ (t = "gui" /\ WalksOn)
  <2>1. /\ Others(t) /\ UNCHANGED <<joined, count>> /\ at'[t].pc # "register"
        /\ at'[t].name \in Name /\ joined[at'[t].name] # None
        /\ at'[t].id = joined[at'[t].name]
    BY <1>5 DEF Starts, WalksOn, Later, Same, SameModel
  <2>2. FreshId'
    BY <1>2, <2>1 DEF FreshId, Others
  <2>3. OwnName'
    BY <1>2, <2>1 DEF OwnName, OneName, Others
  <2>4. KeepsChannel'
    BY <1>2, <2>1, BothThreads DEF KeepsChannel, ChannelThere, Others
  <2> QED BY <2>2, <2>3, <2>4
<1>6. CASE Asks(t)
  <2>1. /\ Others(t) /\ UNCHANGED <<joined, count>> /\ at'[t].pc = "register"
        /\ joined[at'[t].name] = None /\ at'[t].id = count
    BY <1>6 DEF Asks, Same, SameModel
  <2>2. FreshId'
    BY <1>2, <2>1, ShapeFacts DEF FreshId, Others
  <2>3. OwnName' /\ KeepsChannel'
    BY <1>2, <2>1, BothThreads DEF OwnName, KeepsChannel, ChannelThere, Others, Using
  <2> QED BY <2>2, <2>3
<1>7. CASE Registers(t)
  <2>1. /\ count' = count + 1 /\ at[t].id = count /\ at[t].name \in Name
        /\ joined[at[t].name] = None /\ at'[t].pc = "idle" /\ Others(t)
        /\ \A n \in Name : joined'[n] = IF n = at[t].name THEN count ELSE joined[n]
    BY <1>2, <1>7, ShapeFacts DEF Registers, Moves, FreshId, Working
  <2>2. FreshId'
    <3> SUFFICES ASSUME NEW u \in Thread, at'[u].pc = "register"
                 PROVE  at'[u].id <= count' /\ at'[u].id # count'
      BY DEF FreshId
    <3>1. u # t /\ at'[u] = at[u] /\ at[u].id <= count /\ at[u].id \in Nat
      BY <1>2, <2>1, ShapeFacts DEF FreshId, Others
    <3> QED BY <2>1, <3>1, ShapeFacts
  <2>3. OwnName'
    <3> SUFFICES ASSUME NEW u \in Thread, NEW n \in Name, Using(at'[u].pc),
                        joined'[n] = at'[u].id
                 PROVE  n = at'[u].name
      BY DEF OwnName
    <3>1. u # t /\ at'[u] = at[u] /\ at[u].id < count /\ at[u].id \in Nat
      BY <1>2, <2>1, ShapeFacts DEF Uses, Given, Others, Using
    <3> QED BY <1>2, <2>1, <3>1, ShapeFacts DEF OwnName
  <2>4. KeepsChannel'
    <3> SUFFICES ASSUME Using(at'["conn"].pc) PROVE joined'[at["conn"].name] = at["conn"].id /\ at'["conn"] = at["conn"]
      BY DEF KeepsChannel, ChannelThere
    <3>1. at'["conn"] = at["conn"]
      BY <2>1, BothThreads DEF Others, Using
    <3>2. joined[at["conn"].name] = at["conn"].id /\ at["conn"].id # None
      BY <1>2, <3>1, BothThreads, ShapeFacts DEF KeepsChannel, ChannelThere
    <3>3. at["conn"].name \in Name
      BY <3>1, BothThreads DEF Working, Using
    <3> QED BY <2>1, <3>1, <3>2, <3>3
  <2> QED BY <2>2, <2>3, <2>4
<1>8. CASE t = "conn" /\ Erases
  <2>1. /\ count' = count /\ at'["conn"].pc = "idle" /\ Others("conn")
        /\ \A n \in Name : joined'[n] \in {joined[n], None}
    BY <1>8, ShapeFacts DEF Erases, Moves
  <2>2. FreshId'
    <3> SUFFICES ASSUME NEW u \in Thread, at'[u].pc = "register"
                 PROVE  /\ at'[u].id <= count'
                        /\ at'[u].id = count' => joined'[at'[u].name] = None
      BY DEF FreshId
    <3>1. at'[u] = at[u]
      BY <2>1, BothThreads DEF Others
    <3>2. at[u].name \in Name
      BY <3>1 DEF Working
    <3> QED BY <1>2, <2>1, <3>1, <3>2 DEF FreshId
  <2>3. OwnName'
    <3> SUFFICES ASSUME NEW u \in Thread, NEW n \in Name, Using(at'[u].pc),
                        joined'[n] = at'[u].id
                 PROVE  n = at'[u].name
      BY DEF OwnName
    <3>1. at'[u] = at[u] /\ at[u].id # None
      BY <2>1, BothThreads, ShapeFacts DEF Others, Using
    <3> QED BY <1>2, <2>1, <3>1 DEF OwnName
  <2>4. KeepsChannel'
    BY <2>1 DEF KeepsChannel, Using
  <2> QED BY <2>2, <2>3, <2>4
<1>9. CASE t = "gui" /\ Disconnects
  <2>1. \A u \in Thread : at'[u].pc = "idle"
    BY <1>9 DEF Disconnects
  <2> QED BY <2>1, BothThreads DEF FreshId, OwnName, KeepsChannel, Using
<1> QED BY <1>3, <1>4, <1>5, <1>6, <1>7, <1>8, <1>9

-----------------------------------------------------------------------------
\* Which states are there: StatesThere.

\* States come and stay, unless RemoveChannel takes one away.
LEMMA StatesGrow ==
  ASSUME TypeOK, Step, ~Removes, NEW i \in Id, state[i] # None
  PROVE  state'[i] # None
<1>1. ASSUME NEW t \in Thread, state'[at[t].id] # None, OtherStates(t)
      PROVE  state'[i] # None
  BY <1>1 DEF OtherStates
<1>2. ASSUME NEW t \in Thread, Calm(t) \/ Changes(t) PROVE state'[i] # None
  <2>1. CASE Inserts(t) \/ Marks(t) \/ Stores(t) \/ Resets(t)
    BY <1>1, <2>1 DEF Inserts, Marks, Stores, Resets
  <2>2. CASE state' = state
    BY <2>2
  <2> QED BY <1>2, <2>1, <2>2 DEF Calm, Changes, Starts, Asks, Gets, Loads, Tests, Copies,
             Skips, Registers, OpensFile, Writes, Same, SameModel
<1>3. CASE WindowStep
  BY <1>3 DEF WindowStep, Erases, Persists, Regains, WalksOn, WalksOff, Disconnects, Same,
     SameModel
<1> QED BY <1>2, <1>3 DEF Step

\* A thread that needs the state of its channel has just seen or made it, or
\* needed it before.
LEMMA NeedSteps ==
  ASSUME NEW t \in Thread, Calm(t) \/ Changes(t), NeedsState(at'[t].pc)
  PROVE  /\ at'[t].id = at[t].id /\ at'[t].name = at[t].name /\ joined' = joined
         /\ \/ state'[at[t].id] # None
            \/ NeedsState(at[t].pc) /\ state' = state
<1>1. ASSUME NEW p, NEW q, Moves(t, p, q)
      PROVE  /\ at[t].pc = p /\ at'[t].pc = q
             /\ at'[t].id = at[t].id /\ at'[t].name = at[t].name
  BY <1>1 DEF Moves, NeedsState
<1>2. CASE Gets(t) \/ Copies(t) \/ Inserts(t) \/ Marks(t)
  BY <1>1, <1>2 DEF Gets, Copies, Inserts, Marks, Same, SameModel, StateThere, NeedsState
<1>3. CASE OpensFile(t) \/ Writes(t)
  BY <1>1, <1>3 DEF OpensFile, Writes, SameModel, NeedsState
<1>4. CASE Starts(t) \/ Asks(t)
  BY <1>4 DEF Starts, Asks, NeedsState
<1>5. CASE Loads(t) \/ Tests(t) \/ Stores(t) \/ Registers(t)
  BY <1>1, <1>5 DEF Loads, Tests, Stores, Registers, NeedsState
<1>6. CASE Skips(t) \/ Resets(t)
  BY <1>1, <1>6 DEF Skips, Resets, NeedsState, Saved
<1> QED BY <1>2, <1>3, <1>4, <1>5, <1>6 DEF Calm, Changes

\* The point of the other thread's locals is where it was.
LEMMA OthersSame ==
  ASSUME NEW t \in Thread, Calm(t) \/ Changes(t) PROVE Others(t)
BY DEF Calm, Changes, Starts, Asks, Gets, Loads, Tests, Copies, Skips, Registers,
   Inserts, Marks, Stores, OpensFile, Writes, Resets, Moves

\* Where the steps of a thread begin.
LEMMA StepPoints ==
  ASSUME NEW t \in Thread, Calm(t) \/ Changes(t)
  PROVE  at[t].pc \notin {"remove", "erase", "advance", "close"}
BY DEF Calm, Changes, Starts, Asks, Gets, Loads, Tests, Copies, Skips, Registers,
   Inserts, Marks, Stores, OpensFile, Writes, Resets, Moves

\* The channel of a name changes where one is registered or erased.
LEMMA JoinedSteps ==
  ASSUME NEW t \in Thread, Calm(t) \/ Changes(t), ~Registers(t)
  PROVE  joined' = joined /\ count' = count
BY DEF Calm, Changes, Starts, Asks, Gets, Loads, Tests, Copies, Skips,
   Inserts, Marks, Stores, OpensFile, Writes, Resets, Same, SameModel

ConnState == NeedsState(at["conn"].pc) => StateThere("conn")
GuiState ==
  NeedsState(at["gui"].pc) /\ ~StateThere("gui")
     => \/ at["conn"].pc = "erase" /\ at["conn"].id = at["gui"].id
        \/ ~ChannelThere("gui")

LEMMA StatesParts ==
  /\ StatesThere <=> ConnState /\ (disturbed # Id => GuiState)
  /\ StatesThere' <=> ConnState' /\ (disturbed' # Id => GuiState')
BY DEF StatesThere, ConnState, GuiState

LEMMA StatesKept ==
  ASSUME TypeOK, TypeOK', Working, Counted, Homes, StatesThere, Step
  PROVE  StatesThere'
<1>0. /\ ConnState /\ (disturbed # Id => GuiState)
      /\ "conn" \in Thread /\ "gui" \in Thread /\ "conn" # "gui"
      /\ \A t \in Thread : at[t].id \in Id
  BY StatesParts, BothThreads, ShapeFacts
<1>1. ConnState'
  <2> SUFFICES ASSUME NeedsState(at'["conn"].pc) PROVE state'[at'["conn"].id] # None
    BY DEF ConnState, StateThere
  <2>1. CASE Calm("conn") \/ Changes("conn")
    BY <1>0, <2>1, NeedSteps DEF ConnState, StateThere
  <2>2. CASE at'["conn"] = at["conn"] /\ ~Removes
    BY <1>0, <2>2, StatesGrow DEF ConnState, StateThere
  <2>3. CASE Removes \/ Erases
    BY <2>3 DEF Removes, Erases, Moves, NeedsState
  <2>4. CASE Calm("gui") \/ Changes("gui")
    <3>1. at'["conn"] = at["conn"]
      BY <1>0, <2>4, OthersSame DEF Others
    <3>2. ~Removes
      BY <2>2, <3>1 DEF Removes, Moves
    <3> QED BY <2>2, <3>1, <3>2
  <2>5. CASE Persists \/ Regains \/ WalksOn \/ WalksOff \/ Disconnects
    <3>1. at'["conn"] = at["conn"]
      BY <1>0, <2>5 DEF Persists, Regains, WalksOn, WalksOff, Disconnects, Moves, Others
    <3>2. ~Removes
      BY <2>2, <3>1 DEF Removes, Moves
    <3> QED BY <2>2, <3>1, <3>2
  <2> QED BY <2>1, <2>3, <2>4, <2>5, BothThreads DEF Step, WindowStep
<1>2. ASSUME disturbed' # Id PROVE GuiState'
  <2> SUFFICES ASSUME NeedsState(at'["gui"].pc), state'[at'["gui"].id] = None
               PROVE  \/ at'["conn"].pc = "erase" /\ at'["conn"].id = at'["gui"].id
                      \/ joined'[at'["gui"].name] # at'["gui"].id
    BY DEF GuiState, StateThere, ChannelThere
  <2>1. /\ disturbed # Id /\ GuiState
        /\ OwnName /\ KeepsChannel /\ Uses /\ FreshId
    BY <1>0, <1>2, StillClean, HomesParts, CountedParts
  <2>2. CASE Calm("gui") \/ Changes("gui")
    <3>1. /\ at'["gui"].id = at["gui"].id /\ at'["gui"].name = at["gui"].name
          /\ joined' = joined /\ NeedsState(at["gui"].pc) /\ state' = state
      BY <1>0, <2>2, NeedSteps
    <3>2. at'["conn"] = at["conn"]
      BY <1>0, <2>2, OthersSame DEF Others
    <3> QED BY <2>1, <3>1, <3>2 DEF GuiState, StateThere, ChannelThere
  <2>3. CASE Calm("conn") \/ Changes("conn")
    <3>1. at'["gui"] = at["gui"] /\ at["conn"].pc # "erase" /\ ~Removes
      BY <1>0, <2>3, OthersSame, StepPoints DEF Others, Removes, Moves
    <3>2. state[at["gui"].id] = None
      BY <1>0, <3>1, StatesGrow
    <3>3. joined[at["gui"].name] # at["gui"].id
      BY <2>1, <3>1, <3>2 DEF GuiState, StateThere, ChannelThere
    <3>4. CASE Registers("conn")
      <4>1. at["conn"].id = count /\ at["gui"].id < count /\ count \in Nat
        BY <1>0, <1>2, <2>1, <3>1, <3>4, ShapeFacts
        DEF Registers, Uses, Given, Using, NeedsState
      <4>2. joined'[at["gui"].name] \in {joined[at["gui"].name], at["conn"].id}
        <5>1. at["gui"].name \in Name
          BY <1>0, <3>1 DEF Working, NeedsState
        <5> QED BY <3>4, <5>1, ShapeFacts DEF Registers
      <4>3. at["gui"].id # count
        BY <1>0, <4>1, ShapeFacts
      <4> QED BY <3>1, <3>3, <4>1, <4>2, <4>3
    <3>5. CASE ~Registers("conn")
      BY <1>0, <2>3, <3>1, <3>3, <3>5, JoinedSteps
    <3> QED BY <3>4, <3>5
  <2>4. CASE Removes
    <3>1. /\ at'["gui"] = at["gui"] /\ at["conn"].pc = "remove" /\ joined' = joined
          /\ at'["conn"].pc = "erase" /\ at'["conn"].id = at["conn"].id
          /\ at["gui"].id # at["conn"].id => state'[at["gui"].id] = state[at["gui"].id]
      BY <1>0, <2>4 DEF Removes, Moves, Others, OtherStates
    <3> QED BY <2>1, <3>1 DEF GuiState, StateThere, ChannelThere
  <2>5. CASE Erases
    <3>1. /\ at'["gui"] = at["gui"] /\ at["conn"].pc = "erase" /\ state' = state
          /\ at["gui"].name \in Name /\ at["conn"].name \in Name
      BY <1>0, <2>5 DEF Erases, Moves, Others, Working, NeedsState
    <3>2. /\ joined'[at["conn"].name] = None
          /\ \A n \in Name : joined'[n] \in {joined[n], None}
      BY <2>5, <3>1, ShapeFacts DEF Erases
    <3>3. at["gui"].id # None
      BY <1>0, ShapeFacts
    <3>4. CASE at["conn"].id = at["gui"].id
      <4>1. joined[at["conn"].name] = at["gui"].id
        BY <2>1, <3>1, <3>4 DEF KeepsChannel, ChannelThere, Using
      <4>2. at["conn"].name = at["gui"].name
        BY <1>0, <2>1, <3>1, <4>1 DEF OwnName, Using, NeedsState
      <4> QED BY <3>1, <3>2, <3>3, <4>2
    <3>5. CASE at["conn"].id # at["gui"].id
      BY <2>1, <3>1, <3>2, <3>3, <3>5 DEF GuiState, StateThere, ChannelThere
    <3> QED BY <3>4, <3>5
  <2>6. CASE Persists \/ Regains \/ WalksOn \/ WalksOff \/ Disconnects
    BY <1>0, <2>6 DEF Persists, Regains, WalksOn, WalksOff, Disconnects, Moves, NeedsState
  <2> QED BY <2>2, <2>3, <2>4, <2>5, <2>6, BothThreads DEF Step, WindowStep
<1> QED BY <1>1, <1>2, StatesParts

-----------------------------------------------------------------------------
\* No copy and no file is longer than the cache; the GUI thread without the focus.

LEMMA CachedShort ==
  ASSUME NEW S, NEW s \in Seq(S)
  PROVE  Len(Cached(s)) <= CacheSize /\ (Len(s) <= CacheSize => Cached(s) = s)
<1>1. CASE Len(s) <= CacheSize
  BY <1>1 DEF Cached
<1>2. CASE ~(Len(s) <= CacheSize)
  <2> DEFINE first == Len(s) - CacheSize + 1
  <2>1. Len(s) \in Nat /\ CacheSize \in Nat
    BY MessageCacheAssumption
  <2>2. first \in 1 .. Len(s) + 1
    BY <1>2, <2>1
  <2>3. \A k \in first .. Len(s) : s[k] \in S
    BY <2>1, <2>2
  <2>4. Len(SubSeq(s, first, Len(s))) = CacheSize
    BY <2>1, <2>2, <2>3, <1>2, SubSeqProperties
  <2> QED BY <1>2, <2>1, <2>4 DEF Cached
<1> QED BY <1>1, <1>2

FilesShort == \A n \in Name : Readable(n) => Len(file[n]) <= CacheSize
CopiesShort ==
  \A t \in Thread :
    at[t].pc \in {"open", "write", "reset"} => Len(at[t].buffer) <= CacheSize

LEMMA ShortParts ==
  /\ Short <=> FilesShort /\ CopiesShort
  /\ Short' <=> FilesShort' /\ CopiesShort'
BY DEF Short, FilesShort, CopiesShort

\* What a thread saves is the copy it made.
LEMMA CopySteps ==
  ASSUME TypeOK, Working, NEW t \in Thread, Calm(t) \/ Changes(t),
         at'[t].pc \in {"open", "write", "reset"}
  PROVE  \/ at[t].pc \in {"open", "write", "reset"} /\ at'[t].buffer = at[t].buffer
         \/ Copies(t)
BY DEF Calm, Changes, Starts, Asks, Gets, Loads, Tests, Copies, Skips, Registers,
   Inserts, Marks, Stores, OpensFile, Writes, Resets, Moves, Saved

\* A file changes where a save opens or writes it.
LEMMA FileSteps ==
  ASSUME Step, ~(\E t \in Thread : OpensFile(t) \/ Writes(t))
  PROVE  file' = file
BY DEF Step, Calm, Changes, Starts, Asks, Gets, Loads, Tests, Copies, Skips, Registers,
   Inserts, Marks, Stores, Resets, WindowStep, Removes, Erases, Persists,
   Regains, WalksOn, WalksOff, Disconnects, Same, SameFiles

LEMMA FileOfSame == ASSUME Step PROVE fileOf' = fileOf
BY DEF Step, Calm, Changes, Starts, Asks, Gets, Loads, Tests, Copies, Skips, Registers,
   Inserts, Marks, Stores, OpensFile, Writes, Resets, WindowStep, Removes, Erases, Persists,
   Regains, WalksOn, WalksOff, Disconnects, Same, SameFiles

LEMMA ShortKept ==
  ASSUME TypeOK, TypeOK', Working, Short, Step PROVE Short'
<1>0. FilesShort /\ CopiesShort /\ "conn" \in Thread /\ "gui" \in Thread
  BY ShortParts, BothThreads
<1>1. CopiesShort'
  <2> SUFFICES ASSUME NEW u \in Thread, at'[u].pc \in {"open", "write", "reset"}
               PROVE  Len(at'[u].buffer) <= CacheSize
    BY DEF CopiesShort
  <2>1. CASE at'[u] = at[u]
    BY <1>0, <2>1 DEF CopiesShort
  <2>2. CASE Calm(u) \/ Changes(u)
    <3>1. CASE Copies(u)
      <4>1. StateOf(u).messages \in Seq(Message)
        BY <3>1, ShapeFacts DEF Copies, StateThere, StateOf, ChannelState
      <4> QED BY <3>1, <4>1, CachedShort DEF Copies
    <3> QED BY <1>0, <2>2, <3>1, CopySteps DEF CopiesShort
  <2>3. CASE \E t \in Thread \ {u} : Calm(t) \/ Changes(t)
    BY <2>1, <2>3, OthersSame DEF Others
  <2>4. CASE WindowStep
    <3>1. CASE u = "conn"
      <4>1. Removes \/ Erases => at'["conn"].pc \notin {"open", "write", "reset"}
        BY DEF Removes, Erases, Moves
      <4> QED BY <1>0, <2>1, <2>4, <3>1, <4>1 DEF WindowStep, Persists, Regains, WalksOn,
                 WalksOff, Disconnects, Moves, Others
    <3>2. CASE u = "gui"
      <4>1. Persists \/ WalksOn \/ WalksOff => at'["gui"].pc \notin {"open", "write", "reset"}
        BY DEF Persists, WalksOn, WalksOff, Moves
      <4> QED BY <1>0, <2>1, <2>4, <3>2, <4>1 DEF WindowStep, Removes, Erases, Regains,
                 Disconnects, Moves, Others
    <3> QED BY <3>1, <3>2, BothThreads
  <2> QED BY <2>2, <2>3, <2>4 DEF Step
<1>2. FilesShort'
  <2> SUFFICES ASSUME NEW n \in Name, Readable(n)' PROVE Len(file'[n]) <= CacheSize
    BY DEF FilesShort
  <2>0. file \in [Name -> Seq(Message) \cup {Absent, Torn}]
    BY DEF TypeOK, DiskOK
  <2>1. CASE file' = file
    BY <1>0, <2>1 DEF FilesShort, Readable
  <2>2. ASSUME NEW t \in Thread, OpensFile(t) PROVE Len(file'[n]) <= CacheSize
    BY <1>0, <2>0, <2>1, <2>2 DEF OpensFile, FilesShort, Readable
  <2>3. ASSUME NEW t \in Thread, Writes(t) PROVE Len(file'[n]) <= CacheSize
    <3>1. Len(at[t].buffer) <= CacheSize
      BY <1>0, <2>3 DEF Writes, Moves, CopiesShort
    <3>2. PICK content \in {at[t].buffer, Torn} :
            file' = [file EXCEPT ![CurrentFile(t)] = content]
      BY <2>3 DEF Writes
    <3>3. CASE n = CurrentFile(t)
      BY <2>0, <3>1, <3>2, <3>3 DEF Readable
    <3>4. CASE n # CurrentFile(t)
      BY <1>0, <2>0, <3>2, <3>4 DEF FilesShort, Readable
    <3> QED BY <3>3, <3>4
  <2> QED BY <2>1, <2>2, <2>3, FileSteps
<1> QED BY <1>1, <1>2, ShortParts

-----------------------------------------------------------------------------
AtRestNameless == \A t \in Thread : at[t].pc \in {"idle", "close"} => at[t].name = NoName
OnlySaves ==
  ~focused =>
    /\ at["gui"].pc \in {"idle", "advance", "save", "open", "write", "reset", "close"}
    /\ at["gui"].pc \in {"advance", "save", "open", "write", "reset"}
         => at["gui"].job \notin {"add", "part"}

LEMMA UnfocusedParts ==
  /\ Unfocused <=> AtRestNameless /\ OnlySaves
  /\ Unfocused' <=> AtRestNameless' /\ OnlySaves'
BY DEF Unfocused, AtRestNameless, OnlySaves

LEMMA FocusSame ==
  ASSUME NEW t \in Thread, Calm(t) \/ Changes(t) PROVE focused' = focused
BY DEF Calm, Changes, Starts, Asks, Gets, Loads, Tests, Copies, Skips, Registers,
   Inserts, Marks, Stores, OpensFile, Writes, Resets, Same

LEMMA UnfocusedKept ==
  ASSUME TypeOK, Working, Unfocused, Step PROVE Unfocused'
<1>0. AtRestNameless /\ OnlySaves /\ "conn" \in Thread /\ "gui" \in Thread
  BY UnfocusedParts, BothThreads
<1>1. ASSUME NEW u \in Thread, at'[u].pc \in {"idle", "close"} PROVE at'[u].name = NoName
  <2>1. CASE at'[u] = at[u]
    BY <1>0, <1>1, <2>1 DEF AtRestNameless
  <2>2. ASSUME NEW p, NEW q, Moves(u, p, q) PROVE at'[u].name = NoName
    BY <1>1, <2>2 DEF Moves
  <2>3. CASE Calm(u) \/ Changes(u)
    <3>1. ~Starts(u) /\ ~Asks(u)
      BY <1>1 DEF Starts, Asks
    <3> QED BY <2>2, <2>3, <3>1 DEF Calm, Changes, Gets, Loads, Tests, Copies, Skips,
               Registers, Inserts, Marks, Stores, OpensFile, Writes, Resets
  <2>4. CASE \E t \in Thread \ {u} : Calm(t) \/ Changes(t)
    BY <2>1, <2>4, OthersSame DEF Others
  <2>5. CASE WindowStep
    <3>1. CASE Removes \/ Erases
      BY <2>1, <2>2, <3>1 DEF Removes, Erases, Moves, Others
    <3>2. CASE Persists \/ WalksOn
      BY <1>1, <2>1, <3>2 DEF Persists, WalksOn, Others
    <3>3. CASE WalksOff
      BY <2>1, <2>2, <3>3 DEF WalksOff, Moves, Others
    <3>4. CASE Regains \/ Disconnects
      BY <2>1, <3>4 DEF Regains, Disconnects
    <3> QED BY <2>5, <3>1, <3>2, <3>3, <3>4 DEF WindowStep
  <2> QED BY <2>3, <2>4, <2>5 DEF Step
<1>2. OnlySaves'
  <2> DEFINE Good(p) ==
        /\ p.pc \in {"idle", "advance", "save", "open", "write", "reset", "close"}
        /\ p.pc \in {"advance", "save", "open", "write", "reset"}
             => p.job \notin {"add", "part"}
  <2> SUFFICES ASSUME ~focused' PROVE Good(at'["gui"])
    BY DEF OnlySaves
  <2>1. CASE Calm("gui") \/ Changes("gui")
    <3>1. ~focused /\ Good(at["gui"])
      BY <1>0, <2>1, FocusSame DEF OnlySaves
    <3>2. CASE Tests("gui") \/ Registers("gui") \/ Gets("gui") \/ Loads("gui")
               \/ Inserts("gui") \/ Marks("gui") \/ Stores("gui")
      BY <3>1, <3>2 DEF Tests, Registers, Gets, Loads, Inserts, Marks, Stores, Moves
    <3>3. CASE Starts("gui") \/ Asks("gui")
      BY <3>1, <3>3 DEF Starts, Asks
    <3>4. CASE Copies("gui") \/ OpensFile("gui") \/ Writes("gui")
      BY <3>1, <3>4 DEF Copies, OpensFile, Writes, Moves
    <3>5. CASE Skips("gui") \/ Resets("gui")
      BY <3>1, <3>5 DEF Skips, Resets, Moves, Saved
    <3> QED BY <2>1, <3>2, <3>3, <3>4, <3>5 DEF Calm, Changes
  <2>2. CASE Calm("conn") \/ Changes("conn")
    BY <1>0, <2>2, FocusSame, OthersSame, BothThreads DEF OnlySaves, Others
  <2>3. CASE Persists
    BY <2>3 DEF Persists
  <2>4. CASE Regains
    BY <2>4 DEF Regains
  <2>5. CASE WalksOn \/ WalksOff \/ Disconnects
    BY <1>0, <2>5 DEF WalksOn, WalksOff, Disconnects, Moves, Same, OnlySaves
  <2>6. CASE Removes \/ Erases
    BY <1>0, <2>6 DEF Removes, Erases, Moves, Others, OnlySaves
  <2> QED BY <2>1, <2>2, <2>3, <2>4, <2>5, <2>6, BothThreads DEF Step, WindowStep
<1> QED BY <1>1, <1>2, UnfocusedParts DEF AtRestNameless

-----------------------------------------------------------------------------
\* What a step changes.

\* Whose step it is.
LEMMA WhoSteps ==
  ASSUME Step
  PROVE  \/ (Calm("gui") \/ Changes("gui")) /\ at'["conn"] = at["conn"]
         \/ (Calm("conn") \/ Changes("conn") \/ Removes \/ Erases) /\ at'["gui"] = at["gui"]
         \/ (Persists \/ WalksOn \/ WalksOff) /\ at'["conn"] = at["conn"]
         \/ (Regains \/ Disconnects) /\ at' = at
<1>1. ASSUME NEW t \in Thread, Calm(t) \/ Changes(t) PROVE Others(t)
  BY <1>1, OthersSame
<1>2. Removes \/ Erases => at'["gui"] = at["gui"]
  BY BothThreads DEF Removes, Erases, Moves, Others
<1>3. Persists \/ WalksOn \/ WalksOff => at'["conn"] = at["conn"]
  BY BothThreads DEF Persists, WalksOn, WalksOff, Moves, Others
<1>4. Regains \/ Disconnects => at' = at
  BY DEF Regains, Disconnects
<1> QED BY <1>1, <1>2, <1>3, <1>4, BothThreads DEF Step, WindowStep, Others

\* What makes a difference to the channel of a name, to a state, to a file.
LEMMA ChannelChanges ==
  ASSUME TypeOK, Step, NEW n \in Name, joined'[n] # joined[n]
  PROVE  \/ \E t \in Thread : Registers(t) /\ at[t].name = n /\ joined'[n] = at[t].id
         \/ joined'[n] = None /\ (Disconnects \/ (Erases /\ at["conn"].name = n))
<1>1. joined \in [Name -> Id \cup {None}]
  BY ShapeFacts
<1>2. CASE \E t \in Thread : Registers(t)
  BY <1>1, <1>2 DEF Registers
<1>3. CASE Erases
  BY <1>1, <1>3 DEF Erases
<1>4. CASE Disconnects
  BY <1>4 DEF Disconnects
<1>5. CASE WindowStep /\ ~Erases /\ ~Disconnects
  BY <1>5 DEF WindowStep, Removes, Persists, Regains, WalksOn, WalksOff, Same, SameModel
<1>6. ASSUME NEW t \in Thread, Calm(t) \/ Changes(t), ~Registers(t) PROVE FALSE
  BY <1>6, JoinedSteps
<1> QED BY <1>2, <1>3, <1>4, <1>5, <1>6 DEF Step

LEMMA StateChanges ==
  ASSUME Step, NEW i \in Id, state'[i] # state[i]
  PROVE  \/ \E t \in Thread : /\ at[t].id = i
                              /\ Inserts(t) \/ Marks(t) \/ Stores(t) \/ Resets(t)
         \/ Removes /\ at["conn"].id = i
<1>1. ASSUME NEW t \in Thread, Calm(t) \/ Changes(t)
      PROVE  at[t].id = i /\ (Inserts(t) \/ Marks(t) \/ Stores(t) \/ Resets(t))
  <2>1. Inserts(t) \/ Marks(t) \/ Stores(t) \/ Resets(t)
    BY <1>1 DEF Calm, Changes, Starts, Asks, Gets, Loads, Tests, Copies, Skips,
       Registers, OpensFile, Writes, Same, SameModel
  <2>2. OtherStates(t)
    BY <2>1 DEF Inserts, Marks, Stores, Resets
  <2> QED BY <2>1, <2>2 DEF OtherStates
<1>2. ASSUME WindowStep PROVE Removes /\ at["conn"].id = i
  BY <1>2 DEF WindowStep, Removes, Erases, Persists, Regains, WalksOn, WalksOff,
     Disconnects, Same, SameModel, OtherStates
<1> QED BY <1>1, <1>2 DEF Step

LEMMA FileChanges ==
  ASSUME TypeOK, Step, NEW f \in Name, file'[f] # file[f]
  PROVE  \E t \in Thread :
           /\ CurrentFile(t) = f /\ HasFile(t)
           /\ \/ OpensFile(t) /\ Moves(t, "open", "write") /\ file'[f] = Torn
              \/ Writes(t) /\ file'[f] \in {at[t].buffer, Torn}
<1>1. file \in [Name -> Seq(Message) \cup {Absent, Torn}]
  BY DEF TypeOK, DiskOK
<1>2. \A g \in Name : g # NoFile
  BY DEF Name, NoFile
<1>3. PICK t \in Thread : OpensFile(t) \/ Writes(t)
  BY FileSteps
<1>4. CASE OpensFile(t)
  BY <1>1, <1>2, <1>4 DEF OpensFile, HasFile
<1>5. CASE Writes(t)
  BY <1>1, <1>2, <1>5 DEF Writes, HasFile
<1> QED BY <1>3, <1>4, <1>5

\* A file of one's own.
LEMMA OwnFiles ==
  ASSUME TypeOK, NEW n, OwnFile(n), n \in Name
  PROVE  /\ fileOf[n] \in Name
         /\ \A m \in Name : fileOf[m] = fileOf[n] => m = n
BY MessageCacheAssumption DEF TypeOK, DiskOK, OwnFile, NoFile, Name

-----------------------------------------------------------------------------
\* Who is alone with a file: Alone.

\* A thread that is about to write has just opened the file.
LEMMA OpenedNow ==
  ASSUME TypeOK, Working, NEW t \in Thread, Calm(t) \/ Changes(t), at'[t].pc = "write"
  PROVE  OpensFile(t) /\ HasFile(t) /\ file' = [file EXCEPT ![CurrentFile(t)] = Torn]
         /\ Moves(t, "open", "write")
BY DEF Calm, Changes, Starts, Asks, Gets, Loads, Tests, Copies, Skips, Registers,
   Inserts, Marks, Stores, OpensFile, Writes, Resets, Moves, Saved

\* While the GUI thread writes a file that should be torn, the connection
\* thread opens or writes no file of that name.
LEMMA AloneFile ==
  ASSUME TypeOK, Step, disturbed # Id, KeepsChannel, ConnState, Working,
         NEW n \in Name, OwnFile(n), at["gui"].name = n, at["gui"].pc = "write",
         at'["gui"] = at["gui"], ~InMemory(n), file[fileOf[n]] = Torn
  PROVE  file'[fileOf[n]] = Torn
<1> SUFFICES ASSUME file'[fileOf[n]] # file[fileOf[n]], file'[fileOf[n]] # Torn
             PROVE  FALSE
  OBVIOUS
<1>1. PICK t \in Thread : /\ CurrentFile(t) = fileOf[n] /\ Writes(t)
  BY OwnFiles, FileChanges
<1>2. t # "gui"
  BY <1>1 DEF Writes, Moves
<1>3. t = "conn" /\ at["conn"].pc = "write"
  BY <1>1, <1>2, BothThreads DEF Writes, Moves
<1>4. at["conn"].name \in Name
  BY <1>3, BothThreads DEF Working
<1>5. at["conn"].name = n
  BY <1>1, <1>3, <1>4, OwnFiles DEF CurrentFile
<1>6. joined[n] = at["conn"].id /\ state[at["conn"].id] # None
  BY <1>3, <1>5 DEF KeepsChannel, ConnState, ChannelThere, StateThere, Using, NeedsState
<1> QED BY <1>6, ShapeFacts, BothThreads DEF InMemory

LEMMA AloneKept ==
  ASSUME TypeOK, TypeOK', Working, Counted, Homes, StatesThere, Alone, Step
  PROVE  Alone'
<1> SUFFICES ASSUME disturbed' # Id, at'["gui"].pc = "write", OwnFile(at["gui"].name)',
                    StateThere("gui")'
             PROVE  /\ at'["conn"].pc = "erase" /\ at'["conn"].id = at'["gui"].id
                         => file'[CurrentFile("gui")'] = Torn
                    /\ ~ChannelThere("gui")' =>
                         /\ file'[CurrentFile("gui")'] = Torn
                         /\ ~InMemory(at["gui"].name)'
                         /\ ~(at'["conn"].pc = "insert" /\ at'["conn"].name = at'["gui"].name)
  BY DEF Alone
<1>0. /\ disturbed # Id /\ ConnState /\ OwnName /\ KeepsChannel /\ FreshId
      /\ Entries /\ OneName /\ Channels /\ Uses
      /\ "conn" \in Thread /\ "gui" \in Thread /\ fileOf' = fileOf
  BY StillClean, StatesParts, HomesParts, CountedParts, BothThreads, FileOfSame
<1>a. file \in [Name -> Seq(Message) \cup {Absent, Torn}] /\ \A g \in Name : g # NoFile
  BY DEF TypeOK, DiskOK, Name, NoFile
<1>1. CASE Calm("gui") \/ Changes("gui")
  <2>1. /\ HasFile("gui") /\ file' = [file EXCEPT ![CurrentFile("gui")] = Torn]
        /\ Moves("gui", "open", "write") /\ ChannelThere("gui") /\ joined' = joined
    BY <1>0, <1>1, OpenedNow DEF OpensFile, SameModel
  <2>2. at'["gui"].name = at["gui"].name /\ at'["gui"].id = at["gui"].id
    BY <2>1 DEF Moves
  <2>3. at["gui"].name \in Name
    BY <1>0, <2>1 DEF Working, Moves
  <2>4. fileOf[at["gui"].name] \in Name
    BY <1>0, <2>1, <2>3 DEF TypeOK, DiskOK, HasFile, CurrentFile, NoFile, Name
  <2>5. file'[CurrentFile("gui")'] = Torn
    BY <1>0, <1>a, <2>1, <2>2, <2>4 DEF CurrentFile
  <2> QED BY <2>1, <2>2, <2>5 DEF ChannelThere
<1>2. CASE at'["gui"] = at["gui"]
  <2> PICK n, i : n = at["gui"].name /\ i = at["gui"].id
    OBVIOUS
  <2>0. n \in Name /\ i \in Id /\ OwnFile(n) /\ state'[i] # None /\ Using(at["gui"].pc)
        /\ at["gui"].pc = "write" /\ ~Disconnects /\ i # None
    BY <1>0, <1>2, ShapeFacts DEF Working, OwnFile, StateThere, Using, Disconnects
  <2>1. Calm("conn") \/ Changes("conn") \/ Removes \/ Erases \/ (Regains /\ at' = at)
    BY <1>2, <2>0, WhoSteps DEF Persists, WalksOn, WalksOff, Moves, Calm, Changes, Starts, Asks,
       Gets, Loads, Tests, Copies, Skips, Registers, Inserts, Marks, Stores, OpensFile, Writes,
       Resets
  <2>2. CASE state[i] = None
    <3>1. Inserts("conn") /\ at["conn"].id = i
      <4>1. state'[i] # state[i]
        BY <2>0, <2>2
      <4>2. ~(Removes /\ at["conn"].id = i)
        BY <2>0 DEF Removes
      <4>3. PICK t \in Thread : at[t].id = i /\ (Inserts(t) \/ Marks(t) \/ Stores(t) \/ Resets(t))
        BY <2>0, <4>1, <4>2, StateChanges
      <4>4. Inserts(t)
        BY <2>2, <4>3 DEF Marks, Stores, Resets, StateThere
      <4>5. at[t].pc = "insert"
        BY <4>4 DEF Inserts, Moves
      <4> QED BY <2>0, <4>3, <4>4, <4>5, BothThreads
    <3>2. joined[at["conn"].name] = i /\ at["conn"].name \in Name /\ joined' = joined
      BY <1>0, <3>1 DEF Inserts, ChannelThere, Moves, Working
    <3>3. at["conn"].name = n
      BY <1>0, <2>0, <3>2 DEF OwnName
    <3>4. at'["conn"].pc \in {"mark", "idle"}
      BY <3>1 DEF Inserts, Moves
    <3> QED BY <1>2, <3>2, <3>3, <3>4 DEF ChannelThere
  <2>3. CASE state[i] # None
    <3>0. /\ at["conn"].pc = "erase" /\ at["conn"].id = i => file[fileOf[n]] = Torn
          /\ joined[n] # i =>
               /\ file[fileOf[n]] = Torn /\ ~InMemory(n)
               /\ ~(at["conn"].pc = "insert" /\ at["conn"].name = n)
      BY <1>0, <2>0, <2>3 DEF Alone, StateThere, ChannelThere, CurrentFile
    <3>1. ASSUME at'["conn"].pc = "erase", at'["conn"].id = i PROVE file'[fileOf[n]] = Torn
      <4>1. ~Removes
        BY <2>0, <3>1 DEF Removes, Moves
      <4>2. ~Erases
        BY <3>1 DEF Erases, Moves
      <4>3. ~Calm("conn") /\ ~Changes("conn")
        BY <3>1 DEF Calm, Changes, Starts, Asks, Gets, Loads, Tests, Copies, Skips, Registers,
           Inserts, Marks, Stores, OpensFile, Writes, Resets, Moves, Saved
      <4> QED BY <2>1, <3>0, <3>1, <4>1, <4>2, <4>3 DEF Regains, SameFiles
    <3>2. ASSUME joined'[n] # i, joined[n] # i
          PROVE  /\ file'[fileOf[n]] = Torn /\ ~InMemory(n)'
                 /\ ~(at'["conn"].pc = "insert" /\ at'["conn"].name = n)
      <4>1. file'[fileOf[n]] = Torn
        BY <1>0, <1>2, <2>0, <3>0, <3>2, AloneFile
      <4>2. ~InMemory(n)'
        <5> SUFFICES ASSUME joined'[n] # None, state'[joined'[n]] # None PROVE FALSE
          BY DEF InMemory
        <5>1. CASE joined'[n] = joined[n]
          <6>1. joined[n] \in Id /\ state[joined[n]] = None /\ state'[joined[n]] # None
            BY <2>0, <3>0, <3>2, <5>1, ShapeFacts DEF InMemory
          <6>2. PICK t \in Thread :
                  at[t].id = joined[n] /\ (Inserts(t) \/ Marks(t) \/ Stores(t) \/ Resets(t))
            BY <6>1, StateChanges DEF Removes
          <6>3. Inserts(t)
            BY <6>1, <6>2 DEF Marks, Stores, Resets, StateThere
          <6>4. at[t].pc = "insert" /\ joined[at[t].name] = joined[n]
            BY <6>2, <6>3 DEF Inserts, Moves, ChannelThere
          <6>5. t = "conn" /\ at[t].name \in Name
            BY <2>0, <6>4, BothThreads DEF Working
          <6> QED BY <1>0, <2>0, <3>0, <3>2, <6>1, <6>4, <6>5, ShapeFacts DEF OneName
        <5>2. CASE joined'[n] # joined[n]
          <6>1. PICK t \in Thread : Registers(t) /\ at[t].name = n /\ joined'[n] = at[t].id
            BY <2>0, <5>2, ChannelChanges
          <6>2. at[t].id = count /\ state' = state
            BY <1>0, <6>1 DEF Registers
          <6> QED BY <1>0, <6>1, <6>2, ShapeFacts DEF Entries, Given
        <5> QED BY <5>1, <5>2
      <4>3. ASSUME at'["conn"].pc = "insert", at'["conn"].name = n PROVE FALSE
        <5>1. at'["conn"] # at["conn"]
          BY <3>0, <3>2, <4>3
        <5>2. Loads("conn")
          BY <2>1, <4>3, <5>1 DEF Calm, Changes, Starts, Asks, Gets, Tests, Copies, Skips,
             Registers, Inserts, Marks, Stores, OpensFile, Writes, Resets, Moves, Saved, Removes,
             Erases
        <5>3. at["conn"].name = n /\ ~ReadsTornFile("conn")
          BY <4>3, <5>2 DEF Loads, Moves
        <5> QED BY <2>0, <3>0, <3>2, <5>3 DEF ReadsTornFile, HasFile, CurrentFile, OwnFile
      <4> QED BY <4>1, <4>2, <4>3
    <3>3. ASSUME joined'[n] # i, joined[n] = i
          PROVE  /\ file'[fileOf[n]] = Torn /\ ~InMemory(n)'
                 /\ ~(at'["conn"].pc = "insert" /\ at'["conn"].name = n)
      <4>1. Erases /\ at["conn"].name = n /\ joined'[n] = None
        <5>1. \A t \in Thread : ~(Registers(t) /\ at[t].name = n)
          BY <1>0, <2>0, <3>3 DEF Registers, FreshId, Moves
        <5> QED BY <2>0, <3>3, <5>1, ChannelChanges
      <4>2. at["conn"].id = i /\ at["conn"].pc = "erase" /\ file' = file
            /\ at'["conn"].pc = "idle"
        BY <1>0, <3>3, <4>1 DEF Erases, Moves, KeepsChannel, ChannelThere, Using, SameFiles
      <4> QED BY <3>0, <4>1, <4>2 DEF InMemory
    <3> QED BY <1>0, <1>2, <3>1, <3>2, <3>3 DEF CurrentFile, ChannelThere
  <2> QED BY <2>2, <2>3
<1>3. CASE Persists \/ WalksOn \/ WalksOff
  BY <1>3 DEF Persists, WalksOn, WalksOff, Moves
<1> QED BY <1>1, <1>2, <1>3, WhoSteps

-----------------------------------------------------------------------------
\* What is read is on disk: Reading.

\* What a thread can do where it is.
LEMMA PointSteps ==
  ASSUME NEW t \in Thread, Calm(t) \/ Changes(t)
  PROVE  /\ at[t].pc = "insert" => Inserts(t)
         /\ at[t].pc = "open" => OpensFile(t)
         /\ at[t].pc = "write" => Writes(t)
         /\ at[t].pc = "reset" => Resets(t)
         /\ at[t].pc = "save" => Copies(t) \/ Skips(t)
         /\ at[t].pc = "push" => Stores(t)
         /\ at[t].pc = "test" => Tests(t)
         /\ at[t].pc = "mark" => Marks(t)
BY DEF Calm, Changes, Starts, Asks, Gets, Loads, Tests, Copies, Skips, Registers,
   Inserts, Marks, Stores, OpensFile, Writes, Resets, Moves

\* Where no step of the window begins.
LEMMA WindowPoints ==
  /\ Removes => at["conn"].pc = "remove" /\ at'["conn"].pc = "erase"
  /\ Erases => at["conn"].pc = "erase" /\ at'["conn"].pc = "idle"
  /\ Persists => at["gui"].pc = "idle" /\ at'["gui"].pc = "advance"
  /\ WalksOn => at["gui"].pc = "advance" /\ at'["gui"].pc = "save"
  /\ WalksOff => at["gui"].pc = "advance" /\ at'["gui"].pc \in {"idle", "close"}
BY DEF Removes, Erases, Persists, WalksOn, WalksOff, Moves

\* A thread at none of those points took a step of its own or none.
LEMMA StepOrStay ==
  ASSUME Step, NEW u \in Thread, at[u].pc \notin {"idle", "advance", "remove", "erase"}
  PROVE  Calm(u) \/ Changes(u) \/ at'[u] = at[u]
BY WhoSteps, WindowPoints, BothThreads

LEMMA StepOrStayed ==
  ASSUME Step, NEW u \in Thread, at'[u].pc \notin {"erase", "idle", "advance", "save", "close"}
  PROVE  Calm(u) \/ Changes(u) \/ at'[u] = at[u]
BY WhoSteps, WindowPoints, BothThreads

\* A state that is made is that of the channel of a name.
LEMMA MadeFor ==
  ASSUME TypeOK, Working, Step, NEW i \in Id, state[i] = None, state'[i] # None
  PROVE  \E v \in Thread : /\ Inserts(v) /\ at[v].id = i /\ at[v].name \in Name
                           /\ joined[at[v].name] = i /\ joined' = joined
<1>1. ~(Removes /\ at["conn"].id = i)
  BY DEF Removes
<1>2. PICK v \in Thread : at[v].id = i /\ (Inserts(v) \/ Marks(v) \/ Stores(v) \/ Resets(v))
  BY <1>1, StateChanges
<1>3. Inserts(v)
  BY <1>2 DEF Marks, Stores, Resets, StateThere
<1>4. at[v].name \in Name
  BY <1>3 DEF Inserts, Moves, Working
<1> QED BY <1>2, <1>3, <1>4 DEF Inserts, ChannelThere

\* Without a race the channel of a name is given a new id, or none.
LEMMA NewChannel ==
  ASSUME TypeOK, Step, disturbed' # Id, NEW n \in Name, joined'[n] # joined[n]
  PROVE  joined'[n] \in {count, None}
BY ChannelChanges, ShapeFacts DEF Registers

LEMMA StrayStays ==
  ASSUME TypeOK, Working, Step, disturbed' # Id, OwnName, Uses,
         NEW u \in Thread, NEW n \in Name, Stray(u, n)
  PROVE  Stray(u, n)'
<1>1. /\ at[u].name = n /\ at[u].pc \in {"write", "reset"} /\ joined[n] # at[u].id
      /\ state[at[u].id] = None /\ at[u].id \in Id /\ Using(at[u].pc)
  BY ShapeFacts DEF Stray, ChannelThere, StateThere, Using
<1>2. at'[u].name = n /\ at'[u].pc \in {"write", "reset"} /\ at'[u].id = at[u].id
  <2>1. CASE Calm(u) \/ Changes(u)
    <3>1. ~Resets(u)
      BY <1>1 DEF Resets, StateThere
    <3>2. Writes(u)
      BY <1>1, <2>1, <3>1, PointSteps
    <3> QED BY <1>1, <3>2 DEF Writes, Moves
  <2> QED BY <1>1, <2>1, StepOrStay
<1>3. joined'[n] # at[u].id
  <2>1. CASE joined'[n] = joined[n]
    BY <1>1, <2>1
  <2>2. CASE joined'[n] # joined[n]
    <3>1. joined'[n] \in {count, None}
      BY <2>2, NewChannel
    <3>2. at[u].id < count /\ at[u].id \in Nat /\ at[u].id # None
      BY <1>1, ShapeFacts DEF Uses, Given
    <3> QED BY <3>1, <3>2, ShapeFacts
  <2> QED BY <2>1, <2>2
<1>4. state'[at[u].id] = None
  <2> SUFFICES ASSUME state'[at[u].id] # None PROVE FALSE
    OBVIOUS
  <2>1. PICK v \in Thread : at[v].name \in Name /\ joined[at[v].name] = at[u].id
    BY <1>1, MadeFor
  <2> QED BY <1>1, <2>1 DEF OwnName
<1> QED BY <1>2, <1>3, <1>4 DEF Stray, ChannelThere, StateThere

\* A file that is not written holds what it held.
LEMMA OnDiskSame ==
  ASSUME Step, NEW n, fileOf[n] # NoFile => file'[fileOf[n]] = file[fileOf[n]]
  PROVE  OnDisk(n)' = OnDisk(n)
BY FileOfSame DEF OnDisk, Readable

\* Who writes the file of n works on n.
LEMMA WritesOwn ==
  ASSUME TypeOK, Working, Step, NEW n \in Name, OwnFile(n), OnDisk(n)' # OnDisk(n)
  PROVE  \E t \in Thread :
           /\ at[t].name = n /\ CurrentFile(t) = fileOf[n] /\ HasFile(t)
           /\ \/ OpensFile(t) /\ Moves(t, "open", "write") /\ file'[fileOf[n]] = Torn
              \/ Writes(t) /\ file'[fileOf[n]] \in {at[t].buffer, Torn}
<1>1. fileOf[n] \in Name /\ file'[fileOf[n]] # file[fileOf[n]]
  BY OwnFiles, OnDiskSame
<1>2. PICK t \in Thread :
           /\ CurrentFile(t) = fileOf[n] /\ HasFile(t)
           /\ \/ OpensFile(t) /\ Moves(t, "open", "write") /\ file'[fileOf[n]] = Torn
              \/ Writes(t) /\ file'[fileOf[n]] \in {at[t].buffer, Torn}
  BY <1>1, FileChanges
<1>3. at[t].name \in Name
  BY <1>2 DEF Writes, Moves, Working
<1>4. at[t].name = n
  BY <1>2, <1>3, OwnFiles DEF CurrentFile
<1> QED BY <1>2, <1>4

LEMMA ReadingKept ==
  ASSUME TypeOK, TypeOK', Working, Counted, Homes, StatesThere, Alone, Reading, Step
  PROVE  Reading'
<1> SUFFICES ASSUME NEW t \in Thread, NEW n \in Name, at'[t].pc = "insert", at'[t].name = n,
                    ChannelThere(t)', ~StateThere(t)', Undisturbed(n)'
             PROVE  \/ at'[t].buffer = OnDisk(n)' \/ Erasing(n)'
                    \/ \E u \in Thread : Stray(u, n)'
  BY DEF Reading
<1>0. PICK i \in Id : i = at'[t].id
  BY DEF TypeOK, Place
<1>1. /\ joined'[n] = i /\ state'[i] = None /\ i \notin disturbed' /\ disturbed' # Id
      /\ OwnFile(n) /\ fileOf' = fileOf /\ i # None
  BY <1>0, FileOfSame, ShapeFacts DEF ChannelThere, StateThere, Undisturbed, OwnFile
<1>2. /\ disturbed # Id /\ ConnState /\ GuiState /\ OwnName /\ KeepsChannel /\ FreshId
      /\ Entries /\ OneName /\ Channels /\ Uses
      /\ "conn" \in Thread /\ "gui" \in Thread /\ "conn" # "gui"
  BY <1>1, StillClean, StatesParts, HomesParts, CountedParts, BothThreads
<1>3. CASE Calm(t) \/ Changes(t)
  <2>1. Loads(t)
    BY <1>3 DEF Calm, Changes, Starts, Asks, Gets, Tests, Copies, Skips,
       Registers, Inserts, Marks, Stores, OpensFile, Writes, Resets, Moves, Saved
  <2>2. at[t].name = n /\ file' = file
    BY <2>1 DEF Loads, Moves, Same, SameFiles
  <2>3. at'[t].buffer = OnDisk(n)
    BY <2>1, <2>2 DEF Loads, OnDisk, HasFile, CurrentFile, ReadsTornFile, Readable
  <2> QED BY <2>2, <2>3, OnDiskSame
<1>4. CASE at'[t] = at[t]
  <2>0. at[t].pc = "insert" /\ at[t].name = n /\ at[t].id = i
    BY <1>0, <1>4
  <2>1. joined[n] = i
    <3> SUFFICES ASSUME joined'[n] # joined[n] PROVE FALSE
      BY <1>1
    <3>1. i = count
      BY <1>1, NewChannel
    <3> QED BY <1>2, <2>0, <3>1, ShapeFacts DEF Uses, Given, Using
  <2>2. CASE state[i] # None
    <3>1. PICK u \in Thread : /\ at[u].id = i
                              /\ \/ Inserts(u) \/ Marks(u) \/ Stores(u) \/ Resets(u)
                                 \/ u = "conn" /\ Removes
      BY <1>1, <1>2, <2>2, StateChanges
    <3>2. u = "conn" /\ Removes
      BY <1>1, <3>1 DEF Inserts, Marks, Stores, Resets
    <3>3. /\ joined[at["conn"].name] = i /\ at["conn"].name \in Name
          /\ at'["conn"].pc = "erase" /\ at'["conn"].name = at["conn"].name
      BY <1>2, <3>1, <3>2 DEF Removes, Moves, ChannelThere, Working
    <3>4. at["conn"].name = n
      BY <1>1, <1>2, <2>1, <3>3 DEF OneName
    <3> QED BY <3>3, <3>4 DEF Erasing
  <2>3. CASE state[i] = None
    <3>1. Undisturbed(n)
      BY <1>1, <2>1, DisturbedGrows DEF Undisturbed
    <3>2. at[t].buffer = OnDisk(n) \/ Erasing(n) \/ \E u \in Thread : Stray(u, n)
      BY <2>0, <2>1, <2>3, <3>1 DEF Reading, ChannelThere, StateThere
    <3>3. CASE Erasing(n)
      <4>1. ~Erases
        BY <1>1, <3>3, ShapeFacts DEF Erasing, Erases
      <4>2. ~Calm("conn") /\ ~Changes("conn")
        BY <1>2, <3>3, StepPoints DEF Erasing
      <4>3. at'["conn"] = at["conn"]
        BY <3>3, <4>1, <4>2, WhoSteps, WindowPoints DEF Erasing
      <4> QED BY <3>3, <4>3 DEF Erasing
    <3>4. CASE \E u \in Thread : Stray(u, n)
      BY <1>1, <1>2, <3>4, StrayStays
    <3>5. ASSUME at[t].buffer = OnDisk(n), OnDisk(n)' # OnDisk(n)
          PROVE  \E u \in Thread : Stray(u, n)'
      <4>1. PICK u \in Thread :
           /\ at[u].name = n
           /\ \/ OpensFile(u) /\ Moves(u, "open", "write")
              \/ Writes(u)
        BY <1>1, <3>5, WritesOwn
      <4>2. at[u].pc \in {"open", "write"} /\ u # t
        BY <2>0, <4>1 DEF Writes, Moves
      <4>3. u # "conn"
        BY <1>2, <2>1, <2>3, <4>1, <4>2
        DEF KeepsChannel, ConnState, ChannelThere, StateThere, Using, NeedsState
      <4>4. u = "gui" /\ t = "conn"
        BY <4>2, <4>3, BothThreads
      <4>5. ~ChannelThere("gui")
        BY <2>0, <2>1, <2>3, <1>2, <4>1, <4>2, <4>4 DEF GuiState, ChannelThere, StateThere, NeedsState
      <4>6. Writes("gui")
        BY <4>1, <4>4, <4>5 DEF OpensFile
      <4>7. ~StateThere("gui")
        BY <1>1, <1>2, <2>0, <4>1, <4>2, <4>4, <4>5, <4>6 DEF Alone, Writes, Moves
      <4> QED BY <1>1, <1>2, <4>1, <4>4, <4>5, <4>6, <4>7, StrayStays
              DEF Stray, Writes, Moves
    <3> QED BY <1>4, <3>2, <3>3, <3>4, <3>5
  <2> QED BY <2>2, <2>3
<1> QED BY <1>3, <1>4, StepOrStayed

-----------------------------------------------------------------------------
\* A message that is on its way: Pushing.

\* Only add_message takes an id from those that missed a message.
LEMMA SlippedShrinks ==
  ASSUME Step, NEW i \in slipped, i \notin slipped'
  PROVE  \E t \in Thread : Marks(t) /\ at[t].id = i
BY DEF Step, Calm, Changes, Starts, Asks, Gets, Loads, Tests, Copies, Skips, Registers,
   Inserts, Marks, Stores, OpensFile, Writes, Resets, WindowStep, Removes, Erases, Persists,
   Regains, WalksOn, WalksOff, Disconnects, Same, SameHistory

\* A state that is replaced is disturbed.
LEMMA InsertsAnew ==
  ASSUME NEW t \in Thread, NEW i, Inserts(t), at[t].id = i, i \notin disturbed'
  PROVE  state[i] = None
BY DEF Inserts, StateThere

LEMMA PushingKept ==
  ASSUME TypeOK, TypeOK', Working, Counted, Homes, StatesThere, Pushing, Step
  PROVE  Pushing'
<1> SUFFICES ASSUME NEW i \in Id, NEW t \in Thread, at'[t].pc = "push", at'[t].id = i,
                    state'[i] # None, i \notin disturbed', i \notin slipped'
             PROVE  state'[i].received
  BY DEF Pushing, Pushes
<1>0. disturbed' # Id
  OBVIOUS
<1>1. /\ disturbed # Id /\ ConnState /\ GuiState /\ OwnName /\ KeepsChannel
      /\ "conn" \in Thread /\ "gui" \in Thread /\ "conn" # "gui" /\ i \notin disturbed
  BY <1>0, StillClean, StatesParts, HomesParts, BothThreads, DisturbedGrows
<1>2. CASE \E u \in Thread : Marks(u) /\ at[u].id = i
  BY <1>2 DEF Marks
<1>3. CASE ~(\E u \in Thread : Marks(u) /\ at[u].id = i)
  <2>1. at'[t] = at[t]
    <3> SUFFICES ASSUME Calm(t) \/ Changes(t) PROVE FALSE
      BY StepOrStayed
    <3>1. Marks(t)
      BY DEF Calm, Changes, Starts, Asks, Gets, Loads, Tests, Copies, Skips,
         Registers, Inserts, Marks, Stores, OpensFile, Writes, Resets, Moves, Saved
    <3>2. at[t].id = i
      BY <3>1 DEF Marks, Moves
    <3> QED BY <1>3, <3>1, <3>2
  <2>2. i \notin slipped
    BY <1>3, SlippedShrinks
  <2>3. state[i] # None => state[i].received
    BY <1>1, <2>1, <2>2 DEF Pushing, Pushes
  <2>4. CASE state'[i] = state[i]
    BY <2>3, <2>4
  <2>5. CASE state'[i] # state[i]
    <3>1. PICK u \in Thread : at[u].id = i /\ (Inserts(u) \/ Stores(u) \/ Resets(u))
      BY <1>3, <2>5, StateChanges DEF Removes
    <3>2. CASE Stores(u)
      BY <2>3, <3>1, <3>2 DEF Stores, StateThere, StateOf
    <3>3. CASE Resets(u)
      <4>1. u # t
        BY <2>1, <3>3 DEF Resets, Moves
      <4>2. Misses(u)
        BY <2>1, <3>1, <4>1 DEF Misses
      <4> QED BY <3>1, <3>3, <4>2 DEF Resets
    <3>4. CASE Inserts(u)
      <4>1. state[i] = None /\ joined[at[u].name] = i /\ u # t /\ at[u].name \in Name
        BY <2>1, <3>1, <3>4, InsertsAnew DEF Inserts, ChannelThere, Moves, Working
      <4>2. t = "gui" /\ u = "conn"
        BY <1>1, <2>1, <4>1, BothThreads DEF ConnState, StateThere, NeedsState
      <4>3. at["conn"].pc = "insert"
        BY <3>4, <4>2 DEF Inserts, Moves
      <4>4. joined[at["gui"].name] # i
        BY <1>1, <2>1, <4>1, <4>2, <4>3 DEF GuiState, StateThere, ChannelThere, NeedsState
      <4>5. at["gui"].name = at[u].name
        BY <1>1, <2>1, <4>1, <4>2 DEF OwnName, Using
      <4> QED BY <4>1, <4>4, <4>5
    <3> QED BY <3>1, <3>2, <3>3, <3>4
  <2> QED BY <2>4, <2>5
<1> QED BY <1>2, <1>3

-----------------------------------------------------------------------------
\* The newest messages.

\* What is in memory changes only where a message is stored.
LEMMA NewestChanges ==
  ASSUME TypeOK, Step, NEW i \in Id, state[i] # None, state'[i] # None, i \notin disturbed',
         Newest(i)' # Newest(i)
  PROVE  \E t \in Thread : Stores(t) /\ at[t].id = i
<1>1. state'[i] # state[i]
  BY DEF Newest
<1>2. ~(Removes /\ at["conn"].id = i)
  BY DEF Removes
<1>3. PICK t \in Thread : at[t].id = i /\ (Inserts(t) \/ Marks(t) \/ Stores(t) \/ Resets(t))
  BY <1>1, <1>2, StateChanges
<1>4. ~Inserts(t)
  BY <1>3, InsertsAnew
<1>5. Marks(t) \/ Resets(t) => state'[i].messages = state[i].messages
  BY <1>3 DEF Marks, Resets, StateOf
<1> QED BY <1>3, <1>4, <1>5 DEF Newest

\* A channel with a state is not a new one.
LEMMA SameChannel ==
  ASSUME TypeOK, TypeOK', Step, disturbed' # Id, Entries, NEW n \in Name, InMemory(n)'
  PROVE  /\ joined'[n] = joined[n] /\ joined[n] \in Id
         /\ state'[joined[n]] # None
<1>1. joined'[n] \in Id /\ state'[joined'[n]] # None
  BY DEF InMemory, TypeOK, ModelOK
<1> SUFFICES ASSUME joined'[n] # joined[n] PROVE FALSE
  BY <1>1
<1>2. PICK t \in Thread : Registers(t) /\ joined'[n] = at[t].id
  BY <1>1, ChannelChanges, ShapeFacts
<1>3. joined'[n] = count /\ state' = state
  BY <1>2 DEF Registers
<1> QED BY <1>1, <1>3, ShapeFacts DEF Entries, Given

\* The last message of a cache that keeps any is the last that was stored.
LEMMA CachedLast ==
  ASSUME NEW S, NEW s \in Seq(S), NEW m \in S, CacheSize # 0
  PROVE  LET c == Cached(Append(s, m)) IN Len(c) \in Nat \ {0} /\ c[Len(c)] = m
<1> DEFINE l == Append(s, m)
           c == Cached(l)
<1>1. l \in Seq(S) /\ Len(l) = Len(s) + 1 /\ l[Len(l)] = m /\ Len(s) \in Nat
  OBVIOUS
<1>2. CacheSize \in Nat /\ CacheSize > 0
  BY MessageCacheAssumption
<1> HIDE DEF l
<1>3. /\ c \in Seq(S) /\ Len(c) <= Len(l)
      /\ \A k \in 1 .. Len(c) : c[k] = l[k + (Len(l) - Len(c))]
  BY <1>1, CachedFacts
<1>4. Len(c) # 0
  <2>1. CASE Len(l) <= CacheSize
    BY <1>1, <2>1, CachedShort
  <2>2. CASE ~(Len(l) <= CacheSize)
    <3>1. \A k \in Len(l) - CacheSize + 1 .. Len(l) : l[k] \in S
      BY <1>1, <1>2, <2>2
    <3>2. Len(l) - CacheSize + 1 \in 1 .. Len(l) + 1
      BY <1>1, <1>2, <2>2
    <3>3. Len(SubSeq(l, Len(l) - CacheSize + 1, Len(l))) = CacheSize
      BY <1>1, <1>2, <2>2, <3>1, <3>2, SubSeqProperties
    <3> QED BY <1>2, <2>2, <3>3 DEF Cached
  <2> QED BY <2>1, <2>2
<1> HIDE DEF c
<1>5. Len(c) \in Nat \ {0} /\ Len(l) \in Nat
  BY <1>1, <1>3, <1>4
<1>6. c[Len(c)] = l[Len(c) + (Len(l) - Len(c))]
  BY <1>3, <1>5
<1>7. Len(c) + (Len(l) - Len(c)) = Len(l)
  BY <1>5
<1> QED BY <1>1, <1>5, <1>6, <1>7 DEF c, l

\* With no cache there is nothing on disk, as there should be.
LEMMA NothingCached ==
  ASSUME CacheSize = 0, NEW s \in Seq(Message), NEW d \in Seq(Message), Len(d) <= CacheSize
  PROVE  d = Cached(s)
<1>1. Cached(s) \in Seq(Message) /\ Len(Cached(s)) <= 0
  BY CachedFacts, CachedShort
<1>2. \A e \in Seq(Message) : Len(e) <= 0 => e = <<>>
  OBVIOUS
<1> QED BY <1>1, <1>2

\* A copy never holds the message that is stored now.
LEMMA NotYetCopied ==
  ASSUME TypeOK, Working, Logged, CacheSize # 0, NEW t \in Thread, NEW u \in Thread,
         NEW i \in Id, Stores(t), at[t].id = i
  PROVE  at[u].buffer # Newest(i)'
<1>1. /\ state[i] # None /\ state'[i].messages = Append(state[i].messages, at[t].msg)
      /\ at[t].pc = "push"
  BY DEF Stores, StateThere, StateOf, Moves
<1>2. state[i].messages \in Seq(Message)
  BY <1>1, ShapeFacts DEF ChannelState
<1>3. Adding(t) /\ at[t].msg \in Message /\ at[t].msg.by = t
  BY <1>1 DEF Working, Adding
<1> DEFINE c == Cached(state'[i].messages)
<1>4. Len(c) \in Nat \ {0} /\ c[Len(c)] = at[t].msg
  BY <1>1, <1>2, <1>3, CachedLast
<1> HIDE DEF c
<1> SUFFICES ASSUME at[u].buffer = c PROVE FALSE
  BY DEF Newest, c
<1>5. Older(c)
  BY ContentsFine DEF Fine
<1>6. at[t].msg.number < at[t].msg.number
  BY <1>3, <1>4, <1>5 DEF Older
<1>7. at[t].msg.number \in Int
  BY <1>3 DEF Message
<1> QED BY <1>6, <1>7

-----------------------------------------------------------------------------
\* What is read in, and what is written.

\* What was just read in is on disk.
LEMMA SettledWhenRead ==
  ASSUME TypeOK, TypeOK', Working, Counted, Homes, Short, Reading, Step,
         NEW n \in Name, NEW i \in Id, joined[n] = i, joined'[n] = i, state[i] = None,
         state'[i] # None, Undisturbed(n)', ~Saving(n)', ~Erasing(n)'
  PROVE  OnDisk(n)' = Newest(i)'
<1>0. disturbed' # Id /\ OwnFile(n) /\ i \notin disturbed
  BY FileOfSame, DisturbedGrows DEF Undisturbed, OwnFile
<1>1. OwnName /\ OneName /\ Uses
  BY <1>0, StillClean, HomesParts, CountedParts
<1>2. PICK v \in Thread : /\ Inserts(v) /\ at[v].id = i /\ at[v].name \in Name
                          /\ joined[at[v].name] = i
  BY MadeFor
<1>3. at[v].name = n /\ at[v].pc = "insert" /\ Others(v) /\ file' = file
  BY <1>1, <1>2, ShapeFacts DEF OneName, Inserts, Moves, SameFiles
<1>4. \A u \in Thread : ~Stray(u, n)
  BY <1>0, <1>1, StrayStays DEF Saving
<1>5. ~Erasing(n)
  BY <1>3, BothThreads DEF Erasing, Others
<1>6. at[v].buffer = OnDisk(n)
  BY <1>0, <1>2, <1>3, <1>4, <1>5 DEF Reading, ChannelThere, StateThere, Undisturbed
<1>7. OnDisk(n)' = at[v].buffer
  BY <1>3, <1>6, OnDiskSame
<1>8. at[v].buffer \in Seq(Message) /\ Len(at[v].buffer) <= CacheSize
  <2>1. fileOf[n] \in Name
    BY <1>0, OwnFiles
  <2> QED BY <1>6, <2>1, MessageCacheAssumption DEF OnDisk, TypeOK, DiskOK, Readable, Short
<1>9. state'[i].messages = at[v].buffer
  BY <1>2 DEF Inserts
<1> QED BY <1>7, <1>8, <1>9, CachedShort DEF Newest

\* A file that was just written is what is in memory.
LEMMA SettledWhenWritten ==
  ASSUME TypeOK, TypeOK', Working, Homes, StatesThere, Alone, Step,
         NEW n \in Name, NEW i \in Id, joined[n] = i, joined'[n] = i, state[i] # None,
         i \notin disturbed', OwnFile(n), ~Saving(n)', \A u \in Thread : ~Stray(u, n),
         NEW t \in Thread, Writes(t), at[t].name = n
  PROVE  OnDisk(n)' = Newest(i)'
<1>0. /\ disturbed # Id /\ fileOf' = fileOf /\ KeepsChannel
      /\ "conn" \in Thread /\ "gui" \in Thread
  BY StillClean, HomesParts, FileOfSame, BothThreads
<1>1. /\ at[t].pc = "write" /\ at'[t].pc = "reset" /\ at'[t].name = n
      /\ at'[t].id = at[t].id /\ at'[t].buffer = at[t].buffer
  BY DEF Writes, Moves
<1>2. CASE at[t].id = i
  <2>1. at[t].buffer = Newest(i)'
    BY <1>1, <1>2 DEF Saving
  <2>2. file' = [file EXCEPT ![fileOf[n]] = at[t].buffer]
    BY <1>2 DEF Writes, CurrentFile
  <2>3. fileOf[n] \in Name
    BY OwnFiles
  <2>4. at[t].buffer \notin {Absent, Torn}
    BY ValueAssumption, ShapeFacts DEF Place
  <2>5. file'[fileOf[n]] = at[t].buffer
    BY <2>2, <2>3 DEF TypeOK, DiskOK
  <2> QED BY <1>0, <2>1, <2>4, <2>5 DEF OnDisk, Readable, OwnFile
<1>3. CASE at[t].id # i
  <2>1. t # "conn"
    BY <1>0, <1>1, <1>3 DEF KeepsChannel, ChannelThere, Using
  <2>2. t = "gui" /\ ~ChannelThere("gui")
    BY <1>3, <2>1, BothThreads DEF ChannelThere
  <2>3. StateThere("gui")
    BY <1>0, <1>1, <2>2 DEF Stray
  <2>4. ~InMemory(n)
    BY <1>0, <1>1, <2>2, <2>3 DEF Alone
  <2> QED BY <2>4, ShapeFacts DEF InMemory
<1> QED BY <1>2, <1>3

\* Who is about to unmark a channel has been there, or has just written.
LEMMA ResetNow ==
  ASSUME TypeOK, Working, Step, NEW t \in Thread, at'[t].pc = "reset"
  PROVE  /\ at'[t].id = at[t].id /\ at'[t].name = at[t].name
         /\ at'[t] = at[t] \/ Writes(t) \/ ~HasFile(t)
<1>1. CASE Calm(t) \/ Changes(t)
  <2>1. OpensFile(t) \/ Writes(t)
    BY <1>1 DEF Calm, Changes, Starts, Asks, Gets, Loads, Tests, Copies, Skips, Registers,
       Inserts, Marks, Stores, Resets, Moves, Saved
  <2> QED BY <2>1 DEF OpensFile, Writes, Moves
<1> QED BY <1>1, StepOrStayed

-----------------------------------------------------------------------------
\* What is not marked is on disk: Settled.

\* No message was on its way to the channel.
LEMMA NoPushBefore ==
  ASSUME TypeOK, TypeOK', Working, Logged, Homes', Pushing, Step, CacheSize # 0,
         NEW n \in Name, NEW i \in Id, joined'[n] = i, disturbed' # Id,
         state[i] # None, i \notin disturbed, i \notin slipped,
         ~Saving(n)', ~Pushes(i)',
         ~state'[i].received \/ \E t \in Thread : at'[t].pc = "reset" /\ at'[t].id = i
  PROVE  ~Pushes(i)
<1> SUFFICES ASSUME NEW t \in Thread, at[t].pc = "push", at[t].id = i PROVE FALSE
  BY DEF Pushes
<1>1. Stores(t)
  <2>1. at'[t] # at[t]
    BY DEF Pushes
  <2> QED BY <2>1, StepOrStay, PointSteps
<1>2. state[i].received
  BY DEF Pushing, Pushes
<1>3. state'[i].received /\ Others(t) /\ at'[t].pc = "test"
  BY <1>1, <1>2 DEF Stores, Moves, StateOf
<1>4. PICK u \in Thread : at'[u].pc = "reset" /\ at'[u].id = i
  BY <1>3
<1>5. u # t /\ at'[u] = at[u]
  BY <1>3, <1>4 DEF Others
<1>6. at'[u].name = n
  <2>1. OwnName'
    BY HomesParts
  <2> QED BY <1>4, <2>1 DEF OwnName, Using
<1>7. at'[u].buffer = Newest(i)'
  BY <1>4, <1>6 DEF Saving
<1> QED BY <1>1, <1>5, <1>7, NotYetCopied

LEMMA SettledKept ==
  ASSUME TypeOK, TypeOK', Working, Logged, Counted, Homes, Homes', StatesThere, Alone, Short,
         Short', Reading, Pushing, Settled, Step
  PROVE  Settled'
<1> SUFFICES ASSUME NEW n \in Name, InMemory(n)', Undisturbed(n)', joined'[n] \notin slipped',
                    ~Saving(n)', ~Erasing(n)', ~Pushes(joined[n])',
                    \/ ~state'[joined'[n]].received
                    \/ \E t \in Thread : at'[t].pc = "reset" /\ at'[t].id = joined'[n]
             PROVE  OnDisk(n)' = Newest(joined[n])'
  BY DEF Settled
<1> PICK i : i = joined'[n]
  OBVIOUS
<1>1. /\ i \in Id /\ state'[i] # None /\ i \notin disturbed' /\ i \notin slipped'
      /\ fileOf' = fileOf /\ OwnFile(n) /\ ~Pushes(i)'
      /\ \/ ~state'[i].received
         \/ \E t \in Thread : at'[t].pc = "reset" /\ at'[t].id = i
  BY FileOfSame, MessageCacheAssumption
  DEF InMemory, Undisturbed, OwnFile, Pushes, TypeOK, ModelOK
<1>2. disturbed' # Id /\ disturbed # Id /\ i \notin disturbed
  BY <1>1, StillClean, DisturbedGrows
<1>3. /\ OwnName /\ OneName /\ Uses /\ Entries /\ KeepsChannel /\ OwnName'
      /\ "conn" \in Thread /\ "gui" \in Thread
  BY <1>2, HomesParts, CountedParts, BothThreads
<1> SUFFICES OnDisk(n)' = Newest(i)'
  BY DEF Newest
<1>4. joined[n] = i
  BY <1>2, <1>3, SameChannel
<1>5. CASE state[i] = None
  BY <1>1, <1>4, <1>5, SettledWhenRead
<1>6. CASE CacheSize = 0
  <2>1. fileOf'[n] \in Name
    BY <1>1, OwnFiles
  <2>2. OnDisk(n)' \in Seq(Message) /\ Len(OnDisk(n)') <= CacheSize
    BY <1>6, <2>1 DEF OnDisk, Readable, Short, TypeOK, DiskOK
  <2>3. state'[i].messages \in Seq(Message)
    BY <1>1 DEF TypeOK, ModelOK, ChannelState
  <2> QED BY <1>6, <2>2, <2>3, NothingCached DEF Newest
<1>7. CASE state[i] # None /\ CacheSize # 0
  <2>1. \A u \in Thread : ~Stray(u, n)
    BY <1>2, <1>3, StrayStays DEF Saving
  <2>2. ~Erasing(n)
    <3> SUFFICES ASSUME Erasing(n) PROVE FALSE
      OBVIOUS
    <3>1. Erases
      <4>1. at'["conn"] # at["conn"]
        BY DEF Erasing
      <4> QED BY <1>3, <4>1, WhoSteps, WindowPoints, StepPoints DEF Erasing
    <3> QED BY <1>1, <1>4, <3>1, ShapeFacts DEF Erases, Erasing
  <2>3. i \notin slipped
    <3> SUFFICES ASSUME i \in slipped PROVE FALSE
      OBVIOUS
    <3>1. PICK t \in Thread : Marks(t) /\ at[t].id = i
      BY <1>1, SlippedShrinks
    <3> QED BY <1>1, <3>1 DEF Marks, Moves, Pushes
  <2>4. ~Pushes(i)
    BY <1>1, <1>2, <1>7, <2>3, NoPushBefore
  <2>5. Newest(i)' = Newest(i)
    <3> SUFFICES ASSUME Newest(i)' # Newest(i) PROVE FALSE
      OBVIOUS
    <3>1. PICK t \in Thread : Stores(t) /\ at[t].id = i
      BY <1>1, <1>7, NewestChanges
    <3> QED BY <2>4, <3>1 DEF Stores, Moves, Pushes
  <2>6. CASE \E t \in Thread : Writes(t) /\ at[t].name = n
    BY <1>1, <1>4, <1>7, <2>1, <2>6, SettledWhenWritten
  <2>7. CASE ~(\E t \in Thread : Writes(t) /\ at[t].name = n)
    <3>1. ~(\E t \in Thread : at[t].name = n /\ at[t].pc = "write")
      <4> SUFFICES ASSUME NEW t \in Thread, at[t].name = n, at[t].pc = "write" PROVE FALSE
        OBVIOUS
      <4>1. at'[t] # at[t]
        BY DEF Saving
      <4> QED BY <2>7, <4>1, StepOrStay, PointSteps
    <3>2. ~(\E t \in Thread : /\ at[t].pc = "reset" /\ at[t].name = n /\ at[t].id = i
                              /\ at[t].buffer # Newest(i))
      <4> SUFFICES ASSUME NEW t \in Thread, at[t].pc = "reset", at[t].name = n, at[t].id = i,
                          at[t].buffer # Newest(i)
                   PROVE  FALSE
        OBVIOUS
      <4>1. at'[t] # at[t]
        BY <1>4, <2>5 DEF Saving, Newest
      <4>2. Resets(t)
        BY <4>1, StepOrStay, PointSteps
      <4>3. Misses(t)
        BY DEF Misses, Newest
      <4> QED BY <1>1, <4>2, <4>3 DEF Resets
    <3>3. ~Saving(n)
      BY <1>4, <2>1, <3>1, <3>2 DEF Saving
    <3>4. \/ ~state[i].received
          \/ \E t \in Thread : at[t].pc = "reset" /\ at[t].id = i
      <4>1. CASE ~state'[i].received
        <5> SUFFICES ASSUME state'[i] # state[i] PROVE \E t \in Thread : at[t].pc = "reset" /\ at[t].id = i
          BY <4>1
        <5>1. PICK t \in Thread : at[t].id = i /\ (Inserts(t) \/ Marks(t) \/ Stores(t) \/ Resets(t))
          BY <1>1, StateChanges DEF Removes
        <5>2. ~Inserts(t) /\ ~Marks(t)
          BY <1>1, <1>7, <4>1, <5>1, InsertsAnew DEF Marks
        <5>3. ~Stores(t)
          BY <2>4, <5>1 DEF Stores, Moves, Pushes
        <5> QED BY <5>1, <5>2, <5>3 DEF Resets, Moves
      <4>2. ASSUME NEW t \in Thread, at'[t].pc = "reset", at'[t].id = i
            PROVE  at[t].pc = "reset" /\ at[t].id = i
        <5>1. at'[t].name = n
          BY <1>1, <1>3, <4>2 DEF OwnName, Using
        <5>2. at[t].name = n /\ HasFile(t)
          BY <1>1, <4>2, <5>1, ResetNow DEF HasFile, CurrentFile, OwnFile
        <5>3. at'[t] = at[t]
          BY <2>7, <4>2, <5>2, ResetNow
        <5> QED BY <4>2, <5>3
      <4> QED BY <1>1, <4>1, <4>2
    <3>5. OnDisk(n) = Newest(i)
      BY <1>1, <1>2, <1>4, <1>7, <2>2, <2>3, <2>4, <3>3, <3>4
      DEF Settled, InMemory, Undisturbed
    <3>6. OnDisk(n)' = OnDisk(n)
      <4> SUFFICES ASSUME OnDisk(n)' # OnDisk(n) PROVE FALSE
        OBVIOUS
      <4>1. PICK t \in Thread : at[t].name = n /\ Moves(t, "open", "write")
        BY <1>1, <2>7, WritesOwn
      <4> QED BY <4>1 DEF Moves, Saving
    <3> QED BY <2>5, <3>5, <3>6
  <2> QED BY <2>6, <2>7
<1> QED BY <1>5, <1>6, <1>7

-----------------------------------------------------------------------------
\* What is marked is about to be saved: Marked.

\* A save goes on to its end.
LEMMA SaveSteps ==
  ASSUME NEW t \in Thread, Calm(t) \/ Changes(t), AboutToSave(t)
  PROVE  \/ AboutToSave(t)' /\ at'[t].id = at[t].id /\ at'[t].name = at[t].name
         \/ Skips(t) \/ Resets(t)
<1>1. Copies(t) \/ OpensFile(t) \/ Writes(t) \/ Skips(t) \/ Resets(t)
  BY PointSteps DEF AboutToSave
<1> QED BY <1>1 DEF Copies, OpensFile, Writes, Moves, AboutToSave

\* The flag of a channel that stays set was not taken by a save.
LEMMA NotUnset ==
  ASSUME NEW t \in Thread, Skips(t) \/ Resets(t), state[at[t].id] # None,
         state[at[t].id].received
  PROVE  Resets(t) /\ ~state'[at[t].id].received
BY DEF Skips, Resets, StateThere, StateOf

\* The places where a marked channel is about to be saved.
SoonSaved(n) ==
  \/ at["gui"].pc = "advance" /\ at["gui"].name < n
  \/ AboutToSave("gui") /\ at["gui"].name < n
  \/ AboutToSave("gui") /\ at["gui"].name = n /\ ChannelThere("gui")
  \/ at["conn"].id = joined[n] /\ (AboutToSave("conn") \/ at["conn"].pc \in {"push", "test"})

LEMMA MarkedParts ==
  /\ Marked <=>
       (disturbed # Id /\ ~focused =>
          \A n \in Name : InMemory(n) /\ state[joined[n]].received => SoonSaved(n))
  /\ Marked' <=>
       (disturbed' # Id /\ ~focused' =>
          \A n \in Name : InMemory(n)' /\ state'[joined'[n]].received => SoonSaved(n)')
BY DEF Marked, SoonSaved

LEMMA SoonStays ==
  ASSUME TypeOK, Unfocused, Step, ~focused, ~focused', NEW n \in Name, NEW i \in Id,
         joined[n] = i, joined'[n] = i, state[i] # None, state[i].received,
         state'[i].received, SoonSaved(n)
  PROVE  SoonSaved(n)'
<1>0. "conn" \in Thread /\ "gui" \in Thread /\ n > 0 /\ at["gui"].name \in Nat
  BY BothThreads, MessageCacheAssumption DEF Name, TypeOK, Place
<1>1. CASE Calm("gui") \/ Changes("gui")
  <2>0. at'["conn"] = at["conn"]
    BY <1>0, <1>1, OthersSame DEF Others
  <2>1. CASE AboutToSave("gui")'
             /\ at'["gui"].id = at["gui"].id /\ at'["gui"].name = at["gui"].name
    <3>1. AboutToSave("gui")
      BY <1>0, <1>1, <2>1 DEF AboutToSave, Calm, Changes, Starts, Asks, Gets, Loads, Tests,
         Copies, Skips, Registers, Inserts, Marks, Stores, OpensFile, Writes, Resets, Moves, Saved, Unfocused
    <3> QED BY <2>0, <2>1, <3>1 DEF SoonSaved, ChannelThere, AboutToSave
  <2>2. CASE Skips("gui") \/ Resets("gui")
    <3>1. at["gui"].pc \in {"save", "reset"} /\ at'["gui"].pc = Saved("gui")
      BY <2>2 DEF Skips, Resets, Moves
    <3>2. Saved("gui") = "advance"
      BY <3>1 DEF Unfocused, Saved
    <3>3. at'["gui"].pc = "advance" /\ at'["gui"].name = at["gui"].name
      BY <2>2, <3>2 DEF Skips, Resets, Moves
    <3>4. ~(at["gui"].name = n /\ ChannelThere("gui"))
      BY <1>0, <2>2, NotUnset DEF ChannelThere
    <3> QED BY <2>0, <3>1, <3>3, <3>4 DEF SoonSaved, AboutToSave
  <2>3. CASE ~AboutToSave("gui")
    <3>1. at["gui"].pc # "advance"
      BY <1>0, <1>1, StepPoints
    <3> QED BY <2>0, <2>3, <3>1 DEF SoonSaved, AboutToSave
  <2> QED BY <1>0, <1>1, <2>1, <2>2, <2>3, SaveSteps
<1>2. CASE at'["gui"] = at["gui"] /\ (Calm("conn") \/ Changes("conn"))
  <2>1. CASE at["conn"].id = i /\ AboutToSave("conn")
    <3>1. ~Skips("conn") /\ ~Resets("conn")
      BY <1>0, <2>1, NotUnset
    <3> QED BY <1>0, <1>2, <2>1, <3>1, SaveSteps DEF SoonSaved
  <2>2. CASE at["conn"].id = i /\ at["conn"].pc \in {"push", "test"}
    <3>1. Stores("conn") \/ Tests("conn")
      BY <1>0, <1>2, <2>2, PointSteps
    <3>2. at'["conn"].id = i /\ at'["conn"].pc \in {"test", "save"}
      BY <2>2, <3>1 DEF Stores, Tests, Moves
    <3> QED BY <3>2 DEF SoonSaved, AboutToSave
  <2>3. CASE ~(at["conn"].id = i /\ (AboutToSave("conn") \/ at["conn"].pc \in {"push", "test"}))
    BY <1>2, <2>3 DEF SoonSaved, ChannelThere, AboutToSave
  <2> QED BY <2>1, <2>2, <2>3
<1>3. CASE at'["gui"] = at["gui"] /\ (Removes \/ Erases)
  <2>1. at["conn"].pc \in {"remove", "erase"}
    BY <1>3, WindowPoints
  <2> QED BY <1>3, <2>1 DEF SoonSaved, ChannelThere, AboutToSave
<1>4. CASE Persists
  BY <1>0, <1>4 DEF Persists, SoonSaved, Unfocused, NoName
<1>5. CASE WalksOn
  <2>1. /\ at["gui"].pc = "advance" /\ at'["gui"].pc = "save" /\ at'["conn"] = at["conn"]
        /\ at'["gui"].id = joined[at'["gui"].name] /\ joined' = joined
        /\ at'["gui"].name \in Name /\ \A m \in Later : at'["gui"].name <= m
    BY <1>0, <1>5 DEF WalksOn, Others, Same, SameModel, Later
  <2>2. CASE at["gui"].name < n
    <3>1. n \in Later
      BY <2>2, ShapeFacts, <1>0 DEF Later
    <3>2. at'["gui"].name <= n /\ at'["gui"].name \in Int /\ n \in Int
      BY <2>1, <3>1 DEF Name
    <3>3. at'["gui"].name < n \/ at'["gui"].name = n
      BY <3>2
    <3> QED BY <2>1, <3>3 DEF SoonSaved, ChannelThere, AboutToSave
  <2>3. CASE ~(at["gui"].name < n)
    BY <2>1, <2>3 DEF SoonSaved, AboutToSave
  <2> QED BY <2>2, <2>3
<1>6. CASE WalksOff
  <2>1. at["gui"].pc = "advance" /\ at'["conn"] = at["conn"]
    BY <1>0, <1>6 DEF WalksOff, Moves, Others
  <2>2. ~(at["gui"].name < n)
    BY <1>0, <1>6, ShapeFacts DEF WalksOff, Later
  <2> QED BY <2>1, <2>2 DEF SoonSaved, AboutToSave
<1>7. ~Regains /\ ~Disconnects
  BY ShapeFacts DEF Regains, Disconnects
<1> QED BY <1>1, <1>2, <1>3, <1>4, <1>5, <1>6, <1>7, WhoSteps

LEMMA MarkedKept ==
  ASSUME TypeOK, TypeOK', Working, Counted, Unfocused, Marked, Step
  PROVE  Marked'
<1> SUFFICES ASSUME disturbed' # Id, ~focused', NEW n \in Name, InMemory(n)',
                    state'[joined'[n]].received
             PROVE  SoonSaved(n)'
  BY MarkedParts
<1>0. "conn" \in Thread /\ "gui" \in Thread
  BY BothThreads
<1>1. CASE focused
  <2>1. \A t \in Thread : ~Calm(t) /\ ~Changes(t)
    BY <1>1, FocusSame
  <2>2. Persists
    BY <1>1, <2>1 DEF Step, WindowStep, Removes, Erases, Regains, WalksOn, WalksOff, Disconnects,
       Same
  <2> QED BY <1>0, <2>2 DEF Persists, SoonSaved, Unfocused, NoName, Name
<1>2. CASE ~focused
  <2>1. disturbed # Id /\ Entries
    BY StillClean, CountedParts
  <2>2. PICK i \in Id : joined[n] = i /\ joined'[n] = i /\ state'[i] # None /\ state'[i].received
    BY <2>1, SameChannel
  <2>3. CASE state[i] # None /\ state[i].received
    <3>1. SoonSaved(n)
      BY <1>2, <2>1, <2>2, <2>3, MarkedParts, ShapeFacts DEF InMemory
    <3> QED BY <1>2, <2>2, <2>3, <3>1, SoonStays
  <2>4. CASE ~(state[i] # None /\ state[i].received)
    <3>1. PICK t \in Thread : at[t].id = i /\ (Inserts(t) \/ Marks(t) \/ Stores(t) \/ Resets(t))
      BY <2>2, <2>4, StateChanges DEF Removes
    <3>2. Marks(t)
      BY <2>2, <2>4, <3>1 DEF Inserts, Stores, Resets, StateThere, StateOf
    <3>3. at[t].pc = "mark" /\ at'[t].pc = "push" /\ at'[t].id = i
      BY <3>1, <3>2 DEF Marks, Moves
    <3>4. t = "conn"
      BY <1>2, <3>3, BothThreads DEF Unfocused
    <3> QED BY <2>2, <3>3, <3>4 DEF SoonSaved
  <2> QED BY <2>3, <2>4
<1> QED BY <1>1, <1>2

-----------------------------------------------------------------------------
\* The inductive invariant.

LEMMA EndKeeps ==
  ASSUME IInv, NEW how \in {"down", "undefined"}, Ends(how)
  PROVE  IInv'
<1>1. TypeOK' /\ TypeOK /\ Logged
  BY EndTypes DEF IInv
<1>2. \A t \in Thread : at'[t] = AtRest
  BY DEF Ends
<1>3. AtRest.pc = "idle" /\ AtRest.job = "none" /\ AtRest.buffer = <<>>
  BY DEF AtRest
<1>4. \A t \in Thread : at'[t].pc = "idle" /\ at'[t].job = "none" /\ at'[t].buffer = <<>>
  BY <1>2, <1>3
<1>5. Working'
  BY <1>4 DEF Working, Adding
<1>6. NoNewMessage
  BY <1>4 DEF NoNewMessage, Adding, Ends
<1>7. /\ \A i \in Id : state'[i] = None
      /\ file' = file /\ \A n \in Name : joined'[n] = None
  BY DEF Ends, disk
<1>8. Logged'
  <2>1. \A f \in Name : Readable(f)' => Fine(file'[f])
    BY <1>1, <1>7, ContentsFine DEF Readable
  <2>2. \A t \in Thread : Fine(at'[t].buffer)
    BY <1>1, <1>4, ContentsFine
  <2>3. \A i \in Id : state'[i] # None => Fine(state'[i].messages)
    BY <1>7
  <2> QED BY <1>1, <1>6, <2>1, <2>2, <2>3, LoggedKept
<1>9. Counted'
  BY <1>4, <1>7 DEF Counted, Given, Using
<1>10. \A t \in Thread : ~Using(at'[t].pc) /\ ~NeedsState(at'[t].pc)
  BY <1>4 DEF Using, NeedsState
<1>11. Homes' /\ StatesThere' /\ Alone'
  BY <1>4, <1>10, BothThreads DEF Homes, StatesThere, Alone
<1>12. Short' /\ Reading'
  BY <1>4, <1>7 DEF Short, Reading, Readable, IInv
<1>13. Pushing' /\ Settled'
  BY <1>7 DEF Pushing, Settled, InMemory
<1>14. Unfocused' /\ Marked'
  <2>1. focused' /\ AtRest.name = NoName
    BY DEF Ends, AtRest
  <2> QED BY <1>2, <2>1 DEF Unfocused, Marked
<1> QED BY <1>1, <1>5, <1>8, <1>9, <1>11, <1>12, <1>13, <1>14 DEF IInv

LEMMA UpKeeps ==
  ASSUME IInv, run' = "up", TypeOK',
         (\E t \in Thread : ThreadStep(t)) \/ ConnStep \/ GuiStep
  PROVE  Working' /\ Logged' /\ Counted'
<1>0. TypeOK /\ Working /\ Logged /\ Counted
  BY DEF IInv
<1>1. Counted'
  BY <1>0, ThreadCounted, WindowCounted
<1>2. CASE \E t \in Thread : \E n \in Name : AddMessage(t, n)
  BY <1>0, <1>1, <1>2, Arrival
<1>3. CASE \E t \in Thread : Push(t)
  BY <1>0, <1>1, <1>3, Stored
<1>4. CASE /\ \A t \in Thread : ~Push(t) /\ \A n \in Name : ~AddMessage(t, n)
  <2>1. Working' /\ NoNewMessage /\ BuffersFine
    BY <1>0, <1>4, ThreadLocals, WindowLocals
  <2>2. /\ \A i \in Id : state'[i] # None => Fine(state'[i].messages)
        /\ \A f \in Name : Readable(f)' => Fine(file'[f])
    BY <1>0, <1>4, StoresFine
  <2>3. Logged'
    BY <1>0, <2>1, <2>2, LoggedKept DEF BuffersFine
  <2> QED BY <1>1, <2>1, <2>3
<1> QED BY <1>2, <1>3, <1>4

\* The parts about the channels, states and files of the threads.
LEMMA PartsKept ==
  ASSUME IInv, run' = "up", TypeOK',
         (\E t \in Thread : ThreadStep(t)) \/ ConnStep \/ GuiStep
  PROVE  /\ Homes' /\ StatesThere' /\ Alone' /\ Short'
         /\ Reading' /\ Pushing' /\ Settled' /\ Unfocused' /\ Marked'
<1>1. /\ TypeOK /\ Working /\ Logged /\ Counted /\ Homes /\ StatesThere /\ Alone /\ Short
      /\ Reading /\ Pushing /\ Settled /\ Unfocused /\ Marked
  BY DEF IInv
<1>2. Step
  BY <1>1, StepOfNext
<1>3. Homes' /\ StatesThere' /\ Alone' /\ Short'
  BY <1>1, <1>2, HomesKept, StatesKept, AloneKept, ShortKept
<1>4. Reading' /\ Pushing' /\ Settled'
  BY <1>1, <1>2, <1>3, ReadingKept, PushingKept, SettledKept
<1>5. Unfocused' /\ Marked'
  BY <1>1, <1>2, UnfocusedKept, MarkedKept
<1> QED BY <1>3, <1>4, <1>5

LEMMA SameKeeps ==
  ASSUME IInv, TypeOK', UNCHANGED <<disk, focused, model, sent, at, history>>
  PROVE  IInv'
<1>1. /\ file' = file /\ joined' = joined /\ count' = count /\ state' = state
      /\ sent' = sent /\ at' = at /\ disturbed' = disturbed
      /\ fileOf' = fileOf /\ slipped' = slipped /\ focused' = focused
  BY DEF disk, model, history
<1>2. Working'
  BY <1>1 DEF IInv, Working, Adding
<1>3. Logged'
  BY <1>1 DEF IInv, Logged, Contents, Readable, Ordered, Older, Adding
<1>4. Counted'
  BY <1>1 DEF IInv, Counted, Given
<1>5. Homes' /\ StatesThere' /\ Short'
  BY <1>1 DEF IInv, Homes, StatesThere, Short, ChannelThere, StateThere, Readable
<1>6. Alone'
  BY <1>1 DEF IInv, Alone, ChannelThere, StateThere, CurrentFile, OwnFile, InMemory
<1>7. Reading'
  BY <1>1 DEF IInv, Reading, ChannelThere, StateThere, Undisturbed, OwnFile, OnDisk, Readable,
     Erasing, Stray
<1>8. Pushing' /\ Unfocused'
  BY <1>1 DEF IInv, Pushing, Pushes, Unfocused
<1>9. Settled'
  BY <1>1 DEF IInv, Settled, InMemory, Undisturbed, OwnFile, OnDisk, Readable, Saving, Erasing,
     Pushes, Stray, ChannelThere, StateThere, Newest, Cached
<1>10. Marked'
  BY <1>1 DEF IInv, Marked, InMemory, AboutToSave, ChannelThere
<1> QED BY <1>2, <1>3, <1>4, <1>5, <1>6, <1>7, <1>8, <1>9, <1>10 DEF IInv

LEMMA InitInv == Init => IInv
<1> SUFFICES ASSUME Init PROVE IInv
  OBVIOUS
<1>1. TypeOK
  BY InitTypes
<1>2. \A t \in Thread : at[t].pc = "idle" /\ at[t].job = "none" /\ at[t].buffer = <<>>
  <2>1. AtRest.pc = "idle" /\ AtRest.job = "none" /\ AtRest.buffer = <<>>
    BY DEF AtRest
  <2> QED BY <2>1 DEF Init
<1>3. Working
  BY <1>2 DEF Working, Adding
<1>4. /\ \A i \in Id : state[i] = None
      /\ \A n \in Name : joined[n] = None /\ ~Readable(n)
  BY DEF Init, Readable
<1>5. Logged
  <2> SUFFICES ASSUME NEW s \in Contents PROVE Ordered(s) /\ Older(s)
    BY DEF Logged
  <2>1. s = <<>>
    BY <1>2, <1>4 DEF Contents
  <2> QED BY <2>1 DEF Ordered, Older
<1>6. Counted
  BY <1>2, <1>4 DEF Counted, Given, Using
<1>7. \A t \in Thread : ~Using(at[t].pc) /\ ~NeedsState(at[t].pc)
  BY <1>2 DEF Using, NeedsState
<1>8. Homes /\ StatesThere /\ Alone
  BY <1>2, <1>7, BothThreads DEF Homes, StatesThere, Alone
<1>9. Short /\ Reading /\ Pushing /\ Settled
  BY <1>2, <1>4 DEF Short, Reading, Pushing, Settled, InMemory
<1>10. Unfocused /\ Marked
  <2>1. focused /\ \A t \in Thread : at[t].name = NoName
    BY DEF Init, AtRest
  <2> QED BY <2>1 DEF Unfocused, Marked
<1> QED BY <1>1, <1>3, <1>5, <1>6, <1>8, <1>9, <1>10 DEF IInv

LEMMA NextInv == IInv /\ [Next]_vars => IInv'
<1> SUFFICES ASSUME IInv, [Next]_vars PROVE IInv'
  OBVIOUS
<1>1. TypeOK'
  BY TypesKept DEF IInv
<1>2. CASE UNCHANGED vars
  <2>1. UNCHANGED <<disk, focused, model, sent, at, history>>
    BY <1>2 DEF vars
  <2> QED BY <1>1, <2>1, SameKeeps
<1>3. CASE Start
  <2>1. UNCHANGED <<disk, focused, model, sent, at, history>>
    BY <1>3 DEF Start
  <2> QED BY <1>1, <2>1, SameKeeps
<1>4. CASE \E how \in {"down", "undefined"} : Ends(how)
  BY <1>4, EndKeeps
<1>5. CASE /\ run' = "up"
           /\ (\E t \in Thread : ThreadStep(t)) \/ ConnStep \/ GuiStep
  <2>1. Working' /\ Logged' /\ Counted'
    BY <1>1, <1>5, UpKeeps
  <2>2. /\ Homes' /\ StatesThere' /\ Alone' /\ Short'
        /\ Reading' /\ Pushing' /\ Settled' /\ Unfocused' /\ Marked'
    BY <1>1, <1>5, PartsKept
  <2> QED BY <1>1, <2>1, <2>2 DEF IInv
<1> QED BY <1>2, <1>3, <1>4, <1>5, StepKinds

LEMMA Invariant == Spec => []IInv
BY InitInv, NextInv, PTL DEF Spec

\* The state keeps its types: no state of the run is half an entry of a map,
\* and no counter leaves its bound.
THEOREM TypeCorrect == Spec => []TypeOK
<1>1. IInv => TypeOK
  BY DEF IInv
<1> QED BY <1>1, Invariant, PTL

\* The messages of one sender stay in order and single in memory and on disk,
\* over any number of restarts, crashes and races between the two threads.
THEOREM MessagesInOrder == Spec => []InOrder
<1>1. IInv => InOrder
  <2> SUFFICES ASSUME IInv PROVE InOrder
    OBVIOUS
  <2>1. TypeOK /\ Logged
    BY DEF IInv
  <2> QED BY <2>1, ContentsFine DEF InOrder, Fine
<1> QED BY <1>1, Invariant, PTL

\* A channel whose flag is not set has its newest messages on disk, whenever no
\* thread is in the middle of it: what is not marked is never lost.  (Except for
\* what slipped or was disturbed, as the property says.)
THEOREM UnsavedMessagesAreMarked == Spec => []UnsavedIsMarked
<1>1. IInv => UnsavedIsMarked
  <2> SUFFICES ASSUME IInv, NEW n \in Name, run = "up", InMemory(n), ~Busy(n), Undisturbed(n),
                      joined[n] \notin slipped, ~state[joined[n]].received
               PROVE  OnDisk(n) = Cached(state[joined[n]].messages)
    BY DEF UnsavedIsMarked
  <2>1. TypeOK /\ Settled /\ Homes
    BY DEF IInv
  <2>2. joined[n] \in Id /\ disturbed # Id
    BY <2>1, ShapeFacts DEF InMemory, Undisturbed
  <2>3. ~Saving(n) /\ ~Erasing(n)
    BY BothThreads DEF Busy, Saving, Erasing, Stray
  <2>4. ~Pushes(joined[n])
    <3> SUFFICES ASSUME NEW t \in Thread, at[t].pc = "push", at[t].id = joined[n] PROVE FALSE
      BY DEF Pushes
    <3>1. OwnName
      BY <2>1, <2>2, HomesParts
    <3>2. at[t].name = n
      BY <3>1 DEF OwnName, Using
    <3> QED BY <3>2 DEF Busy
  <2> QED BY <2>1, <2>3, <2>4 DEF Settled, Newest
<1> QED BY <1>1, Invariant, PTL

\* Without the focus and with both threads at rest, the file of every channel
\* holds its newest messages: either the loop that saved the channels or the
\* message that came after it wrote them.
THEOREM UnfocusedIsSaved == Spec => []SavedWhenUnfocused
<1>1. IInv => SavedWhenUnfocused
  <2> SUFFICES ASSUME IInv, NEW n \in Name, run = "up", ~focused,
                      \A t \in Thread : at[t].pc = "idle", InMemory(n), Undisturbed(n),
                      joined[n] \notin slipped
               PROVE  OnDisk(n) = Cached(state[joined[n]].messages)
    BY DEF SavedWhenUnfocused
  <2>1. TypeOK /\ Settled /\ Marked
    BY DEF IInv
  <2>2. joined[n] \in Id /\ disturbed # Id
    BY <2>1, ShapeFacts DEF InMemory, Undisturbed
  <2>3. ~SoonSaved(n)
    BY BothThreads DEF SoonSaved, AboutToSave
  <2>4. ~state[joined[n]].received
    BY <2>1, <2>2, <2>3, MarkedParts
  <2>5. ~Saving(n) /\ ~Erasing(n) /\ ~Pushes(joined[n])
    BY BothThreads DEF Saving, Erasing, Pushes, Stray
  <2> QED BY <2>1, <2>4, <2>5 DEF Settled, Newest
<1> QED BY <1>1, Invariant, PTL

-----------------------------------------------------------------------------
\* A torn file stays torn.

Holds(p) == p \in {"insert", "mark", "push", "test", "open", "write"}
NoneLoaded(f) == \A n \in Name : fileOf[n] = f => ~InMemory(n)
Away(f) == \A t \in Thread : Holds(at[t].pc) => fileOf[at[t].name] # f

LEMMA UntouchedParts ==
  ASSUME NEW f
  PROVE  /\ Untouched(f) <=> NoneLoaded(f) /\ Away(f)
         /\ Untouched(f)' <=> NoneLoaded(f)' /\ Away(f)'
BY DEF Untouched, NoneLoaded, Away, Holds, CurrentFile

LEMMA AwayMoved ==
  ASSUME TypeOK, NEW f, Away(f), fileOf' = fileOf,
         NEW t \in Thread, NEW p \in Points, GoTo(t, p),
         Holds(p) => fileOf[at[t].name] # f
  PROVE  Away(f)'
<1>1. ASSUME NEW u \in Thread, Holds(at'[u].pc)
      PROVE  fileOf'[at'[u].name] # f
  <2>1. CASE u = t
    <3>1. at'[t].pc = p /\ (Using(p) => at'[t].name = at[t].name)
      BY GoToChannel
    <3>2. Holds(p) => Using(p)
      BY DEF Holds, Using
    <3> QED BY <1>1, <2>1, <3>1, <3>2
  <2>2. CASE u # t
    BY <1>1, <2>2, GoToChannel DEF Away
  <2> QED BY <2>1, <2>2
<1> QED BY <1>1 DEF Away

LEMMA AwayPlaced ==
  ASSUME TypeOK, NEW f, Away(f), fileOf' = fileOf,
         NEW t \in Thread, NEW new, at' = [at EXCEPT ![t] = new],
         Holds(new.pc) => fileOf[new.name] # f
  PROVE  Away(f)'
<1>1. ASSUME NEW u \in Thread, Holds(at'[u].pc)
      PROVE  fileOf'[at'[u].name] # f
  <2>1. CASE u = t
    BY <1>1, <2>1 DEF TypeOK
  <2>2. CASE u # t
    BY <1>1, <2>2 DEF TypeOK, Away
  <2> QED BY <2>1, <2>2
<1> QED BY <1>1 DEF Away

\* The steps of a thread: what it works on is loaded, or it reads the file.
LEMMA ThreadAway ==
  ASSUME TypeOK, Working, NEW f \in Name, file[f] = Torn,
         NoneLoaded(f), Away(f), NEW t \in Thread, ThreadStep(t), run' = "up"
  PROVE  Away(f)'
<1>0. /\ at \in [Thread -> Place] /\ at[t] \in Place
      /\ joined \in [Name -> Id \cup {None}]
      /\ at[t].id \in Id /\ None \notin Id
  BY MessageCacheAssumption DEF TypeOK, ModelOK, Place
<1>1. fileOf' = fileOf
  <2>1. CASE \E n \in Name : AddChannel(t, n) \/ AddMessage(t, n)
    BY <2>1 DEF AddChannel, AddMessage, Begin, disk
  <2>2. CASE Register(t) \/ Get(t) \/ Load(t) \/ Insert(t) \/ Mark(t) \/ Push(t)
             \/ TestFocus(t) \/ Save(t) \/ OpenFile(t) \/ WriteFile(t) \/ Reset(t)
    BY <2>2 DEF Register, Get, Load, Insert, Mark, Push, TestFocus, Save, OpenFile,
       WriteFile, Reset, disk
  <2>3. CASE Dangling(t) \/ ParseError(t)
    BY <2>3 DEF Dangling, ParseError, Ends, disk
  <2> QED BY <2>1, <2>2, <2>3 DEF ThreadStep
<1>2. ASSUME NEW p \in Points, GoTo(t, p), Holds(p) => fileOf[at[t].name] # f
      PROVE  Away(f)'
  BY <1>1, <1>2, AwayMoved
<1>3. Holds(at[t].pc) => fileOf[at[t].name] # f
  BY DEF Away
<1>4. ASSUME at[t].pc \in {"get", "save"}, ChannelThere(t), StateThere(t)
      PROVE  fileOf[at[t].name] # f
  <2>1. at[t].name \in Name
    BY <1>4 DEF Working
  <2>2. InMemory(at[t].name)
    BY <1>0, <1>4 DEF ChannelThere, StateThere, InMemory
  <2> QED BY <2>1, <2>2 DEF NoneLoaded
<1>5. {"idle", "load", "push", "test", "save", "write", "reset"} \subseteq Points
  BY DEF Points
<1>6. ASSUME NEW n \in Name, AddChannel(t, n) PROVE Away(f)'
  <2> DEFINE new == [at[t] EXCEPT !.pc = "register", !.name = n, !.id = count]
  <2>1. at' = [at EXCEPT ![t] = new] /\ new.pc = "register"
    BY <1>0, <1>6 DEF AddChannel, Place
  <2> HIDE DEF new
  <2> QED BY <1>1, <2>1, AwayPlaced DEF Holds
<1>7. ASSUME NEW n \in Name, AddMessage(t, n) PROVE Away(f)'
  <2> DEFINE new == [pc |-> "get", job |-> "add", name |-> n, id |-> joined[n],
                     msg |-> [by |-> t, number |-> sent + 1], buffer |-> <<>>]
  <2>1. at' = [at EXCEPT ![t] = new] /\ new.pc = "get"
    BY <1>7 DEF AddMessage, Begin
  <2> HIDE DEF new
  <2> QED BY <1>1, <2>1, AwayPlaced DEF Holds
<1>8. CASE Register(t)
  BY <1>2, <1>5, <1>8 DEF Register, Holds
<1>9. CASE Get(t)
  <2>1. (IF StateThere(t) THEN Got(t) ELSE "load") \in Points
    BY <1>5, SavedFacts
  <2>2. Holds(IF StateThere(t) THEN Got(t) ELSE "load") => fileOf[at[t].name] # f
    BY <1>4, <1>9 DEF Get, At, Holds
  <2> QED BY <1>2, <1>9, <2>1, <2>2 DEF Get
<1>10. CASE Load(t)
  <2>1. PICK b : at' = [at EXCEPT ![t].pc = "insert", ![t].buffer = b]
    BY <1>10 DEF Load
  <2> DEFINE new == [at[t] EXCEPT !.pc = "insert", !.buffer = b]
  <2>2. at' = [at EXCEPT ![t] = new] /\ new.name = at[t].name
    BY <1>0, <2>1 DEF Place
  <2>3. fileOf[at[t].name] # f
    <3>1. f # 0
      BY MessageCacheAssumption DEF Name
    <3> QED BY <1>10, <3>1 DEF Load, ReadsTornFile, HasFile, CurrentFile, NoFile
  <2> HIDE DEF new
  <2> QED BY <1>1, <2>2, <2>3, AwayPlaced
<1>11. CASE Insert(t)
  BY <1>2, <1>3, <1>11, SavedFacts DEF Insert, At, Holds
<1>12. CASE Mark(t) \/ Push(t)
  BY <1>2, <1>3, <1>5, <1>12 DEF Mark, Push, At, Holds
<1>13. CASE TestFocus(t)
  <2>1. /\ (IF focused THEN "idle" ELSE "save") \in Points
        /\ ~Holds(IF focused THEN "idle" ELSE "save")
    BY <1>5 DEF Holds
  <2> QED BY <1>2, <1>13, <2>1 DEF TestFocus
<1>14. ~Holds(Saved(t))
  BY DEF Saved, Holds
<1>15. CASE Save(t)
  <2>1. ASSUME NEW b, at' = [at EXCEPT ![t].pc = "open", ![t].buffer = b],
               StateThere(t)
        PROVE  Away(f)'
    <3> DEFINE new == [at[t] EXCEPT !.pc = "open", !.buffer = b]
    <3>1. at' = [at EXCEPT ![t] = new] /\ new.name = at[t].name
      BY <1>0, <2>1 DEF Place
    <3>2. fileOf[at[t].name] # f
      BY <1>4, <1>15, <2>1 DEF Save, At
    <3> HIDE DEF new
    <3> QED BY <1>1, <3>1, <3>2, AwayPlaced
  <2> QED BY <1>2, <1>14, <1>15, <2>1, SavedFacts DEF Save
<1>16. CASE OpenFile(t)
  BY <1>2, <1>3, <1>5, <1>16 DEF OpenFile, At, Holds
<1>17. CASE WriteFile(t)
  BY <1>2, <1>5, <1>17 DEF WriteFile, Holds
<1>18. CASE Reset(t)
  BY <1>2, <1>14, <1>18, SavedFacts DEF Reset
<1>19. ~Dangling(t) /\ ~ParseError(t)
  BY DEF Dangling, ParseError, Ends
<1> QED BY <1>6, <1>7, <1>8, <1>9, <1>10, <1>11, <1>12, <1>13, <1>15, <1>16,
           <1>17, <1>18, <1>19 DEF ThreadStep

\* A thread that brings a channel into memory has read its file.
LEMMA ThreadLoads ==
  ASSUME TypeOK, Working, Counted, NEW f \in Name,
         NoneLoaded(f), Away(f), NEW t \in Thread, ThreadStep(t), run' = "up",
         disturbed = {}, disturbed' = {}
  PROVE  NoneLoaded(f)'
<1>0. /\ joined \in [Name -> Id \cup {None}]
      /\ state \in [Id -> ChannelState \cup {None}]
      /\ at[t].id \in Id /\ None \notin Id /\ count \in 0 .. MaxIds
  BY MessageCacheAssumption DEF TypeOK, ModelOK, Place
<1>1. Entries /\ OneName
  <2>1. 0 \in Id
    BY MessageCacheAssumption DEF Id
  <2> QED BY <2>1, CountedParts
<1>2. CASE \E n \in Name : AddChannel(t, n) \/ AddMessage(t, n)
  BY <1>2 DEF AddChannel, AddMessage, Begin, disk, model, NoneLoaded, InMemory
<1>3. CASE Register(t)
  <2>1. count = at[t].id
    BY <1>0, <1>3 DEF Register
  <2>2. /\ joined' = [joined EXCEPT ![at[t].name] = count]
        /\ state' = state /\ fileOf' = fileOf
    BY <1>3, <2>1 DEF Register, disk
  <2>3. state[count] = None
    <3>1. ~Given(count) /\ count \in Id
      BY <1>0, <2>1 DEF Given
    <3> QED BY <1>1, <3>1 DEF Entries
  <2>4. ASSUME NEW n \in Name, fileOf'[n] = f, joined'[n] # None
        PROVE  state'[joined'[n]] = None
    <3>1. joined'[n] = joined[n] \/ joined'[n] = count
      BY <1>0, <2>2
    <3> QED BY <2>2, <2>3, <2>4, <3>1 DEF NoneLoaded, InMemory
  <2> QED BY <2>4 DEF NoneLoaded, InMemory
<1>4. CASE Insert(t)
  <2>1. /\ at[t].name \in Name /\ fileOf[at[t].name] # f
        /\ joined[at[t].name] = at[t].id
    BY <1>4 DEF Insert, At, Working, Away, Holds, ChannelThere
  <2>2. /\ joined' = joined /\ fileOf' = fileOf
        /\ \A i \in Id : i # at[t].id => state'[i] = state[i]
    BY <1>0, <1>4 DEF Insert, disk
  <2>3. ASSUME NEW n \in Name, fileOf'[n] = f, joined'[n] # None
        PROVE  state'[joined'[n]] = None
    <3>1. joined[n] \in Id /\ joined[n] # at[t].id
      BY <1>0, <1>1, <2>1, <2>2, <2>3 DEF OneName
    <3> QED BY <2>2, <2>3, <3>1 DEF NoneLoaded, InMemory
  <2> QED BY <2>3 DEF NoneLoaded, InMemory
<1>5. CASE Mark(t) \/ Push(t) \/ Reset(t)
  <2>1. /\ joined' = joined /\ fileOf' = fileOf /\ state[at[t].id] # None
        /\ \A i \in Id : i # at[t].id => state'[i] = state[i]
    BY <1>0, <1>5 DEF Mark, Push, Reset, disk, StateThere
  <2>2. ASSUME NEW n \in Name, fileOf'[n] = f, joined'[n] # None
        PROVE  state'[joined'[n]] = None
    <3>1. joined[n] \in Id /\ state[joined[n]] = None
      BY <1>0, <2>1, <2>2 DEF NoneLoaded, InMemory
    <3> QED BY <2>1, <3>1
  <2> QED BY <2>2 DEF NoneLoaded, InMemory
<1>6. CASE Get(t) \/ Load(t) \/ TestFocus(t) \/ Save(t) \/ OpenFile(t) \/ WriteFile(t)
  <2>1. joined' = joined /\ fileOf' = fileOf /\ state' = state
    BY <1>6 DEF Get, Load, TestFocus, Save, OpenFile, WriteFile, disk, model
  <2> QED BY <2>1 DEF NoneLoaded, InMemory
<1>7. ~Dangling(t) /\ ~ParseError(t)
  BY DEF Dangling, ParseError, Ends
<1> QED BY <1>2, <1>3, <1>4, <1>5, <1>6, <1>7 DEF ThreadStep

\* The other steps only take channels and states away.
LEMMA WindowUntouched ==
  ASSUME TypeOK, NEW f \in Name, NoneLoaded(f), Away(f), ConnStep \/ GuiStep,
         run' = "up"
  PROVE  NoneLoaded(f)' /\ Away(f)'
<1>0. /\ at \in [Thread -> Place] /\ "gui" \in Thread /\ "conn" \in Thread
      /\ at["gui"] \in Place /\ at["conn"] \in Place
      /\ joined \in [Name -> Id \cup {None}]
      /\ state \in [Id -> ChannelState \cup {None}]
  BY DEF TypeOK, ModelOK, Thread
<1>1. ~CloseAll
  BY DEF CloseAll, Ends
<1>2. /\ fileOf' = fileOf
      /\ \A n \in Name : joined'[n] \in {joined[n], None}
      /\ state' = state \/ state' = [state EXCEPT ![at["conn"].id] = None]
  <2>1. CASE \E n \in Name : Part(n) \/ OpenChannel(n)
    BY <2>1 DEF Part, OpenChannel, Begin, disk, model
  <2>2. CASE LoseFocus \/ EndLoop
    BY <2>2 DEF LoseFocus, EndLoop, PersistChannels, disk, model
  <2>3. CASE EraseChannel \/ RemoveChannel
    BY <1>0, <2>3 DEF EraseChannel, RemoveChannel, disk
  <2>4. CASE Disconnect \/ GainFocus \/ Advance
    BY <2>4 DEF Disconnect, GainFocus, Advance, disk, model
  <2> QED BY <1>1, <2>1, <2>2, <2>3, <2>4 DEF ConnStep, GuiStep
<1>3. NoneLoaded(f)'
  <2>1. ASSUME NEW n \in Name, fileOf'[n] = f, joined'[n] # None
        PROVE  state'[joined'[n]] = None
    <3>1. joined[n] \in Id /\ joined'[n] = joined[n] /\ state[joined[n]] = None
      BY <1>0, <1>2, <2>1 DEF NoneLoaded, InMemory
    <3> QED BY <1>0, <1>2, <3>1
  <2> QED BY <2>1 DEF NoneLoaded, InMemory
<1>4. Away(f)'
  <2>1. ASSUME NEW n \in Name, Part(n) \/ OpenChannel(n) PROVE Away(f)'
    <3>1. PICK t \in Thread, p \in {"save", "get"}, j \in {"part", "open"} :
                 Begin(t, n, p, j, None)
      BY <1>0, <2>1 DEF Part, OpenChannel
    <3> DEFINE new == [pc |-> p, job |-> j, name |-> n, id |-> joined[n],
                       msg |-> None, buffer |-> <<>>]
    <3>2. at' = [at EXCEPT ![t] = new] /\ ~Holds(new.pc)
      BY <3>1 DEF Begin, Holds
    <3> HIDE DEF new
    <3> QED BY <1>2, <3>2, AwayPlaced
  <2>2. {"erase", "idle", "close"} \subseteq Points
    BY DEF Points
  <2>3. ASSUME NEW t \in Thread, NEW p \in {"erase", "idle", "close"}, GoTo(t, p)
        PROVE  Away(f)'
    BY <1>2, <2>2, <2>3, AwayMoved DEF Holds
  <2>4. CASE RemoveChannel \/ EraseChannel
    BY <1>0, <2>3, <2>4 DEF RemoveChannel, EraseChannel
  <2>5. CASE LoseFocus \/ EndLoop
    <3>1. PICK j : PersistChannels(j)
      BY <2>5 DEF LoseFocus, EndLoop
    <3> DEFINE new == [at["gui"] EXCEPT !.pc = "advance", !.job = j]
    <3>2. at' = [at EXCEPT !["gui"] = new] /\ new.pc = "advance"
      BY <1>0, <3>1 DEF PersistChannels, Place
    <3> HIDE DEF new
    <3> QED BY <1>0, <1>2, <3>2, AwayPlaced DEF Holds
  <2>6. CASE GainFocus \/ Disconnect
    BY <1>2, <2>6 DEF GainFocus, Disconnect, Away
  <2>7. CASE Advance
    <3>1. CASE GoTo("gui", "close") \/ GoTo("gui", "idle")
      BY <1>0, <2>3, <3>1
    <3>2. ASSUME NEW n \in Later,
                 at' = [at EXCEPT !["gui"].pc = "save", !["gui"].name = n,
                                  !["gui"].id = joined[n]]
          PROVE  Away(f)'
      <4> DEFINE new == [at["gui"] EXCEPT !.pc = "save", !.name = n, !.id = joined[n]]
      <4>1. at' = [at EXCEPT !["gui"] = new] /\ new.pc = "save"
        BY <1>0, <3>2 DEF Place
      <4> HIDE DEF new
      <4> QED BY <1>0, <1>2, <4>1, AwayPlaced DEF Holds
    <3> QED BY <2>7, <3>1, <3>2 DEF Advance
  <2> QED BY <1>1, <2>1, <2>4, <2>5, <2>6, <2>7 DEF ConnStep, GuiStep
<1> QED BY <1>3, <1>4

LEMMA StaysTorn ==
  ASSUME TypeOK, NEW f \in Name, file[f] = Torn, Away(f), Next
  PROVE  file'[f] = Torn
<1>1. ASSUME NEW t \in Thread, OpenFile(t) PROVE file'[f] = Torn
  BY <1>1 DEF OpenFile, TypeOK, DiskOK
<1>2. ASSUME NEW t \in Thread, WriteFile(t) PROVE file'[f] = Torn
  <2>1. CurrentFile(t) # f
    BY <1>2 DEF WriteFile, At, Away, Holds, CurrentFile
  <2> QED BY <1>2, <2>1 DEF WriteFile, TypeOK, DiskOK
<1>3. ASSUME NEW t \in Thread, ThreadStep(t), ~OpenFile(t), ~WriteFile(t)
      PROVE  file' = file
  <2>1. CASE \E n \in Name : AddChannel(t, n) \/ AddMessage(t, n)
    BY <2>1 DEF AddChannel, AddMessage, Begin, disk
  <2>2. CASE Register(t) \/ Get(t) \/ Load(t) \/ Insert(t) \/ Mark(t) \/ Push(t)
             \/ TestFocus(t) \/ Save(t) \/ Reset(t)
    BY <2>2 DEF Register, Get, Load, Insert, Mark, Push, TestFocus, Save, Reset, disk
  <2>3. CASE Dangling(t) \/ ParseError(t)
    BY <2>3 DEF Dangling, ParseError, Ends, disk
  <2> QED BY <1>3, <2>1, <2>2, <2>3 DEF ThreadStep
<1>4. CASE ConnStep \/ GuiStep
  <2>1. CASE \E n \in Name : Part(n) \/ OpenChannel(n)
    BY <2>1 DEF Part, OpenChannel, Begin, disk
  <2>2. CASE LoseFocus \/ EndLoop
    BY <2>2 DEF LoseFocus, EndLoop, PersistChannels, disk
  <2>3. CASE EraseChannel \/ RemoveChannel \/ Disconnect \/ GainFocus \/ Advance
    BY <2>3 DEF EraseChannel, RemoveChannel, Disconnect, GainFocus, Advance, disk
  <2>4. CASE CloseAll
    BY <2>4 DEF CloseAll, Ends, disk
  <2> QED BY <1>4, <2>1, <2>2, <2>3, <2>4 DEF ConnStep, GuiStep
<1>5. CASE Crash \/ Start
  BY <1>5 DEF Crash, Start, Ends, disk
<1> QED BY <1>1, <1>2, <1>3, <1>4, <1>5 DEF Next

\* A torn cache file is never written again, in this run of the program or a
\* later one: writers need the channel in memory, and loading it reads the
\* file and ends the program.
THEOREM TornForever == Spec => UnreadableStays
<1>1. ASSUME IInv, [Next]_vars, NEW f \in Name,
             disturbed = {}, file[f] = Torn, Untouched(f)
      PROVE  file'[f] = Torn /\ (disturbed' = {} => Untouched(f)')
  <2>1. TypeOK /\ Working /\ Counted /\ NoneLoaded(f) /\ Away(f)
    BY <1>1, UntouchedParts DEF IInv
  <2>2. CASE UNCHANGED vars
    BY <1>1, <2>2 DEF vars, disk, model, Untouched, InMemory, CurrentFile
  <2>3. CASE Next
    <3>1. file'[f] = Torn
      BY <1>1, <2>1, <2>3, StaysTorn
    <3>2. ASSUME disturbed' = {} PROVE NoneLoaded(f)' /\ Away(f)'
      <4>1. CASE /\ run' = "up"
                 /\ (\E t \in Thread : ThreadStep(t)) \/ ConnStep \/ GuiStep
        BY <1>1, <2>1, <3>2, <4>1, ThreadAway, ThreadLoads, WindowUntouched
      <4>2. CASE \E how \in {"down", "undefined"} : Ends(how)
        <5>1. AtRest.pc = "idle"
          BY DEF AtRest
        <5> QED BY <4>2, <5>1 DEF Ends, NoneLoaded, InMemory, Away, Holds
      <4>3. CASE Start
        BY <2>1, <4>3 DEF Start, disk, model, NoneLoaded, InMemory, Away
      <4> QED BY <2>3, <4>1, <4>2, <4>3, StepKinds
    <3> QED BY <3>1, <3>2, UntouchedParts
  <2> QED BY <1>1, <2>2, <2>3
<1>2. IInv /\ [Next]_vars
        => [\A f \in Name : disturbed = {} /\ file[f] = Torn /\ Untouched(f)
              => file'[f] = Torn /\ (disturbed' = {} => Untouched(f)')]_vars
  BY <1>1
<1> QED BY <1>2, Invariant, PTL DEF Spec, UnreadableStays
-----------------------------------------------------------------------------
(* What a message becomes in its file: base64, and the UTF-8 of what is typed *)

\* What a byte is.
Octet == 0 .. 255

\* No two of the 64 letters are the same, and none is the padding.
LEMMA Letters ==
  \A n \in 0 .. 63 :
    /\ Letter(n) \in DOMAIN Value /\ Value[Letter(n)] = n
    /\ Letter(n) # PaddingChar
<1>1. \A n, m \in 0 .. 63 : Letter(n) = Letter(m) => n = m
  BY DEF Letter
<1>2. \A n \in 0 .. 63 : Letter(n) # PaddingChar
  BY DEF Letter, PaddingChar
<1> SUFFICES ASSUME NEW n \in 0 .. 63
             PROVE  Letter(n) \in DOMAIN Value /\ Value[Letter(n)] = n
  BY <1>2
<1>3. Letter(n) \in {Letter(m) : m \in 0 .. 63}
  OBVIOUS
<1>4. Value[Letter(n)] = CHOOSE m \in 0 .. 63 : Letter(m) = Letter(n)
  BY <1>3 DEF Value
<1>5. (CHOOSE m \in 0 .. 63 : Letter(m) = Letter(n)) = n
  BY <1>1
<1> QED BY <1>3, <1>4, <1>5 DEF Value

\* The six bits of each of the four letters of three bytes.
Six(t1, t2, t3, k) ==
  IF k = 0 THEN t1 \div 4 ELSE IF k = 1 THEN ((t1 % 4) * 16) + (t2 \div 16)
  ELSE IF k = 2 THEN ((t2 % 16) * 4) + (t3 \div 64) ELSE t3 % 64

LEMMA Sextets ==
  ASSUME NEW t1 \in Octet, NEW t2 \in Octet, NEW t3 \in Octet, NEW k \in 0 .. 3
  PROVE  /\ Six(t1, t2, t3, k) \in 0 .. 63
         /\ Encode3(t1, t2, t3)[k + 1] = Letter(Six(t1, t2, t3, k))
<1>1. CASE k = 0
  <2>1. Six(t1, t2, t3, k) = t1 \div 4
    BY <1>1 DEF Six
  <2>2. t1 \div 4 \in 0 .. 63
    BY DEF Octet
  <2> QED BY <1>1, <2>1, <2>2 DEF Encode3, EncodeTable0
<1>2. CASE k = 1
  <2>1. Six(t1, t2, t3, k) = ((t1 % 4) * 16) + (t2 \div 16)
    BY <1>2 DEF Six
  <2>2. ((t1 % 4) * 16) + (t2 \div 16) \in 0 .. 63
    BY DEF Octet
  <2>3. \A x \in 0 .. 63 : x % 64 = x
    OBVIOUS
  <2> QED BY <1>2, <2>1, <2>2, <2>3 DEF Encode3, EncodeTable1
<1>3. CASE k = 2
  <2>1. Six(t1, t2, t3, k) = ((t2 % 16) * 4) + (t3 \div 64)
    BY <1>3 DEF Six
  <2>2. ((t2 % 16) * 4) + (t3 \div 64) \in 0 .. 63
    BY DEF Octet
  <2>3. \A x \in 0 .. 63 : x % 64 = x
    OBVIOUS
  <2> QED BY <1>3, <2>1, <2>2, <2>3 DEF Encode3, EncodeTable1
<1>4. CASE k = 3
  <2>1. Six(t1, t2, t3, k) = t3 % 64
    BY <1>4 DEF Six
  <2>2. t3 % 64 \in 0 .. 63
    BY DEF Octet
  <2> QED BY <1>4, <2>1, <2>2 DEF Encode3, EncodeTable1
<1> QED BY <1>1, <1>2, <1>3, <1>4

\* The word of three bytes: the first is where the machine keeps decidx0.
WordOf(order, t1, t2, t3) ==
  IF order = "little" THEN t1 + 256 * t2 + 65536 * t3 ELSE 65536 * t1 + 256 * t2 + t3

\* What the code's tables make of the six bits n at each of the four places, for a
\* machine that keeps the first byte last, and for one that keeps it first.
LEMMA TablesBig ==
  ASSUME NEW n \in 0 .. 63
  PROVE  /\ DecodeTable("big", 0, Letter(n)) = 262144 * n
         /\ DecodeTable("big", 1, Letter(n)) = 4096 * n
         /\ DecodeTable("big", 2, Letter(n)) = 64 * n
         /\ DecodeTable("big", 3, Letter(n)) = n
<1>1. Letter(n) \in DOMAIN Value /\ Value[Letter(n)] = n
  BY Letters
<1>2. /\ Sixes[4 - 0] = 262144 /\ Sixes[4 - 1] = 4096
      /\ Sixes[4 - 2] = 64 /\ Sixes[4 - 3] = 1
  BY DEF Sixes
<1>3. \A k \in 0 .. 3 : DecodeTable("big", k, Letter(n)) = n * Sixes[4 - k]
  BY <1>1 DEF DecodeTable, DecodeTableBig
<1> QED BY <1>2, <1>3

LEMMA TablesLittle ==
  ASSUME NEW n \in 0 .. 63
  PROVE  /\ DecodeTable("little", 0, Letter(n)) = 4 * n
         /\ \A x \in 0 .. 3, y \in 0 .. 15 : n = x * 16 + y =>
              DecodeTable("little", 1, Letter(n)) = x + 4096 * y
         /\ \A x \in 0 .. 15, y \in 0 .. 3 : n = x * 4 + y =>
              DecodeTable("little", 2, Letter(n)) = 256 * x + 4194304 * y
         /\ DecodeTable("little", 3, Letter(n)) = 65536 * n
<1>1. Letter(n) \in DOMAIN Value /\ Value[Letter(n)] = n
  BY Letters
<1>2. /\ Sixes[4 - 0] = 262144 /\ Sixes[4 - 1] = 4096
      /\ Sixes[4 - 2] = 64 /\ Sixes[4 - 3] = 1
  BY DEF Sixes
<1> DEFINE Swapped(w) == (w \div 65536) + 256 * ((w \div 256) % 256) + 65536 * (w % 256)
<1>3. \A k \in 0 .. 3 : DecodeTable("little", k, Letter(n)) = Swapped(n * Sixes[4 - k])
  BY <1>1 DEF DecodeTable, DecodeTableLittle
<1>4. Swapped(n * 262144) = 4 * n
  <2>1. (n * 262144) \div 65536 = 4 * n
    OBVIOUS
  <2>2. ((n * 262144) \div 256) % 256 = 0
    OBVIOUS
  <2>3. (n * 262144) % 256 = 0
    OBVIOUS
  <2> QED BY <2>1, <2>2, <2>3
<1>5. ASSUME NEW x \in 0 .. 3, NEW y \in 0 .. 15, n = x * 16 + y
      PROVE  Swapped(n * 4096) = x + 4096 * y
  <2>1. (n * 4096) \div 65536 = x
    BY <1>5
  <2>2. ((n * 4096) \div 256) % 256 = 16 * y
    BY <1>5
  <2>3. (n * 4096) % 256 = 0
    OBVIOUS
  <2> QED BY <2>1, <2>2, <2>3
<1>6. ASSUME NEW x \in 0 .. 15, NEW y \in 0 .. 3, n = x * 4 + y
      PROVE  Swapped(n * 64) = 256 * x + 4194304 * y
  <2>1. (n * 64) \div 65536 = 0
    OBVIOUS
  <2>2. ((n * 64) \div 256) % 256 = x
    BY <1>6
  <2>3. (n * 64) % 256 = 64 * y
    BY <1>6
  <2> QED BY <2>1, <2>2, <2>3
<1>7. Swapped(n * 1) = 65536 * n
  <2>1. (n * 1) \div 65536 = 0
    OBVIOUS
  <2>2. ((n * 1) \div 256) % 256 = 0
    OBVIOUS
  <2>3. (n * 1) % 256 = n
    OBVIOUS
  <2> QED BY <2>1, <2>2, <2>3
<1> HIDE DEF Swapped
<1>8. /\ DecodeTable("little", 0, Letter(n)) = Swapped(n * 262144)
      /\ DecodeTable("little", 1, Letter(n)) = Swapped(n * 4096)
      /\ DecodeTable("little", 2, Letter(n)) = Swapped(n * 64)
      /\ DecodeTable("little", 3, Letter(n)) = Swapped(n * 1)
  BY <1>2, <1>3
<1> QED BY <1>4, <1>5, <1>6, <1>7, <1>8

\* The four letters of three bytes are read as their word; those that three bytes
\* with zeros at the end would have anyway add nothing to it.
LEMMA GroupIsRead ==
  ASSUME NEW order \in Orders, NEW t1 \in Octet, NEW t2 \in Octet, NEW t3 \in Octet
  PROVE  LET d(k) == DecodeTable(order, k, Letter(Six(t1, t2, t3, k)))
         IN /\ \A k \in 0 .. 3 : d(k) \in Nat
            /\ d(0) + d(1) + d(2) + d(3) = WordOf(order, t1, t2, t3)
            /\ t3 = 0 => d(3) = 0
            /\ t2 = 0 /\ t3 = 0 => d(2) = 0
<1>1. PICK s1 \in 0 .. 63, s2 \in 0 .. 63, s3 \in 0 .. 63, s4 \in 0 .. 63 :
        /\ s1 = Six(t1, t2, t3, 0) /\ s2 = Six(t1, t2, t3, 1)
        /\ s3 = Six(t1, t2, t3, 2) /\ s4 = Six(t1, t2, t3, 3)
  <2>1. \A k \in 0 .. 3 : Six(t1, t2, t3, k) \in 0 .. 63
    BY Sextets
  <2>2. /\ Six(t1, t2, t3, 0) \in 0 .. 63 /\ Six(t1, t2, t3, 1) \in 0 .. 63
        /\ Six(t1, t2, t3, 2) \in 0 .. 63 /\ Six(t1, t2, t3, 3) \in 0 .. 63
    BY <2>1
  <2> QED BY <2>2
<1>2. /\ s1 = t1 \div 4 /\ s2 = ((t1 % 4) * 16) + (t2 \div 16)
      /\ s3 = ((t2 % 16) * 4) + (t3 \div 64) /\ s4 = t3 % 64
  <2>1. Six(t1, t2, t3, 0) = t1 \div 4
    BY DEF Six
  <2>2. Six(t1, t2, t3, 1) = ((t1 % 4) * 16) + (t2 \div 16)
    BY DEF Six
  <2>3. Six(t1, t2, t3, 2) = ((t2 % 16) * 4) + (t3 \div 64)
    BY DEF Six
  <2>4. Six(t1, t2, t3, 3) = t3 % 64
    BY DEF Six
  <2> QED BY <1>1, <2>1, <2>2, <2>3, <2>4
<1>3. PICK a \in 0 .. 3, b \in 0 .. 15, c \in 0 .. 15, e \in 0 .. 3 :
        a = t1 % 4 /\ b = t2 \div 16 /\ c = t2 % 16 /\ e = t3 \div 64
  <2>1. t1 % 4 \in 0 .. 3 /\ t2 \div 16 \in 0 .. 15 /\ t2 % 16 \in 0 .. 15
    BY DEF Octet
  <2>2. t3 \div 64 \in 0 .. 3
    BY DEF Octet
  <2> QED BY <2>1, <2>2
<1>4. /\ s2 = a * 16 + b /\ s3 = c * 4 + e
      /\ t1 = 4 * s1 + a /\ t2 = 16 * b + c /\ t3 = 64 * e + s4
  <2>1. t1 = 4 * (t1 \div 4) + (t1 % 4)
    BY DEF Octet
  <2>2. t2 = 16 * (t2 \div 16) + (t2 % 16)
    BY DEF Octet
  <2>3. t3 = 64 * (t3 \div 64) + (t3 % 64)
    BY DEF Octet
  <2> QED BY <1>2, <1>3, <2>1, <2>2, <2>3
<1> DEFINE d(k) == DecodeTable(order, k, Letter(Six(t1, t2, t3, k)))
<1>5. CASE order = "little"
  <2>1. /\ d(0) = 4 * s1 /\ d(1) = a + 4096 * b
        /\ d(2) = 256 * c + 4194304 * e /\ d(3) = 65536 * s4
    <3>1. DecodeTable("little", 0, Letter(s1)) = 4 * s1
      BY TablesLittle
    <3>2. DecodeTable("little", 1, Letter(s2)) = a + 4096 * b
      BY <1>4, TablesLittle
    <3>3. DecodeTable("little", 2, Letter(s3)) = 256 * c + 4194304 * e
      BY <1>4, TablesLittle
    <3>4. DecodeTable("little", 3, Letter(s4)) = 65536 * s4
      BY TablesLittle
    <3> QED BY <1>1, <1>5, <3>1, <3>2, <3>3, <3>4
  <2>2. d(0) + d(1) + d(2) + d(3) = t1 + 256 * t2 + 65536 * t3
    <3> HIDE DEF d
    <3> QED BY <2>1, <1>4
  <2>3. \A k \in 0 .. 3 : d(k) \in Nat
    <3> HIDE DEF d
    <3>1. d(0) \in Nat /\ d(1) \in Nat /\ d(2) \in Nat /\ d(3) \in Nat
      BY <2>1
    <3> QED BY <3>1
  <2>4. (t3 = 0 => d(3) = 0) /\ (t2 = 0 /\ t3 = 0 => d(2) = 0)
    <3> HIDE DEF d
    <3> QED BY <2>1, <1>4
  <2> QED BY <2>2, <2>3, <2>4, <1>5 DEF WordOf
<1>6. CASE order = "big"
  <2>1. d(0) = 262144 * s1 /\ d(1) = 4096 * s2 /\ d(2) = 64 * s3 /\ d(3) = s4
    BY <1>1, <1>6, TablesBig
  <2>2. d(0) + d(1) + d(2) + d(3) = 65536 * t1 + 256 * t2 + t3
    <3> HIDE DEF d
    <3> QED BY <2>1, <1>4
  <2>3. \A k \in 0 .. 3 : d(k) \in Nat
    <3> HIDE DEF d
    <3>1. d(0) \in Nat /\ d(1) \in Nat /\ d(2) \in Nat /\ d(3) \in Nat
      BY <2>1
    <3> QED BY <3>1
  <2>4. (t3 = 0 => d(3) = 0) /\ (t2 = 0 /\ t3 = 0 => d(2) = 0)
    <3> HIDE DEF d
    <3> QED BY <2>1, <1>4
  <2> QED BY <2>2, <2>3, <2>4, <1>6 DEF WordOf
<1> QED BY <1>5, <1>6 DEF Orders

\* The bytes of a word are those it is made of.
LEMMA BytesOfWord ==
  ASSUME NEW order \in Orders, NEW t1 \in Octet, NEW t2 \in Octet, NEW t3 \in Octet
  PROVE  LET w == WordOf(order, t1, t2, t3)
         IN /\ ByteAt(order, w, DecIdx(order, 0)) = t1
            /\ ByteAt(order, w, DecIdx(order, 1)) = t2
            /\ ByteAt(order, w, DecIdx(order, 2)) = t3
            /\ w \in Nat /\ w < BadChar
<1>1. /\ Eights[0 + 1] = 1 /\ Eights[1 + 1] = 256 /\ Eights[2 + 1] = 65536
      /\ Eights[4 - (0 + 1)] = 65536 /\ Eights[4 - (1 + 1)] = 256
      /\ Eights[4 - (2 + 1)] = 1
  BY DEF Eights
<1>2. PICK w \in Nat : w = WordOf(order, t1, t2, t3)
  BY DEF WordOf, Octet
<1>3. w < BadChar
  BY <1>2 DEF WordOf, Octet, BadChar
<1>4. CASE order = "little"
  <2>1. w = t1 + 256 * t2 + 65536 * t3
    BY <1>2, <1>4 DEF WordOf
  <2>2. (w \div 1) % 256 = t1 /\ (w \div 256) % 256 = t2 /\ (w \div 65536) % 256 = t3
    <3>1. (w \div 1) % 256 = t1
      BY <2>1 DEF Octet
    <3>2. (w \div 256) % 256 = t2
      <4>1. w \div 256 = t2 + 256 * t3
        BY <2>1 DEF Octet
      <4> QED BY <4>1 DEF Octet
    <3>3. (w \div 65536) % 256 = t3
      BY <2>1 DEF Octet
    <3> QED BY <3>1, <3>2, <3>3
  <2>3. /\ ByteAt(order, w, DecIdx(order, 0)) = (w \div 1) % 256
        /\ ByteAt(order, w, DecIdx(order, 1)) = (w \div 256) % 256
        /\ ByteAt(order, w, DecIdx(order, 2)) = (w \div 65536) % 256
    BY <1>1, <1>4 DEF ByteAt, DecIdx
  <2> QED BY <1>2, <1>3, <2>2, <2>3
<1>5. CASE order = "big"
  <2>1. w = 65536 * t1 + 256 * t2 + t3
    BY <1>2, <1>5 DEF WordOf
  <2>2. (w \div 65536) % 256 = t1 /\ (w \div 256) % 256 = t2 /\ (w \div 1) % 256 = t3
    <3>1. (w \div 65536) % 256 = t1
      BY <2>1 DEF Octet
    <3>2. (w \div 256) % 256 = t2
      <4>1. w \div 256 = t2 + 256 * t1
        BY <2>1 DEF Octet
      <4> QED BY <4>1 DEF Octet
    <3>3. (w \div 1) % 256 = t3
      BY <2>1 DEF Octet
    <3> QED BY <3>1, <3>2, <3>3
  <2>3. /\ ByteAt(order, w, DecIdx(order, 0)) = (w \div 65536) % 256
        /\ ByteAt(order, w, DecIdx(order, 1)) = (w \div 256) % 256
        /\ ByteAt(order, w, DecIdx(order, 2)) = (w \div 1) % 256
    BY <1>1, <1>5 DEF ByteAt, DecIdx
  <2> QED BY <1>2, <1>3, <2>2, <2>3
<1> QED BY <1>4, <1>5 DEF Orders

\* The k-th of the g-th three bytes, zeros behind the last one.
Triple(bytes, g, k) == IF k <= Len(bytes) - 3 * (g - 1) THEN bytes[3 * (g - 1) + k] ELSE 0

\* How many threes the bytes make, the last one perhaps in part.
Groups(bytes) == (Len(bytes) + 2) \div 3

LEMMA GroupsOfBytes ==
  ASSUME NEW bytes \in Seq(Octet)
  PROVE  /\ Len(bytes) \in Nat /\ Groups(bytes) \in Nat
         /\ 3 * Groups(bytes) - 2 <= Len(bytes) \/ Groups(bytes) = 0
         /\ Len(bytes) <= 3 * Groups(bytes)
         /\ \A g \in 1 .. Groups(bytes), k \in 1 .. 3 : Triple(bytes, g, k) \in Octet
<1>1. PICK n \in Nat : n = Len(bytes)
  OBVIOUS
<1>2. PICK m \in Nat : m = (n + 2) \div 3 /\ n <= 3 * m /\ 3 * m <= n + 2
  OBVIOUS
<1>3. ASSUME NEW g \in 1 .. m, NEW k \in 1 .. 3 PROVE Triple(bytes, g, k) \in Octet
  <2>1. CASE k <= n - 3 * (g - 1)
    <3>1. 3 * (g - 1) + k \in 1 .. n
      BY <2>1
    <3>2. bytes[3 * (g - 1) + k] \in Octet
      BY <3>1, <1>1
    <3> QED BY <2>1, <3>2, <1>1 DEF Triple
  <2>2. CASE ~(k <= n - 3 * (g - 1))
    BY <2>2, <1>1 DEF Triple, Octet
  <2> QED BY <2>1, <2>2
<1>4. m = Groups(bytes)
  BY <1>1, <1>2 DEF Groups
<1> QED BY <1>1, <1>2, <1>3, <1>4

\* A text's k-th letter of its g-th four, and the one it is to be.
LetterAt(text, g, k) == text[4 * (g - 1) + k + 1]
LetterFor(bytes, g, k) ==
  IF k <= Len(bytes) - 3 * (g - 1)
  THEN Letter(Six(Triple(bytes, g, 1), Triple(bytes, g, 2), Triple(bytes, g, 3), k))
  ELSE PaddingChar

\* Four letters stand for each three bytes, padding where there are fewer.
LEMMA LettersOfText ==
  ASSUME NEW bytes \in Seq(Octet), NEW n \in Nat, n = Len(bytes),
         NEW m \in Nat, m = Groups(bytes), NEW text, text = ToBase64(bytes)
  PROVE  /\ Len(text) = 4 * m
         /\ \A g \in 1 .. m, k \in 0 .. 3 : LetterAt(text, g, k) = LetterFor(bytes, g, k)
<1>1. text = [j \in 1 .. 4 * m |->
                EncodeGroup(bytes, ((j - 1) \div 4) + 1)[((j - 1) % 4) + 1]]
  BY DEF ToBase64, Groups
<1>2. Len(text) = 4 * m
  <2>1. 4 * m \in Nat
    OBVIOUS
  <2>2. text \in Seq({text[j] : j \in 1 .. 4 * m})
    <3> DEFINE S == {text[j] : j \in 1 .. 4 * m}
    <3>1. text \in [1 .. 4 * m -> S]
      BY <1>1
    <3> HIDE DEF S
    <3>2. text \in Seq(S)
      BY <2>1, <3>1
    <3> QED BY <3>2 DEF S
  <2>3. DOMAIN text = 1 .. 4 * m /\ DOMAIN text = 1 .. Len(text) /\ Len(text) \in Nat
    BY <1>1, <2>2, LenProperties
  <2> QED BY <2>1, <2>3
<1>3. ASSUME NEW g \in 1 .. m, NEW k \in 0 .. 3
      PROVE  LetterAt(text, g, k) = LetterFor(bytes, g, k)
  <2>1. PICK j \in 1 .. 4 * m : j = 4 * (g - 1) + k + 1
    OBVIOUS
  <2>2. ((j - 1) \div 4) + 1 = g /\ ((j - 1) % 4) + 1 = k + 1
    BY <2>1
  <2>3. text[j] = EncodeGroup(bytes, g)[k + 1]
    BY <1>1, <2>2
  <2>4. k + 1 \in 1 .. 4 /\ (k + 1 <= n - 3 * (g - 1) + 1 <=> k <= n - 3 * (g - 1))
    OBVIOUS
  <2> DEFINE t(i) == IF i <= n - 3 * (g - 1) THEN bytes[3 * (g - 1) + i] ELSE 0
  <2>5. EncodeGroup(bytes, g) =
          [i \in 1 .. 4 |-> IF i <= n - 3 * (g - 1) + 1
                            THEN Encode3(t(1), t(2), t(3))[i] ELSE PaddingChar]
    BY DEF EncodeGroup
  <2>6. /\ t(1) = Triple(bytes, g, 1) /\ t(2) = Triple(bytes, g, 2)
        /\ t(3) = Triple(bytes, g, 3)
    BY DEF Triple
  <2>7. PICK t1 \in Octet, t2 \in Octet, t3 \in Octet :
          t1 = Triple(bytes, g, 1) /\ t2 = Triple(bytes, g, 2) /\ t3 = Triple(bytes, g, 3)
    <3>1. /\ Triple(bytes, g, 1) \in Octet /\ Triple(bytes, g, 2) \in Octet
          /\ Triple(bytes, g, 3) \in Octet
      BY GroupsOfBytes
    <3> QED BY <3>1
  <2> HIDE DEF t
  <2>8. Encode3(t1, t2, t3)[k + 1] = Letter(Six(t1, t2, t3, k))
    BY Sextets
  <2>9. EncodeGroup(bytes, g)[k + 1] =
          IF k <= n - 3 * (g - 1) THEN Encode3(t1, t2, t3)[k + 1] ELSE PaddingChar
    BY <2>4, <2>5, <2>6, <2>7
  <2>10. LetterAt(text, g, k) = text[j]
    BY <2>1 DEF LetterAt
  <2>11. LetterFor(bytes, g, k) =
           IF k <= n - 3 * (g - 1) THEN Letter(Six(t1, t2, t3, k)) ELSE PaddingChar
    BY <2>7 DEF LetterFor
  <2> QED BY <2>3, <2>8, <2>9, <2>10, <2>11
<1> QED BY <1>2, <1>3

\* The padding is what the last three bytes lack.
LEMMA PaddingOfText ==
  ASSUME NEW bytes \in Seq(Octet), NEW n \in Nat, n = Len(bytes), n # 0,
         NEW m \in Nat, m = Groups(bytes), NEW text, text = ToBase64(bytes)
  PROVE  NumPadding(text) = 3 * m - n
<1>1. m # 0 /\ 3 * m - 2 <= n /\ n <= 3 * m
  BY GroupsOfBytes
<1>2. Len(text) = 4 * m
  BY LettersOfText
<1>3. PICK left \in 1 .. 3 : left = n - 3 * (m - 1)
  BY <1>1
<1>4. \A k \in 0 .. 3 : LetterAt(text, m, k) = PaddingChar <=> k > left
  <2> TAKE k \in 0 .. 3
  <2>1. m \in 1 .. m
    BY <1>1
  <2>2. LetterAt(text, m, k) = LetterFor(bytes, m, k)
    BY <2>1, LettersOfText
  <2>3. Six(Triple(bytes, m, 1), Triple(bytes, m, 2), Triple(bytes, m, 3), k) \in 0 .. 63
    <3>1. /\ Triple(bytes, m, 1) \in Octet /\ Triple(bytes, m, 2) \in Octet
          /\ Triple(bytes, m, 3) \in Octet
      BY <2>1, GroupsOfBytes
    <3> QED BY <3>1, Sextets
  <2>4. Letter(Six(Triple(bytes, m, 1), Triple(bytes, m, 2), Triple(bytes, m, 3), k))
          # PaddingChar
    BY <2>3, Letters
  <2> QED BY <2>2, <2>4, <1>3 DEF LetterFor
<1>5. \A j \in 4 * m - 3 .. 4 * m : text[j] = PaddingChar <=> j > 4 * m - 3 + left
  <2> TAKE j \in 4 * m - 3 .. 4 * m
  <2>1. PICK k \in 0 .. 3 : k = j - (4 * m - 3)
    OBVIOUS
  <2>2. j = 4 * (m - 1) + k + 1
    BY <2>1
  <2>3. text[j] = LetterAt(text, m, k)
    BY <2>2 DEF LetterAt
  <2>4. k > left <=> j > 4 * m - 3 + left
    BY <2>1
  <2> QED BY <2>3, <2>4, <1>4
<1>6. {j \in 4 * m - 3 .. 4 * m : text[j] = PaddingChar} = 4 * m - 2 + left .. 4 * m
  BY <1>5
<1>7. Cardinality(4 * m - 2 + left .. 4 * m) = 3 - left
  <2>1. 4 * m - 2 + left \in Int /\ 4 * m \in Int
    OBVIOUS
  <2>2. Cardinality(4 * m - 2 + left .. 4 * m) =
          IF 4 * m - 2 + left > 4 * m THEN 0 ELSE 4 * m - (4 * m - 2 + left) + 1
    BY <2>1, FS_Interval
  <2> QED BY <2>2
<1>8. NumPadding(text) = Cardinality({j \in 4 * m - 3 .. 4 * m : text[j] = PaddingChar})
  BY <1>2 DEF NumPadding
<1>9. NumPadding(text) = 3 - left
  BY <1>6, <1>7, <1>8, Zenon
<1>10. 3 - left = 3 * m - n
  BY <1>3
<1> QED BY <1>9, <1>10, Zenon

\* The letters of each three bytes are read as the word of those bytes.
LEMMA WordOfText ==
  ASSUME NEW bytes \in Seq(Octet), NEW n \in Nat, n = Len(bytes), n # 0,
         NEW m \in Nat, m = Groups(bytes), NEW text, text = ToBase64(bytes),
         NEW order \in Orders, NEW g \in 1 .. m
  PROVE  Word(order, text, g) =
           WordOf(order, Triple(bytes, g, 1), Triple(bytes, g, 2), Triple(bytes, g, 3))
<1>1. 3 * m - 2 <= n /\ n <= 3 * m
  BY GroupsOfBytes
<1>2. PICK t1 \in Octet, t2 \in Octet, t3 \in Octet :
        t1 = Triple(bytes, g, 1) /\ t2 = Triple(bytes, g, 2) /\ t3 = Triple(bytes, g, 3)
  <2>1. /\ Triple(bytes, g, 1) \in Octet /\ Triple(bytes, g, 2) \in Octet
        /\ Triple(bytes, g, 3) \in Octet
    BY GroupsOfBytes
  <2> QED BY <2>1
<1>3. PICK left \in Nat : left = n - 3 * (g - 1) /\ left >= 1
  <2>1. n - 3 * (g - 1) \in Nat /\ n - 3 * (g - 1) >= 1
    BY <1>1
  <2> QED BY <2>1
<1> DEFINE d(k) == DecodeTable(order, k, text[4 * (g - 1) + k + 1])
           full(k) == DecodeTable(order, k, Letter(Six(t1, t2, t3, k)))
           letters == 0 .. 3 - (IF 4 * g = Len(text) THEN NumPadding(text) ELSE 0)
           bits(k) == IF k \in letters THEN d(k) ELSE 0
<1>4. \A k \in 0 .. 3 : k <= left => d(k) = full(k)
  <2> TAKE k \in 0 .. 3
  <2>1. LetterAt(text, g, k) = LetterFor(bytes, g, k)
    BY LettersOfText
  <2>2. k <= left => LetterFor(bytes, g, k) = Letter(Six(t1, t2, t3, k))
    BY <1>2, <1>3 DEF LetterFor
  <2>3. LetterAt(text, g, k) = text[4 * (g - 1) + k + 1]
    BY DEF LetterAt
  <2> QED BY <2>1, <2>2, <2>3, Zenon
<1>5. \A k \in 0 .. 3 : k \in letters <=> k <= left
  <2>1. Len(text) = 4 * m /\ NumPadding(text) = 3 * m - n
    BY LettersOfText, PaddingOfText
  <2>2. CASE g = m
    <3>1. letters = 0 .. 3 - (3 * m - n)
      BY <2>1, <2>2
    <3>2. 3 - (3 * m - n) = left
      BY <2>2, <1>3
    <3> HIDE DEF letters
    <3>3. letters = 0 .. left
      BY <3>1, <3>2
    <3> QED BY <3>3
  <2>3. CASE g # m
    <3>1. letters = 0 .. 3
      BY <2>1, <2>3
    <3>2. left >= 3
      BY <2>3, <1>1, <1>3
    <3> HIDE DEF letters
    <3> QED BY <3>1, <3>2
  <2> QED BY <2>2, <2>3
<1>6. /\ full(0) + full(1) + full(2) + full(3) = WordOf(order, t1, t2, t3)
      /\ t3 = 0 => full(3) = 0
      /\ t2 = 0 /\ t3 = 0 => full(2) = 0
  BY GroupIsRead
<1>7. (left < 3 => t3 = 0) /\ (left < 2 => t2 = 0)
  BY <1>2, <1>3 DEF Triple
<1> HIDE DEF d, full, letters
<1>8. bits(0) = full(0) /\ bits(1) = full(1)
  BY <1>3, <1>4, <1>5
<1>9. bits(2) = full(2)
  BY <1>3, <1>4, <1>5, <1>6, <1>7
<1>10. bits(3) = full(3)
  BY <1>3, <1>4, <1>5, <1>6, <1>7
<1>11. Word(order, text, g) = bits(0) + bits(1) + bits(2) + bits(3)
  BY DEF Word, letters, d
<1> HIDE DEF bits
<1> QED BY <1>2, <1>6, <1>8, <1>9, <1>10, <1>11

\* base64.hpp: any bytes, encoded and decoded, are what they were, on a machine of
\* either byte order, and the decoder does not throw.
THEOREM Base64ReturnsBytes ==
  \A bytes \in Seq(Octet), order \in Orders :
    ~Throws(order, ToBase64(bytes)) /\ FromBase64(order, ToBase64(bytes)) = bytes
<1> SUFFICES ASSUME NEW bytes \in Seq(Octet), NEW order \in Orders
             PROVE  /\ ~Throws(order, ToBase64(bytes))
                    /\ FromBase64(order, ToBase64(bytes)) = bytes
  OBVIOUS
<1>1. PICK n \in Nat, m \in Nat : n = Len(bytes) /\ m = Groups(bytes)
  BY GroupsOfBytes
<1>2. PICK text : text = ToBase64(bytes)
  OBVIOUS
<1>3. (3 * m - 2 <= n \/ m = 0) /\ n <= 3 * m /\ Len(text) = 4 * m
  BY <1>1, <1>2, GroupsOfBytes, LettersOfText
<1>4. CASE n = 0
  <2>1. bytes = <<>>
    BY <1>1, <1>4, EmptySeq
  <2>2. m = 0
    BY <1>1, <1>4 DEF Groups
  <2>3. text = <<>>
    <3>1. text = [k \in 1 .. 4 * m |->
                    EncodeGroup(bytes, ((k - 1) \div 4) + 1)[((k - 1) % 4) + 1]]
      BY <1>1, <1>2 DEF ToBase64, Groups
    <3> QED BY <3>1, <2>2
  <2> QED BY <1>2, <2>1, <2>3 DEF Throws, FromBase64
<1>5. CASE n # 0
  <2>1. m # 0 /\ text # <<>>
    BY <1>3, <1>5
  <2>2. NumPadding(text) = 3 * m - n
    BY <1>1, <1>2, <1>5, PaddingOfText
  <2>3. \A g \in 1 .. m :
          /\ Word(order, text, g) =
               WordOf(order, Triple(bytes, g, 1), Triple(bytes, g, 2), Triple(bytes, g, 3))
          /\ Triple(bytes, g, 1) \in Octet
          /\ Triple(bytes, g, 2) \in Octet
          /\ Triple(bytes, g, 3) \in Octet
    BY <1>1, <1>2, <1>5, WordOfText, GroupsOfBytes
  <2>4. ~Throws(order, text)
    <3>1. Len(text) % 4 = 0 /\ Len(text) \div 4 = m
      BY <1>3
    <3>2. ~(NumPadding(text) > 2)
      BY <2>1, <2>2, <1>3
    <3>3. \A g \in 1 .. m : ~(Word(order, text, g) >= BadChar)
      <4> TAKE g \in 1 .. m
      <4>1. PICK t1 \in Octet, t2 \in Octet, t3 \in Octet :
              Word(order, text, g) = WordOf(order, t1, t2, t3)
        BY <2>3
      <4>2. /\ WordOf(order, t1, t2, t3) \in Nat
            /\ WordOf(order, t1, t2, t3) < BadChar
        BY BytesOfWord
      <4>3. ~(WordOf(order, t1, t2, t3) >= BadChar)
        BY <4>2 DEF BadChar
      <4> QED BY <4>1, <4>3
    <3>4. ~(Len(text) % 4 # 0)
      BY <3>1
    <3> QED BY <3>1, <3>2, <3>3, <3>4 DEF Throws
  <2>5. DecodedSize(text) = n
    <3>1. (Len(text) * 3) \div 4 = 3 * m
      BY <1>3
    <3> QED BY <3>1, <2>2 DEF DecodedSize
  <2> DEFINE word(i) == Word(order, text, ((i - 1) \div 3) + 1)
  <2>6. FromBase64(order, text) =
          [i \in 1 .. n |-> ByteAt(order, word(i), DecIdx(order, (i - 1) % 3))]
    BY <2>1, <2>5 DEF FromBase64
  <2>7. \A i \in 1 .. n : ByteAt(order, word(i), DecIdx(order, (i - 1) % 3)) = bytes[i]
    <3> TAKE i \in 1 .. n
    <3>1. PICK g \in 1 .. m, k \in 0 .. 2 :
            g = ((i - 1) \div 3) + 1 /\ k = (i - 1) % 3 /\ i = 3 * (g - 1) + k + 1
      <4>1. i - 1 \in Nat /\ ((i - 1) \div 3) \in Nat /\ (i - 1) % 3 \in 0 .. 2
            /\ i - 1 = 3 * ((i - 1) \div 3) + ((i - 1) % 3)
        OBVIOUS
      <4>2. ((i - 1) \div 3) + 1 \in 1 .. m
        BY <4>1, <1>3
      <4> QED BY <4>1, <4>2
    <3>2. word(i) = WordOf(order, Triple(bytes, g, 1), Triple(bytes, g, 2), Triple(bytes, g, 3))
      BY <3>1, <2>3
    <3>3. ByteAt(order, word(i), DecIdx(order, k)) = Triple(bytes, g, k + 1)
      <4>1. PICK t1 \in Octet, t2 \in Octet, t3 \in Octet :
              t1 = Triple(bytes, g, 1) /\ t2 = Triple(bytes, g, 2) /\ t3 = Triple(bytes, g, 3)
        BY <2>3
      <4>2. /\ ByteAt(order, WordOf(order, t1, t2, t3), DecIdx(order, 0)) = t1
            /\ ByteAt(order, WordOf(order, t1, t2, t3), DecIdx(order, 1)) = t2
            /\ ByteAt(order, WordOf(order, t1, t2, t3), DecIdx(order, 2)) = t3
        BY BytesOfWord
      <4>3. /\ k = 0 => k + 1 = 1
            /\ k = 1 => k + 1 = 2
            /\ k = 2 => k + 1 = 3
            /\ k \in {0, 1, 2}
        OBVIOUS
      <4> HIDE DEF word
      <4> QED BY <3>2, <4>1, <4>2, <4>3
    <3>4. Triple(bytes, g, k + 1) = bytes[i]
      <4>1. k + 1 <= n - 3 * (g - 1) /\ 3 * (g - 1) + (k + 1) = i
        BY <3>1
      <4> QED BY <4>1, <1>1 DEF Triple
    <3> QED BY <3>1, <3>3, <3>4
  <2> HIDE DEF word
  <2>8. bytes = [i \in 1 .. n |-> bytes[i]]
    BY <1>1
  <2>9. FromBase64(order, text) = bytes
    BY <2>6, <2>7, <2>8
  <2> QED BY <2>4, <2>9, <1>2
<1> QED BY <1>4, <1>5

\* irc_messages.hpp:159-186: a message that was written to a cache file is read back
\* with the time, the channel, the kind, the content and the source it had.
THEOREM MessagesComeBack ==
  \A order \in Orders, content \in Seq(Octet) : \A time, channel, action, source :
    ComesBack(order, [time |-> time, channel |-> channel, action |-> action,
                      content |-> content, source |-> source])
<1> SUFFICES ASSUME NEW order \in Orders, NEW content \in Seq(Octet),
                    NEW time, NEW channel, NEW action, NEW source
             PROVE  ComesBack(order, [time |-> time, channel |-> channel, action |-> action,
                                      content |-> content, source |-> source])
  OBVIOUS
<1> DEFINE msg == [time |-> time, channel |-> channel, action |-> action,
                   content |-> content, source |-> source]
           back == FromJson(order, ToJson(msg))
<1>1. /\ ~Throws(order, ToBase64(content))
      /\ FromBase64(order, ToBase64(content)) = content
  BY Base64ReturnsBytes
<1>2. ToJson(msg).content = ToBase64(content)
  BY DEF ToJson
<1>3. /\ back.time = time /\ back.channel = channel /\ back.action = action
      /\ back.content = content /\ back.source = source
  BY <1>1 DEF ToJson, FromJson
<1>4. DOMAIN msg = {"time", "channel", "action", "content", "source"}
  OBVIOUS
<1>5. \A field \in DOMAIN msg : back[field] = msg[field]
  BY <1>3, <1>4
<1> HIDE DEF msg
<1>6. ~Throws(order, ToJson(msg).content)
  BY <1>1, <1>2
<1>7. ComesBack(order, msg)
  BY <1>5, <1>6 DEF ComesBack
<1> QED BY <1>7 DEF msg

\* What a character is: no half of a surrogate pair.
Characters == {cp \in Nat : cp <= 1114111 /\ (cp < 55296 \/ cp > 57343)}

\* What two, three and four bytes stand for: the bits of the first, which are few,
\* and six bits of each other.
SixBits == 0 .. 63
FiveBits == 2 .. 31
FourBits == 0 .. 15
ThreeBits == 0 .. 4
Two(a, b) == 64 * a + b
Three(a, b, c) == 4096 * a + 64 * b + c
Four(a, b, c, d) == 262144 * a + 4096 * b + 64 * c + d

OfOne(cp) == cp \in 0 .. 127
OfTwo(cp) == \E a \in FiveBits, b \in SixBits : cp = Two(a, b)
OfThree(cp) ==
  cp > 2047 /\ \E a \in FourBits, b \in SixBits, c \in SixBits : cp = Three(a, b, c)
OfFour(cp) ==
  /\ cp > 65535
  /\ \E a \in ThreeBits, b \in SixBits, c \in SixBits, d \in SixBits :
       cp = Four(a, b, c, d)

\* Every character is of one of the four kinds.
LEMMA CharacterParts ==
  ASSUME NEW cp \in Nat, cp <= 1114111
  PROVE  OfOne(cp) \/ OfTwo(cp) \/ OfThree(cp) \/ OfFour(cp)
<1>1. PICK x \in Nat, d \in Nat : cp = 64 * x + d /\ d <= 63
  <2>1. /\ cp \div 64 \in Nat /\ cp % 64 \in Nat /\ cp % 64 <= 63
        /\ cp = 64 * (cp \div 64) + (cp % 64)
    BY SMT
  <2> QED BY <2>1, SMT
<1>2. PICK y \in Nat, c \in Nat : x = 64 * y + c /\ c <= 63
  <2>1. /\ x \div 64 \in Nat /\ x % 64 \in Nat /\ x % 64 <= 63
        /\ x = 64 * (x \div 64) + (x % 64)
    BY SMT
  <2> QED BY <2>1, SMT
<1>3. PICK z \in Nat, b \in Nat : y = 64 * z + b /\ b <= 63
  <2>1. /\ y \div 64 \in Nat /\ y % 64 \in Nat /\ y % 64 <= 63
        /\ y = 64 * (y \div 64) + (y % 64)
    BY SMT
  <2> QED BY <2>1, SMT
<1>4. b \in SixBits /\ c \in SixBits /\ d \in SixBits
  BY <1>1, <1>2, <1>3, SMT DEF SixBits
<1>5. CASE cp <= 127
  BY <1>5, SMT DEF OfOne
<1>6. CASE cp > 127 /\ cp <= 2047
  <2>1. x \in FiveBits /\ cp = Two(x, d)
    BY <1>1, <1>6, SMT DEF Two, FiveBits
  <2>2. OfTwo(cp)
    BY <2>1, <1>4, SMT DEF OfTwo
  <2> QED BY <2>2, SMT
<1>7. CASE cp > 2047 /\ cp <= 65535
  <2>1. cp = 4096 * y + 64 * c + d
    BY <1>1, <1>2, SMT
  <2>2. y \in FourBits /\ cp = Three(y, c, d)
    BY <2>1, <1>1, <1>2, <1>7, SMT DEF Three, FourBits
  <2>3. OfThree(cp)
    BY <2>2, <1>4, <1>7, SMT DEF OfThree
  <2> QED BY <2>3, SMT
<1>8. CASE cp > 65535
  <2>1. cp = 262144 * z + 4096 * b + 64 * c + d
    BY <1>1, <1>2, <1>3, SMT
  <2>2. z \in ThreeBits /\ cp = Four(z, b, c, d)
    BY <2>1, <1>1, <1>2, <1>3, SMT DEF Four, ThreeBits
  <2>3. OfFour(cp)
    BY <2>2, <1>4, <1>8, SMT DEF OfFour
  <2> QED BY <2>3, SMT
<1> QED BY <1>5, <1>6, <1>7, <1>8, SMT

\* The bytes are read as cp, whatever stands behind them, and a part of them as nothing.
ReadAs(bytes, cp) ==
  /\ bytes \in Seq(Octet) /\ Len(bytes) # 0
  /\ \A u : Len(u) \in Nat /\ Len(u) >= Len(bytes)
              /\ (\A i \in 1 .. Len(bytes) : u[i] = bytes[i]) =>
       Width(u) = Len(bytes) /\ Point(u) = cp
  /\ \A u : Len(u) \in Nat /\ Len(u) >= 1 /\ Len(u) < Len(bytes)
              /\ (\A i \in 1 .. Len(u) : u[i] = bytes[i]) =>
       Width(u) = 0

\* A character of one byte.
LEMMA OneByte ==
  ASSUME NEW cp \in 0 .. 127
  PROVE  ReadAs(Utf8(cp), cp)
<1>1. cp <= 127 /\ cp % 256 = cp
  OBVIOUS
<1>2. Utf8(cp) = <<cp>>
  BY <1>1 DEF Utf8
<1>3. PICK bytes : bytes = Utf8(cp)
  OBVIOUS
<1>4. bytes \in Seq(Octet) /\ Len(bytes) = 1 /\ bytes[1] = cp
  BY <1>2, <1>3 DEF Octet
<1>5. ASSUME NEW u, u[1] = cp
      PROVE  Width(u) = 1 /\ Point(u) = cp
  <2>1. /\ u[1] <= 127 /\ ~(u[1] \in 192 .. 223)
        /\ ~(u[1] \in 224 .. 239) /\ ~(u[1] \in 240 .. 247)
    BY <1>5
  <2>2. Width(u) = 1
    BY <2>1 DEF Width
  <2> QED BY <1>5, <2>2 DEF Point
<1>6. ReadAs(bytes, cp)
  BY <1>4, <1>5 DEF ReadAs
<1> QED BY <1>3, <1>6

\* A character of two bytes.
LEMMA TwoBytes ==
  ASSUME NEW a \in FiveBits, NEW b \in SixBits
  PROVE  ReadAs(Utf8(Two(a, b)), Two(a, b))
<1>1. /\ a \in Nat /\ a <= 31
      /\ b \in Nat /\ b <= 63
  BY SMT DEF FiveBits, SixBits
<1>2. PICK cp \in Nat : cp = Two(a, b) /\ cp = 64 * a + b
  <2>1. Two(a, b) \in Nat /\ Two(a, b) = 64 * a + b
    BY <1>1, SMT DEF Two
  <2> QED BY <2>1, SMT
<1>3. cp > 127 /\ cp <= 2047
  BY <1>1, <1>2, SMT DEF FiveBits
<1>4. cp \div 64 = a
  BY <1>1, <1>2, SMT
<1>5. ((cp \div Sixes[0 + 1]) % 64) + 128 = 128 + b
  <2>1. Sixes[0 + 1] = 1
    BY SMT DEF Sixes
  <2>2. cp \div 1 = 64 * (a) + b
    BY <1>1, <1>2, SMT
  <2>3. (cp \div 1) % 64 = b
    BY <1>1, <2>2, SMT
  <2> QED BY <1>1, <2>1, <2>3, SMT
<1>6. Utf8(cp) = <<192 + (cp \div 64),
                   ((cp \div Sixes[0 + 1]) % 64) + 128>>
  <2>1. ~(cp <= 127)
    BY <1>3, SMT
  <2> QED BY <1>3, <2>1, SMT DEF Utf8
<1>7. Utf8(cp) = <<192 + a, 128 + b>>
  BY <1>4, <1>5, <1>6, SMT
<1>8. PICK bytes : bytes = Utf8(cp)
  BY SMT
<1>9. /\ bytes \in Seq(Octet) /\ Len(bytes) = 2
      /\ bytes[1] = 192 + a
      /\ bytes[2] = 128 + b
  BY <1>1, <1>7, <1>8, SMT DEF Octet
<1>10. ASSUME NEW u, Len(u) \in Nat, Len(u) >= 2,
               u[1] = 192 + a, u[2] = 128 + b
       PROVE  Width(u) = 2 /\ Point(u) = cp
  <2>1. Width(u) = 2
    <3>1. /\ ~(u[1] <= 127) /\ (u[1] \in 192 .. 223)
          /\ ~(u[1] \in 224 .. 239) /\ ~(u[1] \in 240 .. 247)
      BY <1>1, <1>10, SMT
    <3> QED BY <1>10, <3>1 DEF Width
  <2>2. Point(u) =
          (u[1] - 192) * 64 + (u[2] - 128)
    <3>1. Width(u) # 1
      BY <2>1, SMT
    <3> QED BY <2>1, <3>1 DEF Point
  <2>3. u[1] - 192 = a /\ u[2] - 128 = b
    BY <1>1, <1>10, SMT
  <2>4. Point(u) = cp
    BY <1>1, <1>2, <2>2, <2>3, SMT
  <2> QED BY <2>1, <2>4, SMT
<1>11. ASSUME NEW u, Len(u) \in Nat, Len(u) < 2, u[1] = 192 + a
       PROVE  Width(u) = 0
  <2>1. /\ ~(u[1] <= 127) /\ (u[1] \in 192 .. 223)
        /\ ~(u[1] \in 224 .. 239) /\ ~(u[1] \in 240 .. 247)
    BY <1>1, <1>11, SMT
  <2>2. ~(Len(u) >= 2)
    BY <1>11, SMT
  <2> QED BY <2>1, <2>2 DEF Width
<1>12. ASSUME NEW u, Len(u) \in Nat, Len(u) >= Len(bytes),
               \A i \in 1 .. Len(bytes) : u[i] = bytes[i]
       PROVE  Width(u) = Len(bytes) /\ Point(u) = cp
  <2>1. Len(u) >= 2
    BY <1>9, <1>12, SMT
  <2>2. u[1] = 192 + a /\ u[2] = 128 + b
    BY <1>9, <1>12, SMT
  <2> QED BY <1>9, <1>10, <1>12, <2>1, <2>2, SMT
<1>13. ASSUME NEW u, Len(u) \in Nat, Len(u) >= 1, Len(u) < Len(bytes),
               \A i \in 1 .. Len(u) : u[i] = bytes[i]
       PROVE  Width(u) = 0
  <2>1. Len(u) \in Nat /\ Len(u) < 2 /\ 1 \in 1 .. Len(u)
    BY <1>9, <1>13, SMT
  <2>2. u[1] = 192 + a
    <3>1. u[1] = bytes[1]
      BY <1>13, <2>1
    <3> QED BY <1>9, <3>1, SMT
  <2> QED BY <1>11, <2>1, <2>2, SMT
<1>14. ReadAs(bytes, cp)
  BY <1>9, <1>12, <1>13, SMT DEF ReadAs
<1> QED BY <1>2, <1>8, <1>14, SMT

\* A character of three bytes.
LEMMA ThreeBytes ==
  ASSUME NEW a \in FourBits, NEW b \in SixBits, NEW c \in SixBits,
         Three(a, b, c) > 2047,
         Three(a, b, c) < 55296 \/ Three(a, b, c) > 57343
  PROVE  ReadAs(Utf8(Three(a, b, c)), Three(a, b, c))
<1>1. /\ a \in Nat /\ a <= 15
      /\ b \in Nat /\ b <= 63
      /\ c \in Nat /\ c <= 63
  BY SMT DEF FourBits, SixBits
<1>2. PICK cp \in Nat : cp = Three(a, b, c) /\ cp = 4096 * a + 64 * b + c
  <2>1. Three(a, b, c) \in Nat /\ Three(a, b, c) = 4096 * a + 64 * b + c
    BY <1>1, SMT DEF Three
  <2> QED BY <2>1, SMT
<1>3. cp > 2047 /\ cp <= 65535
  BY <1>1, <1>2, SMT
<1>4. cp \div 4096 = a
  BY <1>1, <1>2, SMT
<1>5. ((cp \div Sixes[1 + 1]) % 64) + 128 = 128 + b
  <2>1. Sixes[1 + 1] = 64
    BY SMT DEF Sixes
  <2>2. cp \div 64 = 64 * (a) + b
    BY <1>1, <1>2, SMT
  <2>3. (cp \div 64) % 64 = b
    BY <1>1, <2>2, SMT
  <2> QED BY <1>1, <2>1, <2>3, SMT
<1>6. ((cp \div Sixes[0 + 1]) % 64) + 128 = 128 + c
  <2>1. Sixes[0 + 1] = 1
    BY SMT DEF Sixes
  <2>2. cp \div 1 = 64 * (64 * a + b) + c
    BY <1>1, <1>2, SMT
  <2>3. (cp \div 1) % 64 = c
    BY <1>1, <2>2, SMT
  <2> QED BY <1>1, <2>1, <2>3, SMT
<1>7. Utf8(cp) = <<224 + (cp \div 4096),
                   ((cp \div Sixes[1 + 1]) % 64) + 128,
                   ((cp \div Sixes[0 + 1]) % 64) + 128>>
  <2>1. ~(cp <= 127) /\ ~(cp <= 2047)
    BY <1>3, SMT
  <2> QED BY <1>3, <2>1, SMT DEF Utf8
<1>8. Utf8(cp) = <<224 + a, 128 + b, 128 + c>>
  BY <1>4, <1>5, <1>6, <1>7, SMT
<1>9. PICK bytes : bytes = Utf8(cp)
  BY SMT
<1>10. /\ bytes \in Seq(Octet) /\ Len(bytes) = 3
       /\ bytes[1] = 224 + a
       /\ bytes[2] = 128 + b
       /\ bytes[3] = 128 + c
  BY <1>1, <1>8, <1>9, SMT DEF Octet
<1>11. ASSUME NEW u, Len(u) \in Nat, Len(u) >= 3,
               u[1] = 224 + a, u[2] = 128 + b, u[3] = 128 + c
       PROVE  Width(u) = 3 /\ Point(u) = cp
  <2>1. ~(u[1] = 237 /\ u[2] \div 32 \in {5, 7})
    <3>1. ~(a = 13 /\ b > 31)
      BY <1>1, <1>2, SMT
    <3>2. (128 + b) \div 32 = IF b < 32 THEN 4 ELSE 5
      BY <1>1, SMT
    <3> QED BY <1>1, <1>11, <3>1, <3>2, SMT
  <2>2. Width(u) = 3
    <3>1. /\ ~(u[1] <= 127) /\ ~(u[1] \in 192 .. 223)
          /\ (u[1] \in 224 .. 239) /\ ~(u[1] \in 240 .. 247)
      BY <1>1, <1>11, SMT
    <3> QED BY <1>11, <3>1, <2>1 DEF Width
  <2>3. Point(u) =
          (u[1] - 224) * 4096 + (u[2] - 128) * 64 + (u[3] - 128)
    <3>1. Width(u) # 1 /\ Width(u) # 2
      BY <2>2, SMT
    <3> QED BY <2>2, <3>1 DEF Point
  <2>4. u[1] - 224 = a /\ u[2] - 128 = b /\ u[3] - 128 = c
    BY <1>1, <1>11, SMT
  <2>5. Point(u) = cp
    BY <1>1, <1>2, <2>3, <2>4, SMT
  <2> QED BY <2>2, <2>5, SMT
<1>12. ASSUME NEW u, Len(u) \in Nat, Len(u) < 3, u[1] = 224 + a
       PROVE  Width(u) = 0
  <2>1. /\ ~(u[1] <= 127) /\ ~(u[1] \in 192 .. 223)
        /\ (u[1] \in 224 .. 239) /\ ~(u[1] \in 240 .. 247)
    BY <1>1, <1>12, SMT
  <2>2. ~(Len(u) >= 3)
    BY <1>12, SMT
  <2> QED BY <2>1, <2>2 DEF Width
<1>13. ASSUME NEW u, Len(u) \in Nat, Len(u) >= Len(bytes),
               \A i \in 1 .. Len(bytes) : u[i] = bytes[i]
       PROVE  Width(u) = Len(bytes) /\ Point(u) = cp
  <2>1. Len(u) >= 3
    BY <1>10, <1>13, SMT
  <2>2. u[1] = 224 + a /\ u[2] = 128 + b /\ u[3] = 128 + c
    BY <1>10, <1>13, SMT
  <2> QED BY <1>10, <1>11, <1>13, <2>1, <2>2, SMT
<1>14. ASSUME NEW u, Len(u) \in Nat, Len(u) >= 1, Len(u) < Len(bytes),
               \A i \in 1 .. Len(u) : u[i] = bytes[i]
       PROVE  Width(u) = 0
  <2>1. Len(u) \in Nat /\ Len(u) < 3 /\ 1 \in 1 .. Len(u)
    BY <1>10, <1>14, SMT
  <2>2. u[1] = 224 + a
    <3>1. u[1] = bytes[1]
      BY <1>14, <2>1
    <3> QED BY <1>10, <3>1, SMT
  <2> QED BY <1>12, <2>1, <2>2, SMT
<1>15. ReadAs(bytes, cp)
  BY <1>10, <1>13, <1>14, SMT DEF ReadAs
<1> QED BY <1>2, <1>9, <1>15, SMT

\* A character of four bytes.
LEMMA FourBytes ==
  ASSUME NEW a \in ThreeBits, NEW b \in SixBits, NEW c \in SixBits, NEW d \in SixBits,
         Four(a, b, c, d) > 65535, Four(a, b, c, d) <= 1114111
  PROVE  ReadAs(Utf8(Four(a, b, c, d)), Four(a, b, c, d))
<1>1. /\ a \in Nat /\ a <= 4
      /\ b \in Nat /\ b <= 63
      /\ c \in Nat /\ c <= 63
      /\ d \in Nat /\ d <= 63
  BY SMT DEF ThreeBits, SixBits
<1>2. PICK cp \in Nat : cp = Four(a, b, c, d) /\ cp = 262144 * a + 4096 * b + 64 * c + d
  <2>1. Four(a, b, c, d) \in Nat /\ Four(a, b, c, d) = 262144 * a + 4096 * b + 64 * c + d
    BY <1>1, SMT DEF Four
  <2> QED BY <2>1, SMT
<1>3. cp > 65535 /\ cp <= 1114111
  BY <1>1, <1>2, SMT
<1>4. cp \div 262144 = a
  BY <1>1, <1>2, SMT
<1>5. ((cp \div Sixes[2 + 1]) % 64) + 128 = 128 + b
  <2>1. Sixes[2 + 1] = 4096
    BY SMT DEF Sixes
  <2>2. cp \div 4096 = 64 * (a) + b
    BY <1>1, <1>2, SMT
  <2>3. (cp \div 4096) % 64 = b
    BY <1>1, <2>2, SMT
  <2> QED BY <1>1, <2>1, <2>3, SMT
<1>6. ((cp \div Sixes[1 + 1]) % 64) + 128 = 128 + c
  <2>1. Sixes[1 + 1] = 64
    BY SMT DEF Sixes
  <2>2. cp \div 64 = 64 * (64 * a + b) + c
    BY <1>1, <1>2, SMT
  <2>3. (cp \div 64) % 64 = c
    BY <1>1, <2>2, SMT
  <2> QED BY <1>1, <2>1, <2>3, SMT
<1>7. ((cp \div Sixes[0 + 1]) % 64) + 128 = 128 + d
  <2>1. Sixes[0 + 1] = 1
    BY SMT DEF Sixes
  <2>2. cp \div 1 = 64 * (4096 * a + 64 * b + c) + d
    BY <1>1, <1>2, SMT
  <2>3. (cp \div 1) % 64 = d
    BY <1>1, <2>2, SMT
  <2> QED BY <1>1, <2>1, <2>3, SMT
<1>8. Utf8(cp) = <<240 + (cp \div 262144),
                   ((cp \div Sixes[2 + 1]) % 64) + 128,
                   ((cp \div Sixes[1 + 1]) % 64) + 128,
                   ((cp \div Sixes[0 + 1]) % 64) + 128>>
  <2>1. ~(cp <= 127) /\ ~(cp <= 2047) /\ ~(cp <= 65535)
    BY <1>3, SMT
  <2> QED BY <1>3, <2>1, SMT DEF Utf8
<1>9. Utf8(cp) = <<240 + a, 128 + b, 128 + c, 128 + d>>
  BY <1>4, <1>5, <1>6, <1>7, <1>8, SMT
<1>10. PICK bytes : bytes = Utf8(cp)
  BY SMT
<1>11. /\ bytes \in Seq(Octet) /\ Len(bytes) = 4
       /\ bytes[1] = 240 + a
       /\ bytes[2] = 128 + b
       /\ bytes[3] = 128 + c
       /\ bytes[4] = 128 + d
  BY <1>1, <1>9, <1>10, SMT DEF Octet
<1>12. ASSUME NEW u, Len(u) \in Nat, Len(u) >= 4,
               u[1] = 240 + a, u[2] = 128 + b, u[3] = 128 + c, u[4] = 128 + d
       PROVE  Width(u) = 4 /\ Point(u) = cp
  <2>1. Width(u) = 4
    <3>1. /\ ~(u[1] <= 127) /\ ~(u[1] \in 192 .. 223)
          /\ ~(u[1] \in 224 .. 239) /\ (u[1] \in 240 .. 247)
      BY <1>1, <1>12, SMT
    <3> QED BY <1>12, <3>1 DEF Width
  <2>2. Point(u) =
          (u[1] - 240) * 262144 + (u[2] - 128) * 4096 + (u[3] - 128) * 64 + (u[4] - 128)
    <3>1. Width(u) # 1 /\ Width(u) # 2 /\ Width(u) # 3
      BY <2>1, SMT
    <3> QED BY <2>1, <3>1 DEF Point
  <2>3. u[1] - 240 = a /\ u[2] - 128 = b /\ u[3] - 128 = c /\ u[4] - 128 = d
    BY <1>1, <1>12, SMT
  <2>4. Point(u) = cp
    BY <1>1, <1>2, <2>2, <2>3, SMT
  <2> QED BY <2>1, <2>4, SMT
<1>13. ASSUME NEW u, Len(u) \in Nat, Len(u) < 4, u[1] = 240 + a
       PROVE  Width(u) = 0
  <2>1. /\ ~(u[1] <= 127) /\ ~(u[1] \in 192 .. 223)
        /\ ~(u[1] \in 224 .. 239) /\ (u[1] \in 240 .. 247)
    BY <1>1, <1>13, SMT
  <2>2. ~(Len(u) >= 4)
    BY <1>13, SMT
  <2> QED BY <2>1, <2>2 DEF Width
<1>14. ASSUME NEW u, Len(u) \in Nat, Len(u) >= Len(bytes),
               \A i \in 1 .. Len(bytes) : u[i] = bytes[i]
       PROVE  Width(u) = Len(bytes) /\ Point(u) = cp
  <2>1. Len(u) >= 4
    BY <1>11, <1>14, SMT
  <2>2. u[1] = 240 + a /\ u[2] = 128 + b /\ u[3] = 128 + c /\ u[4] = 128 + d
    BY <1>11, <1>14, SMT
  <2> QED BY <1>11, <1>12, <1>14, <2>1, <2>2, SMT
<1>15. ASSUME NEW u, Len(u) \in Nat, Len(u) >= 1, Len(u) < Len(bytes),
               \A i \in 1 .. Len(u) : u[i] = bytes[i]
       PROVE  Width(u) = 0
  <2>1. Len(u) \in Nat /\ Len(u) < 4 /\ 1 \in 1 .. Len(u)
    BY <1>11, <1>15, SMT
  <2>2. u[1] = 240 + a
    <3>1. u[1] = bytes[1]
      BY <1>15, <2>1
    <3> QED BY <1>11, <3>1, SMT
  <2> QED BY <1>13, <2>1, <2>2, SMT
<1>16. ReadAs(bytes, cp)
  BY <1>11, <1>14, <1>15, SMT DEF ReadAs
<1> QED BY <1>2, <1>10, <1>16, SMT

\* The bytes of any character.
LEMMA CharacterInFront ==
  ASSUME NEW cp \in Characters
  PROVE  ReadAs(Utf8(cp), cp)
<1>1. cp \in Nat /\ cp <= 1114111 /\ (cp < 55296 \/ cp > 57343)
  BY SMT DEF Characters
<1>2. CASE OfOne(cp)
  BY <1>2, OneByte, SMT DEF OfOne
<1>3. CASE OfTwo(cp)
  BY <1>3, TwoBytes, SMT DEF OfTwo
<1>4. CASE OfThree(cp)
  BY <1>1, <1>4, ThreeBytes, SMT DEF OfThree
<1>5. CASE OfFour(cp)
  BY <1>1, <1>5, FourBytes, SMT DEF OfFour
<1> QED BY <1>1, <1>2, <1>3, <1>4, <1>5, CharacterParts, SMT

\* What stands in front of a text, and what is left behind it.
LEMMA FrontOf ==
  ASSUME NEW s \in Seq(Octet), NEW r \in Seq(Octet), NEW u, u = s \o r
  PROVE  /\ Len(s) \in Nat /\ Len(r) \in Nat /\ Len(u) = Len(s) + Len(r)
         /\ \A i \in 1 .. Len(s) : u[i] = s[i]
         /\ SubSeq(u, Len(s) + 1, Len(u)) = r
<1>1. /\ u \in Seq(Octet) /\ Len(u) = Len(s) + Len(r)
      /\ Len(s) \in Nat /\ Len(r) \in Nat
  BY ConcatProperties, LenProperties
<1>2. \A i \in 1 .. Len(s) + Len(r) : u[i] = IF i <= Len(s) THEN s[i] ELSE r[i - Len(s)]
  BY ConcatProperties
<1>3. \A i \in 1 .. Len(s) : u[i] = s[i]
  BY <1>1, <1>2
<1>4. SubSeq(u, Len(s) + 1, Len(u)) = r
  <2>1. PICK n \in Nat, m \in Nat : n = Len(s) /\ m = Len(r)
    BY <1>1
  <2>2. SubSeq(u, n + 1, n + m) = [i \in 1 .. m |-> u[n + i]]
    <3>1. SubSeq(u, n + 1, n + m) = [i \in 1 .. (n + m) - (n + 1) + 1 |-> u[(n + 1) + i - 1]]
      BY <1>1, <2>1
    <3>2. (n + m) - (n + 1) + 1 = m
      OBVIOUS
    <3>3. \A i \in 1 .. m : (n + 1) + i - 1 = n + i
      OBVIOUS
    <3> QED BY <3>1, <3>2, <3>3
  <2>3. \A i \in 1 .. m : u[n + i] = r[i]
    <3> TAKE i \in 1 .. m
    <3>1. n + i \in 1 .. n + m /\ ~(n + i <= n) /\ (n + i) - n = i
      OBVIOUS
    <3> QED BY <1>2, <2>1, <3>1
  <2>4. r = [i \in 1 .. m |-> r[i]]
    BY <2>1
  <2> QED BY <1>1, <2>1, <2>2, <2>3, <2>4
<1> QED BY <1>1, <1>3, <1>4

\* unicode_utils.h: whatever follows them, a character's bytes are read as that
\* character and what follows is read next; without the last of them, nothing is read.
THEOREM CharactersComeBack ==
  \A cp \in Characters, rest \in Seq(Octet) :
    /\ \A points : ReadCharacter([points |-> points, u |-> Utf8(cp) \o rest]) =
                     [points |-> Append(points, cp), u |-> rest]
    /\ \A k \in 1 .. Len(Utf8(cp)) - 1 : \A points :
         LET cut == [points |-> points, u |-> SubSeq(Utf8(cp), 1, k)]
         IN ReadCharacter(cut) = cut
<1> SUFFICES ASSUME NEW cp \in Characters, NEW rest \in Seq(Octet)
             PROVE  /\ \A points : ReadCharacter([points |-> points, u |-> Utf8(cp) \o rest]) =
                                     [points |-> Append(points, cp), u |-> rest]
                    /\ \A k \in 1 .. Len(Utf8(cp)) - 1 : \A points :
                         LET cut == [points |-> points, u |-> SubSeq(Utf8(cp), 1, k)]
                         IN ReadCharacter(cut) = cut
  OBVIOUS
<1>1. PICK bytes : bytes = Utf8(cp)
  OBVIOUS
<1>2. ReadAs(bytes, cp) /\ bytes \in Seq(Octet) /\ bytes # <<>> /\ Len(bytes) \in Nat
  BY <1>1, CharacterInFront, LenProperties, EmptySeq DEF ReadAs
<1>3. ASSUME NEW points
      PROVE  ReadCharacter([points |-> points, u |-> bytes \o rest]) =
               [points |-> Append(points, cp), u |-> rest]
  <2>1. PICK u : u = bytes \o rest
    OBVIOUS
  <2>2. /\ Len(rest) \in Nat /\ Len(u) = Len(bytes) + Len(rest)
        /\ \A i \in 1 .. Len(bytes) : u[i] = bytes[i]
        /\ SubSeq(u, Len(bytes) + 1, Len(u)) = rest
    BY <1>2, <2>1, FrontOf
  <2>3. Width(u) = Len(bytes) /\ Point(u) = cp
    <3>1. Len(u) \in Nat /\ Len(u) >= Len(bytes)
      BY <1>2, <2>2
    <3> QED BY <1>2, <2>2, <3>1 DEF ReadAs
  <2>4. Len(bytes) # 0 /\ u # <<>>
    BY <1>2, <2>2, EmptySeq
  <2> QED BY <2>1, <2>2, <2>3, <2>4 DEF ReadCharacter
<1>4. ASSUME NEW k \in 1 .. Len(bytes) - 1, NEW points
      PROVE  LET cut == [points |-> points, u |-> SubSeq(bytes, 1, k)]
             IN ReadCharacter(cut) = cut
  <2>1. PICK u : u = SubSeq(bytes, 1, k)
    OBVIOUS
  <2>2. Len(u) = k /\ \A i \in 1 .. k : u[i] = bytes[i]
    BY <1>2, <2>1
  <2>3. Width(u) = 0
    BY <1>2, <2>2 DEF ReadAs
  <2> QED BY <2>1, <2>3 DEF ReadCharacter
<1> QED BY <1>1, <1>3, <1>4
=============================================================================
