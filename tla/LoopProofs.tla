----------------------------- MODULE LoopProofs -----------------------------
(***************************************************************************)
(* Theorems about the event loop, for any number of loops, threads and     *)
(* functions, with proofs checked by TLAPS.                                *)
(*                                                                         *)
(* Types alone are not inductive: CallInv adds the shape of the call       *)
(* stacks.  What outlives its users comes last (LifeInv), and              *)
(* LoopExecProofs builds on all of it.                                     *)
(*                                                                         *)
(* That the run semaphore counts the queued functions (PostPerFunction)    *)
(* needs two more invariants.  MutexInv: a thread between the insertion    *)
(* and the post of a function holds m_operateMutex, so there is one such   *)
(* thread per loop; since deleteLater keeps the mutex over calls that lock *)
(* other mutexes, it speaks of suspended frames too.  CountInv: the count, *)
(* with the fact that processData never finds both queues empty.           *)
(***************************************************************************)
EXTENDS LoopProperties, SequenceTheorems, TLAPS

(* How users must call the loops: a thread that runs no loop only posts to *)
(* the default loop, and nobody calls waitEvent.                           *)
Disciplined ==
  \A t \in Threads, l \in Loops :
    /\ <<t, "waitEvent", l>> \notin Calls
    /\ t \notin Loops => \A op \in {"workSync", "process", "waitProcess"} :
                           <<t, op, Default>> \notin Calls

(* The labels of code that takes posts and functions from its loop.        *)
OwnLabels == PumpLabels \cup {"check", "wait", "reap", "process", "begin",
                              "body", "waitProcess", "waitEvent"}

(* Where a thread without suspended frames is; where a frame is suspended. *)
BaseLabels == {"user", "check", "wait", "reap", "gone"}
SuspendedLabels == {"user", "check", "exec", "next", "begin", "body",
                    "delConnects", "remove"}

Active(t) ==
  {f \in Frame : /\ f.at \in OwnLabels => f.loop = CurrentLoop(t)
                 /\ Disciplined => /\ f.at # "waitEvent"
                                   /\ f.at \in OwnLabels => f.loop = t}
Suspended(t) == {f \in Active(t) : f.at \in SuspendedLabels}

StackInv(t) ==
  /\ frame[t] \in Active(t)
  /\ stack[t] \in Seq(Suspended(t))
  /\ stack[t] = <<>> => frame[t].at \in BaseLabels
  /\ stack[t] # <<>> => stack[t][1].at \in {"user", "check"}

CallInv ==
  /\ frame \in [Threads -> Frame]
  /\ stack \in [Threads -> Seq(Frame)]
  /\ \A t \in Threads : StackInv(t)
-----------------------------------------------------------------------------
(* The three ways a step changes a thread's frames keep CallInv.           *)

(* A thread moves on to f.                                                 *)
LEMMA GotoKeeps ==
  ASSUME CallInv, NEW t \in Threads, NEW f \in Active(t),
         stack[t] # <<>> \/ f.at \in BaseLabels,
         frame' = [frame EXCEPT ![t] = f], stack' = stack
  PROVE  CallInv'
<1>1. f \in Frame
  BY DEF Active
<1>2. frame' \in [Threads -> Frame] /\ stack' \in [Threads -> Seq(Frame)]
  BY <1>1 DEF CallInv
<1>3. ASSUME NEW x \in Threads PROVE StackInv(x)'
  <2>1. StackInv(x) /\ stack'[x] = stack[x]
    BY DEF CallInv
  <2>2. frame'[x] = IF x = t THEN f ELSE frame[x]
    BY DEF CallInv
  <2> QED BY <2>1, <2>2 DEF StackInv, Active, Suspended
<1> QED BY <1>2, <1>3 DEF CallInv

(* A thread calls f and will resume the frames below.                      *)
LEMMA CallKeeps ==
  ASSUME CallInv, NEW t \in Threads, NEW f \in Active(t),
         NEW below \in Seq(Suspended(t)), below # <<>>,
         stack[t] = <<>> => below[1].at \in {"user", "check"},
         CallOver(t, below, f)
  PROVE  CallInv'
<1> DEFINE s == stack[t] \o below
<1>1. stack[t] \in Seq(Suspended(t)) /\ StackInv(t)
  BY DEF CallInv, StackInv
<1>2. /\ s \in Seq(Suspended(t))
      /\ Len(s) = Len(stack[t]) + Len(below)
      /\ \A i \in 1 .. Len(stack[t]) + Len(below) :
           s[i] = IF i <= Len(stack[t]) THEN stack[t][i]
                                        ELSE below[i - Len(stack[t])]
  BY <1>1, ConcatProperties
<1>3. Suspended(t) \subseteq Frame
  BY DEF Suspended, Active
<1>4. s \in Seq(Frame)
  <2> HIDE DEF s
  <2> QED BY <1>2, <1>3, SeqMonotonic
<1>5. stack' = [stack EXCEPT ![t] = s] /\ frame' = [frame EXCEPT ![t] = f]
  BY DEF CallOver
<1>6. frame' \in [Threads -> Frame] /\ stack' \in [Threads -> Seq(Frame)]
  BY <1>4, <1>5 DEF CallInv, Active
<1>7. s # <<>> /\ s[1].at \in {"user", "check"}
  <2>1. Len(below) \in Nat \ {0} /\ Len(stack[t]) \in Nat
    BY <1>1, EmptySeq, LenProperties
  <2>2. CASE stack[t] = <<>>
    <3>1. Len(stack[t]) = 0
      BY <2>2
    <3>2. s[1] = below[1] /\ Len(s) > 0
      BY <1>2, <2>1, <3>1
    <3> QED BY <2>2, <3>2
  <2>3. CASE stack[t] # <<>>
    <3>1. Len(stack[t]) > 0
      BY <1>1, <2>3, EmptySeq
    <3>2. s[1] = stack[t][1] /\ Len(s) > 0
      BY <1>2, <2>1, <3>1
    <3> QED BY <1>1, <2>3, <3>2 DEF StackInv
  <2> QED BY <2>2, <2>3
<1>8. ASSUME NEW x \in Threads PROVE StackInv(x)'
  <2> HIDE DEF s
  <2>1. StackInv(x)
    BY DEF CallInv
  <2>2. /\ frame'[x] = IF x = t THEN f ELSE frame[x]
        /\ stack'[x] = IF x = t THEN s ELSE stack[x]
    BY <1>5 DEF CallInv
  <2> QED BY <1>2, <1>7, <2>1, <2>2 DEF StackInv, Active, Suspended
<1> QED BY <1>6, <1>8 DEF CallInv

(* A thread resumes its last suspended frame.                              *)
LEMMA ReturnKeeps ==
  ASSUME CallInv, NEW t \in Threads, stack[t] # <<>>, Return(t)
  PROVE  /\ CallInv'
         /\ frame'[t] \in Suspended(t)
         /\ \A x \in Threads \ {t} : frame'[x] = frame[x]
<1> DEFINE n == Len(stack[t])
           s == SubSeq(stack[t], 1, n - 1)
<1>1. stack[t] \in Seq(Suspended(t)) /\ StackInv(t)
  BY DEF CallInv, StackInv
<1>2. n \in Nat \ {0}
  BY <1>1, EmptySeq
<1>3. \A i \in 1 .. n : stack[t][i] \in Suspended(t)
  BY <1>1, ElementOfSeq
<1>4. /\ s \in Seq(Suspended(t))
      /\ Len(s) = n - 1
      /\ \A i \in 1 .. n - 1 : s[i] = stack[t][i]
  <2>1. /\ s \in Seq(Suspended(t))
        /\ Len(s) = IF 1 <= n - 1 THEN (n - 1) - 1 + 1 ELSE 0
        /\ \A i \in 1 .. (n - 1) - 1 + 1 : s[i] = stack[t][1 + i - 1]
    <3>1. 1 \in Int /\ n - 1 \in Int
      BY <1>2
    <3>2. \A i \in 1 .. n - 1 : stack[t][i] \in Suspended(t)
      BY <1>2, <1>3
    <3> HIDE DEF n
    <3> QED BY <3>1, <3>2, SubSeqProperties
  <2> HIDE DEF s, n
  <2> QED BY <1>2, <2>1
<1>5. Suspended(t) \subseteq Frame /\ Suspended(t) \subseteq Active(t)
  BY DEF Suspended, Active
<1>6. s \in Seq(Frame)
  <2> HIDE DEF s
  <2> QED BY <1>4, <1>5, SeqMonotonic
<1>7. stack' = [stack EXCEPT ![t] = s] /\ frame' = [frame EXCEPT ![t] = stack[t][n]]
  BY DEF Return
<1>8. stack[t][n] \in Suspended(t)
  BY <1>2, <1>3
<1>9. frame' \in [Threads -> Frame] /\ stack' \in [Threads -> Seq(Frame)]
  <2> HIDE DEF s, n
  <2> QED BY <1>5, <1>6, <1>7, <1>8 DEF CallInv
<1>10. s = <<>> => stack[t][n].at \in BaseLabels
  <2>1. s = <<>> => n = 1
    <3> HIDE DEF s, n
    <3> QED BY <1>2, <1>4, EmptySeq
  <2> QED BY <1>1, <2>1 DEF StackInv, BaseLabels
<1>11. s # <<>> => s[1].at \in {"user", "check"}
  <2>1. s # <<>> => n - 1 >= 1
    <3> HIDE DEF s, n
    <3>1. s # <<>> => Len(s) # 0
      BY <1>4, EmptySeq
    <3> QED BY <1>2, <1>4, <3>1
  <2>2. s # <<>> => s[1] = stack[t][1]
    <3> HIDE DEF s, n
    <3> QED BY <1>2, <1>4, <2>1
  <2> HIDE DEF s
  <2> QED BY <1>1, <2>2 DEF StackInv
<1>12. ASSUME NEW x \in Threads PROVE StackInv(x)'
  <2> HIDE DEF s, n
  <2>1. StackInv(x)
    BY DEF CallInv
  <2>2. /\ frame'[x] = IF x = t THEN stack[t][n] ELSE frame[x]
        /\ stack'[x] = IF x = t THEN s ELSE stack[x]
    BY <1>7 DEF CallInv
  <2> QED BY <1>4, <1>5, <1>8, <1>10, <1>11, <2>1, <2>2
       DEF StackInv, Active, Suspended
<1>13. CallInv'
  BY <1>9, <1>12 DEF CallInv
<1> QED
  <2> HIDE DEF s, n
  <2> QED BY <1>7, <1>8, <1>13 DEF CallInv

(* The forms in which the actions use them.                                *)
LEMMA FrameFacts ==
  ASSUME CallInv, NEW t \in Threads
  PROVE  /\ frame[t] \in Active(t) /\ frame[t] \in Frame
         /\ On(t) \in Loops /\ Arg(t) \in Task
         /\ frame[t].at \in OwnLabels => On(t) = CurrentLoop(t)
         /\ Disciplined /\ frame[t].at \in OwnLabels => On(t) = t
         /\ Disciplined => frame[t].at # "waitEvent"
         /\ frame[t].at \notin BaseLabels => stack[t] # <<>>
BY DEF CallInv, StackInv, Active, Frame, On, Arg

LEMMA StackFacts ==
  ASSUME CallInv, NEW t \in Threads
  PROVE  /\ stack[t] \in Seq(Frame) /\ Len(stack[t]) \in Nat
         /\ DOMAIN stack[t] = 1 .. Len(stack[t])
         /\ \A i \in DOMAIN stack[t] : stack[t][i] \in Frame
<1>1. stack[t] \in Seq(Frame)
  BY DEF CallInv
<1> QED BY <1>1, LenProperties, ElementOfSeq

LEMMA GotoLabelKeeps ==
  ASSUME CallInv, NEW t \in Threads, NEW label \in Labels \ {"add", "remove", "waitEvent"},
         label \in OwnLabels => On(t) = CurrentLoop(t),
         Disciplined /\ label \in OwnLabels => On(t) = t,
         stack[t] # <<>> \/ label \in BaseLabels,
         Goto(t, label), stack' = stack
  PROVE  CallInv'
<1> DEFINE f == [frame[t] EXCEPT !.at = label]
<1>1. frame' = [frame EXCEPT ![t] = f]
  BY DEF Goto, CallInv
<1>2. f.at = label /\ f.loop = On(t) /\ f.arg = Arg(t) /\ f \in Frame
  BY FrameFacts DEF Frame, On, Arg
<1>3. f \in Active(t)
  <2> HIDE DEF f
  <2> QED BY <1>2 DEF Active
<1> HIDE DEF f
<1> QED BY <1>1, <1>2, <1>3, GotoKeeps

LEMMA ExecuteKeeps ==
  ASSUME CallInv, NEW t \in Threads, NEW e \in Task,
         frame[t].at \in {"pop", "low"}, Execute(t, e), stack' = stack
  PROVE  CallInv'
<1> DEFINE f == [frame[t] EXCEPT !.at = "exec", !.arg = e]
<1>1. frame' = [frame EXCEPT ![t] = f]
  BY DEF Execute, CallInv
<1>2. f.at = "exec" /\ f.loop = On(t) /\ f \in Frame
  BY FrameFacts DEF Frame, On, Labels, PumpLabels
<1>3. f \in Active(t) /\ stack[t] # <<>>
  <2> HIDE DEF f
  <2> QED BY <1>2, FrameFacts DEF Active, OwnLabels, PumpLabels, BaseLabels
<1> HIDE DEF f
<1> QED BY <1>1, <1>3, GotoKeeps

LEMMA UserCallKeeps ==
  ASSUME CallInv, NEW t \in Threads, NEW f \in Active(t),
         InUserCode(t), Call(t, f)
  PROVE  CallInv'
<1>1. frame[t] \in Suspended(t)
  BY FrameFacts DEF InUserCode, At, Suspended, SuspendedLabels
<1>2. <<frame[t]>> \in Seq(Suspended(t)) /\ <<frame[t]>> # <<>>
  BY <1>1
<1>3. stack[t] = <<>> => <<frame[t]>>[1].at \in {"user", "check"}
  BY FrameFacts DEF InUserCode, At, BaseLabels
<1> QED BY <1>2, <1>3, CallKeeps DEF Call
-----------------------------------------------------------------------------
(* CallInv is inductive.                                                   *)

LEMMA TaskFacts ==
  /\ NullTask \in Task
  /\ \A w \in Works, k \in {"plain", "sync", "pause"} :
       /\ TaskOf(w, k) \in Task
       /\ \A p \in Priorities : [TaskOf(w, k) EXCEPT !.pri = p] \in Task
  /\ \A r \in Connects, k \in {"register", "unbind"} :
       TaskOf(r, k) \in Task /\ TaskOf(r, k).kind = k
BY LoopAssumption DEF NullTask, TaskOf, Task, Kinds

LEMMA FrameOfActive ==
  ASSUME NEW t, NEW label \in Labels, NEW l \in Loops, NEW e \in Task,
         label \in {"add", "remove"} => e.kind \in {"register", "unbind"},
         label \in OwnLabels => l = CurrentLoop(t),
         Disciplined /\ label \in OwnLabels => l = t,
         Disciplined => label # "waitEvent"
  PROVE  FrameOf(label, l, e) \in Active(t)
BY DEF FrameOf, Active, Frame

LEMMA PumpActive ==
  ASSUME NEW t, NEW l \in Loops, l = CurrentLoop(t), Disciplined => l = t
  PROVE  Pump(l) \in Active(t)
BY TaskFacts, FrameOfActive DEF Pump, Labels, PumpLabels

LEMMA OwnCall ==
  ASSUME NEW t \in Threads, NEW l \in Loops,
         NEW op \in {"workSync", "process", "waitProcess", "waitEvent"},
         May(t, op, l), CurrentLoop(t) = l
  PROVE  Disciplined => l = t
BY DEF Disciplined, May, CurrentLoop

LEMMA DisconnectKeeps ==
  ASSUME CallInv, NEW t \in Threads, NEW l \in Loops, NEW r \in Connects,
         InUserCode(t) \/ At(t, "delConnects"), DisconnectFun(t, l, r)
  PROVE  CallInv'
<1> DEFINE g == FrameOf("remove", l, TaskOf(r, "unbind"))
           below == <<frame[t], g>>
<1>1. PICK s \in Loops : CallOver(t, below, FrameOf("push", s, TaskOf(r, "unbind")))
  BY DEF DisconnectFun
<1>2. frame[t] \in Suspended(t)
  BY FrameFacts DEF InUserCode, At, Suspended, SuspendedLabels
<1>3. g \in Suspended(t)
  <2>1. g \in Active(t) /\ g.at = "remove"
    BY TaskFacts, FrameOfActive
       DEF FrameOf, Labels, OwnLabels, PumpLabels
  <2> QED BY <2>1 DEF Suspended, SuspendedLabels
<1>4. FrameOf("push", s, TaskOf(r, "unbind")) \in Active(t)
  BY TaskFacts, FrameOfActive DEF Labels, OwnLabels, PumpLabels
<1>5. below \in Seq(Suspended(t)) /\ below # <<>> /\ below[1] = frame[t]
  <2> HIDE DEF g
  <2> QED BY <1>2, <1>3
<1>6. stack[t] = <<>> => below[1].at \in {"user", "check"}
  BY <1>5, FrameFacts DEF InUserCode, At, BaseLabels
<1> HIDE DEF below
<1> QED BY <1>1, <1>4, <1>5, <1>6, CallKeeps

LEMMA CallNext ==
  ASSUME TypeOK, CallInv, [Next]_vars
  PROVE  CallInv'
<1> USE LoopAssumption
<1>1. ASSUME NEW l \in Loops, Check(l) PROVE CallInv'
  BY <1>1, FrameFacts, GotoLabelKeeps
     DEF Check, At, Threads, Labels, OwnLabels, BaseLabels
<1>2. ASSUME NEW l \in Loops, Wait(l) PROVE CallInv'
  <2> DEFINE g == [frame[l] EXCEPT !.at = "check"]
  <2>1. l \in Threads /\ At(l, "wait") /\ CallOver(l, <<g>>, Pump(l))
    BY <1>2 DEF Wait, Threads
  <2>2. On(l) = CurrentLoop(l) /\ CurrentLoop(l) = l
    BY <2>1, FrameFacts DEF At, OwnLabels, CurrentLoop
  <2>3. g \in Suspended(l) /\ g.at = "check"
    BY <2>1, <2>2, FrameFacts
       DEF Suspended, SuspendedLabels, Active, Frame, On, Labels
  <2>4. Pump(l) \in Active(l)
    BY <2>2, PumpActive
  <2>5. <<g>> \in Seq(Suspended(l)) /\ <<g>> # <<>> /\ <<g>>[1] = g
    <3> HIDE DEF g
    <3> QED BY <2>3
  <2> HIDE DEF g
  <2> QED BY <2>1, <2>3, <2>4, <2>5, CallKeeps
<1>3. ASSUME NEW l \in Loops, Reap(l) PROVE CallInv'
  BY <1>3, FrameFacts, GotoLabelKeeps
     DEF Reap, At, Threads, Labels, OwnLabels, PumpLabels, BaseLabels
<1>4. ASSUME NEW t \in Threads, PopHigh(t) PROVE CallInv'
  <2>1. CASE highPri[On(t)] # <<>>
    <3>1. Head(highPri[On(t)]) \in Task
      BY <2>1, FrameFacts, HeadTailProperties DEF TypeOK, DataOK
    <3> QED BY <1>4, <2>1, <3>1, ExecuteKeeps DEF PopHigh, At
  <2>2. CASE highPri[On(t)] = <<>>
    BY <1>4, <2>2, FrameFacts, GotoLabelKeeps
       DEF PopHigh, At, Labels, OwnLabels, PumpLabels, BaseLabels
  <2> QED BY <2>1, <2>2
<1>5. ASSUME NEW t \in Threads, PopLow(t) PROVE CallInv'
  <2>1. CASE events[On(t)] # <<>>
    <3>1. Head(events[On(t)]) \in Task
      BY <2>1, FrameFacts, HeadTailProperties DEF TypeOK, DataOK
    <3> QED BY <1>5, <2>1, <3>1, ExecuteKeeps DEF PopLow, At
  <2>2. CASE events[On(t)] = <<>>
    BY <1>5, <2>2, FrameFacts, ReturnKeeps DEF PopLow, At, BaseLabels
  <2> QED BY <2>1, <2>2
<1>6. ASSUME NEW t \in Threads, Finish(t) \/ Pause(t) \/ Unbind(t) PROVE CallInv'
  BY <1>6, FrameFacts, GotoLabelKeeps
     DEF Finish, Pause, Unbind, At, Labels, OwnLabels, PumpLabels, BaseLabels
<1>7. ASSUME NEW t \in Threads, NextEvent(t) PROVE CallInv'
  BY <1>7, FrameFacts, GotoLabelKeeps, ReturnKeeps
     DEF NextEvent, At, Labels, OwnLabels, PumpLabels, BaseLabels
<1>8. ASSUME NEW t \in Threads, Push(t) PROVE CallInv'
  BY <1>8, FrameFacts, GotoLabelKeeps
     DEF Push, At, Labels, OwnLabels, PumpLabels, BaseLabels
<1>9. ASSUME NEW t \in Threads, Post(t) PROVE CallInv'
  BY <1>9, FrameFacts, GotoLabelKeeps, ReturnKeeps
     DEF Post, At, Labels, OwnLabels, PumpLabels, BaseLabels
<1>10. ASSUME NEW t \in Threads, Ack(t) \/ EndBody(t) PROVE CallInv'
  BY <1>10, FrameFacts, ReturnKeeps DEF Ack, EndBody, At, BaseLabels
<1>11. ASSUME NEW t \in Threads, ProcessFirst(t) PROVE CallInv'
  <2> DEFINE g == [frame[t] EXCEPT !.at = "begin"]
             l == On(t)
  <2>1. l = CurrentLoop(t) /\ (Disciplined => l = t)
    BY <1>11, FrameFacts DEF ProcessFirst, At, OwnLabels
  <2>2. CASE runSem[l] > 0
    <3>1. CallOver(t, <<g>>, Pump(l))
      BY <1>11, <2>2 DEF ProcessFirst
    <3>2. g \in Suspended(t)
      BY <2>1, FrameFacts
         DEF Suspended, SuspendedLabels, Active, Frame, On, Labels
    <3>3. <<g>> \in Seq(Suspended(t)) /\ <<g>> # <<>>
      <4> HIDE DEF g
      <4> QED BY <3>2
    <3>4. Pump(l) \in Active(t)
      BY <2>1, FrameFacts, PumpActive
    <3>5. stack[t] # <<>>
      BY <1>11, FrameFacts DEF ProcessFirst, At, BaseLabels
    <3> HIDE DEF g, l
    <3> QED BY <3>1, <3>3, <3>4, <3>5, CallKeeps
  <2>3. CASE ~(runSem[l] > 0)
    BY <1>11, <2>1, <2>3, FrameFacts, GotoLabelKeeps
       DEF ProcessFirst, At, Labels, BaseLabels
  <2> QED BY <2>2, <2>3
<1>12. ASSUME NEW t \in Threads, BeginBody(t) PROVE CallInv'
  BY <1>12, FrameFacts, GotoLabelKeeps
     DEF BeginBody, At, Labels, OwnLabels, BaseLabels
<1>13. ASSUME NEW t \in Threads, ManualWake(t) PROVE CallInv'
  BY <1>13, FrameFacts, GotoLabelKeeps, ReturnKeeps
     DEF ManualWake, At, Labels, OwnLabels, PumpLabels, BaseLabels
<1>14. ASSUME NEW t \in Threads, Register(t) PROVE CallInv'
  <2> DEFINE g == [frame[t] EXCEPT !.at = "next"]
  <2>1. PICK l \in Loops : CallOver(t, <<g>>, FrameOf("add", l, Arg(t)))
    BY <1>14 DEF Register
  <2>2. Arg(t).kind = "register" /\ frame[t].at = "exec"
    BY <1>14 DEF Register, At
  <2>3. g \in Suspended(t)
    BY <2>2, FrameFacts
       DEF Suspended, SuspendedLabels, Active, Frame, On, Labels, OwnLabels,
           PumpLabels
  <2>4. <<g>> \in Seq(Suspended(t)) /\ <<g>> # <<>>
    <3> HIDE DEF g
    <3> QED BY <2>3
  <2>5. FrameOf("add", l, Arg(t)) \in Active(t)
    BY <2>2, FrameFacts, FrameOfActive DEF Labels, OwnLabels, PumpLabels
  <2>6. stack[t] # <<>>
    BY <2>2, FrameFacts DEF BaseLabels
  <2> HIDE DEF g
  <2> QED BY <2>1, <2>4, <2>5, <2>6, CallKeeps
<1>15. ASSUME NEW t \in Threads,
              AddSharedConnectBase(t) \/ RemoveSharedConnectBase(t)
       PROVE  CallInv'
  BY <1>15, FrameFacts, ReturnKeeps
     DEF AddSharedConnectBase, RemoveSharedConnectBase, At, BaseLabels
<1>16. ASSUME NEW t \in Threads, DelLock(t) \/ DelAlive(t) \/ DelTerminate(t)
                                    \/ DelRun(t)
       PROVE  CallInv'
  BY <1>16, FrameFacts, GotoLabelKeeps
     DEF DelLock, DelAlive, DelTerminate, DelRun, At, Labels, DeleteLabels,
         OwnLabels, PumpLabels, BaseLabels
<1>17. ASSUME NEW t \in Threads, DelConnects(t) PROVE CallInv'
  <2>1. CASE connects[On(t)] \cap connAlive # {}
    <3>1. PICK r \in connects[On(t)] : DisconnectFun(t, On(t), r)
      BY <1>17, <2>1 DEF DelConnects
    <3>2. r \in Connects /\ On(t) \in Loops /\ At(t, "delConnects")
      BY <1>17, FrameFacts DEF TypeOK, DataOK, DelConnects
    <3> QED BY <3>1, <3>2, DisconnectKeeps
  <2>2. CASE ~(connects[On(t)] \cap connAlive # {})
    BY <1>17, <2>2, FrameFacts, GotoLabelKeeps
       DEF DelConnects, At, Labels, DeleteLabels, OwnLabels, PumpLabels,
           BaseLabels
  <2> QED BY <2>1, <2>2
<1>18. ASSUME NEW t \in Threads, UserCall(t) PROVE CallInv'
  <2>1. ASSUME NEW l \in Loops, NEW e \in Task, InUserCode(t),
               Submit(t, "push", l, e)
        PROVE  CallInv'
    <3>1. FrameOf("push", l, e) \in Active(t)
      BY FrameOfActive DEF Labels, OwnLabels, PumpLabels
    <3> QED BY <2>1, <3>1, UserCallKeeps DEF Submit
  <2>2. ASSUME NEW l \in Loops, NEW w \in Works, NEW p \in Priorities,
               Work(t, l, w, p) \/ WorkSync(t, l, w, p)
        PROVE  CallInv'
    BY <2>1, <2>2, TaskFacts DEF Work, WorkSync, May
  <2>3. ASSUME NEW l \in Loops, NEW w \in Works, WorkSyncOwn(t, l, w)
        PROVE  CallInv'
    <3>1. FrameOf("process", l, TaskOf(w, "plain")) \in Active(t)
      BY <2>3, OwnCall, TaskFacts, FrameOfActive DEF WorkSyncOwn, Labels
    <3> QED BY <2>3, <3>1, UserCallKeeps DEF WorkSyncOwn, May, Submit
  <2>4. ASSUME NEW l \in Loops, NEW w \in Works, SetRunFalse(t, l, w)
        PROVE  CallInv'
    BY <2>1, <2>4, TaskFacts DEF SetRunFalse, May
  <2>5. ASSUME NEW l \in Loops, Process(t, l) PROVE CallInv'
    BY <2>5, OwnCall, PumpActive, UserCallKeeps DEF Process, May
  <2>6. ASSUME NEW l \in Loops, DeleteLater(t, l) PROVE CallInv'
    <3>1. FrameOf("delLock", l, NullTask) \in Active(t)
      BY TaskFacts, FrameOfActive DEF Labels, DeleteLabels, OwnLabels, PumpLabels
    <3> QED BY <2>6, <3>1, UserCallKeeps DEF DeleteLater, May
  <2>7. ASSUME NEW l \in Loops, NEW op \in {"waitProcess", "waitEvent"},
               ManualWait(t, l, op)
        PROVE  CallInv'
    <3>1. l = CurrentLoop(t) /\ (Disciplined => l = t /\ op # "waitEvent")
      BY <2>7, OwnCall DEF ManualWait, Disciplined, May
    <3>2. op \in Labels \ {"add", "remove"}
      BY DEF Labels
    <3>3. FrameOf(op, l, NullTask) \in Active(t)
      BY <3>1, <3>2, TaskFacts, FrameOfActive
    <3> QED BY <2>7, <3>3, UserCallKeeps DEF ManualWait, May
  <2>8. ASSUME NEW r \in Connects, Connect(t, r) PROVE CallInv'
    <3>1. CurrentLoop(t) \in Loops
      BY DEF CurrentLoop
    <3>2. TaskOf(r, "register") \in Task /\ TaskOf(r, "register").kind = "register"
      BY TaskFacts
    <3>3. \A s \in Loops : /\ FrameOf("add", s, TaskOf(r, "register")) \in Active(t)
                           /\ FrameOf("push", s, TaskOf(r, "register")) \in Active(t)
      BY <3>2, FrameOfActive DEF Labels, OwnLabels, PumpLabels
    <3>4. PICK f \in Active(t) : Call(t, f)
      BY <2>8, <3>1, <3>3 DEF Connect
    <3> QED BY <2>8, <3>4, UserCallKeeps DEF Connect, May
  <2>9. ASSUME NEW l \in Loops, NEW r \in Connects, Disconnect(t, l, r)
        PROVE  CallInv'
    BY <2>9, DisconnectKeeps DEF Disconnect, May
  <2>10. ASSUME UNCHANGED callVars PROVE CallInv'
    BY <2>10 DEF callVars, CallInv, StackInv, Active, Suspended
  <2>11. ASSUME NEW l \in Loops, SetRunTrue(t, l) PROVE CallInv'
    BY <2>10, <2>11 DEF SetRunTrue
  <2>12. ASSUME NEW o \in Objects, Hold(t, o) PROVE CallInv'
    BY <2>10, <2>12 DEF Hold
  <2>13. ASSUME NEW l \in Loops, NEW r \in Refs, Drop(t, l, r) PROVE CallInv'
    BY <2>10, <2>13 DEF Drop
  <2> QED BY <1>18, <2>2, <2>3, <2>4, <2>5, <2>6, <2>7, <2>8, <2>9, <2>11,
             <2>12, <2>13 DEF UserCall
<1>19. CASE UNCHANGED vars
  BY <1>19 DEF vars, callVars, CallInv, StackInv, Active, Suspended
<1> QED
  BY <1>1, <1>2, <1>3, <1>4, <1>5, <1>6, <1>7, <1>8, <1>9, <1>10, <1>11,
     <1>12, <1>13, <1>14, <1>15, <1>16, <1>17, <1>18, <1>19
     DEF Next, RunStep, ThreadStep
-----------------------------------------------------------------------------
(* Type correctness.                                                       *)

LEMMA InitOK == Init => TypeOK /\ CallInv
<1> SUFFICES ASSUME Init PROVE TypeOK /\ CallInv
  OBVIOUS
<1> USE LoopAssumption
<1>1. DataOK
  BY EmptySeq DEF Init, DataOK
<1>2. ASSUME NEW t \in Threads
      PROVE  /\ frame[t] \in Active(t) /\ frame[t].at \in {"check", "user"}
             /\ stack[t] = <<>>
  <2> DEFINE label == IF t \in Loops THEN "check" ELSE "user"
  <2>1. frame[t] = FrameOf(label, CurrentLoop(t), NullTask) /\ stack[t] = <<>>
    BY <1>2 DEF Init
  <2>2. /\ label \in Labels \ {"add", "remove", "waitEvent"} /\ CurrentLoop(t) \in Loops
        /\ label \in OwnLabels => CurrentLoop(t) = t
    BY DEF CurrentLoop, Labels, OwnLabels, PumpLabels
  <2>3. frame[t].at = label
    BY <2>1 DEF FrameOf
  <2> HIDE DEF label
  <2>4. FrameOf(label, CurrentLoop(t), NullTask) \in Active(t)
    BY <2>2, TaskFacts, FrameOfActive
  <2> USE DEF label
  <2> QED BY <2>1, <2>3, <2>4
<1>3. frame \in [Threads -> Frame] /\ stack \in [Threads -> Seq(Frame)]
  BY <1>2, EmptySeq DEF Init, Active
<1>4. CallInv
  BY <1>2, <1>3, EmptySeq DEF CallInv, StackInv, BaseLabels
<1> QED BY <1>1, <1>3, <1>4 DEF TypeOK

LEMMA EmplaceType ==
  ASSUME NEW S, NEW s \in Seq(S), NEW k \in 0 .. Len(s), NEW e \in S
  PROVE  /\ Emplace(s, k, e) \in Seq(S)
         /\ Len(Emplace(s, k, e)) = Len(s) + 1
<1> DEFINE a == SubSeq(s, 1, k)
           b == SubSeq(s, k + 1, Len(s))
<1>1. Len(s) \in Nat /\ \A i \in 1 .. Len(s) : s[i] \in S
  BY LenProperties, ElementOfSeq
<1>2. a \in Seq(S) /\ Len(a) = k
  BY <1>1, SubSeqProperties
<1>3. b \in Seq(S) /\ Len(b) = Len(s) - k
  BY <1>1, SubSeqProperties
<1>4. <<e>> \in Seq(S) /\ Len(<<e>>) = 1
  OBVIOUS
<1>5. a \o <<e>> \in Seq(S) /\ Len(a \o <<e>>) = k + 1
  <2> HIDE DEF a
  <2> QED BY <1>2, <1>4, ConcatProperties
<1>6. (a \o <<e>>) \o b \in Seq(S) /\ Len((a \o <<e>>) \o b) = Len(s) + 1
  <2> DEFINE c == a \o <<e>>
  <2>1. c \in Seq(S) /\ Len(c) = k + 1
    BY <1>5
  <2> HIDE DEF a, b, c
  <2>2. c \o b \in Seq(S) /\ Len(c \o b) = Len(c) + Len(b)
    BY <1>3, <2>1, ConcatProperties
  <2>3. Len(c) + Len(b) = Len(s) + 1
    BY <1>1, <1>3, <2>1
  <2> QED BY <2>2, <2>3 DEF c
<1> QED BY <1>6 DEF Emplace

LEMMA Updated ==
  ASSUME NEW S, NEW V, NEW f \in [S -> V], NEW x, NEW v \in V
  PROVE  [f EXCEPT ![x] = v] \in [S -> V]
OBVIOUS

LEMMA Joined ==
  ASSUME NEW S, NEW V, NEW f \in [S -> SUBSET V], NEW x, NEW v \in V, x \in S
  PROVE  [f EXCEPT ![x] = @ \cup {v}] \in [S -> SUBSET V]
OBVIOUS

LEMMA AcquireTypes ==
  ASSUME holders \in [Loops -> SUBSET Refs], bare \in [Loops -> SUBSET Refs],
         NEW l \in Loops, NEW r \in Refs, Acquire(l, r)
  PROVE  holders' \in [Loops -> SUBSET Refs] /\ bare' \in [Loops -> SUBSET Refs]
<1>1. CASE sharedAlive[l]
  BY <1>1, Joined DEF Acquire
<1>2. CASE ~sharedAlive[l]
  BY <1>2, Joined DEF Acquire
<1> QED BY <1>1, <1>2

LEMMA Counted ==
  ASSUME NEW f \in [Loops -> Nat], NEW l \in Loops
  PROVE  /\ [f EXCEPT ![l] = @ + 1] \in [Loops -> Nat]
         /\ f[l] > 0 => [f EXCEPT ![l] = @ - 1] \in [Loops -> Nat]
OBVIOUS

LEMMA DataNext ==
  ASSUME TypeOK, CallInv, [Next]_vars
  PROVE  DataOK'
<1> USE LoopAssumption
<1>0. DataOK
  BY DEF TypeOK
<1>f. \A t \in Threads : On(t) \in Loops /\ Arg(t) \in Task
  BY FrameFacts
<1> USE DEF DataOK, queueVars, lifeVars, refVars, ownVars, userVars
<1>1. ASSUME NEW l \in Loops, Check(l) PROVE DataOK'
  BY <1>0, <1>f, <1>1 DEF Check
<1>2. ASSUME NEW l \in Loops, Wait(l) PROVE DataOK'
  <2>1. runSem' \in [Loops -> Nat]
    BY <1>0, <1>f, <1>2, Counted DEF Wait
  <2> QED BY <1>0, <1>2, <2>1 DEF Wait
<1>3. ASSUME NEW l \in Loops, Reap(l) PROVE DataOK'
  <2>1. deleteSem' \in [Loops -> Nat]
    BY <1>0, <1>f, <1>3, Counted DEF Reap
  <2> QED BY <1>0, <1>3, <2>1 DEF Reap
<1>4. ASSUME NEW t \in Threads, PopHigh(t) PROVE DataOK'
  <2>1. \/ highPri' = highPri
        \/ /\ highPri[On(t)] # <<>>
           /\ highPri' = [highPri EXCEPT ![On(t)] = Tail(@)]
    BY <1>0, <1>f, <1>4 DEF PopHigh
  <2>2. highPri[On(t)] # <<>> => Tail(highPri[On(t)]) \in Seq(Task)
    BY <1>0, <1>f, <1>4, HeadTailProperties DEF PopHigh
  <2>3. highPri' \in [Loops -> Seq(Task)]
    <3>1. highPri \in [Loops -> Seq(Task)]
      BY <1>0
    <3>2. CASE highPri[On(t)] # <<>>
      <4>1. Tail(highPri[On(t)]) \in Seq(Task)
        BY <2>2, <3>2
      <4>2. [highPri EXCEPT ![On(t)] = Tail(highPri[On(t)])] \in [Loops -> Seq(Task)]
        BY <3>1, <4>1, Updated
      <4> QED BY <2>1, <3>1, <4>2
    <3>3. CASE highPri[On(t)] = <<>>
      BY <2>1, <3>1, <3>3
    <3> QED BY <3>2, <3>3
  <2> QED BY <1>0, <1>4, <2>1, <2>2, <2>3 DEF PopHigh
<1>5. ASSUME NEW t \in Threads, PopLow(t) PROVE DataOK'
  <2>1. \/ events' = events
        \/ /\ events[On(t)] # <<>>
           /\ events' = [events EXCEPT ![On(t)] = Tail(@)]
    BY <1>0, <1>f, <1>5 DEF PopLow
  <2>2. events[On(t)] # <<>> => Tail(events[On(t)]) \in Seq(Task)
    BY <1>0, <1>f, <1>5, HeadTailProperties DEF PopLow
  <2>3. events' \in [Loops -> Seq(Task)]
    <3>1. events \in [Loops -> Seq(Task)]
      BY <1>0
    <3>2. CASE events[On(t)] # <<>>
      <4>1. Tail(events[On(t)]) \in Seq(Task)
        BY <2>2, <3>2
      <4>2. [events EXCEPT ![On(t)] = Tail(events[On(t)])] \in [Loops -> Seq(Task)]
        BY <3>1, <4>1, Updated
      <4> QED BY <2>1, <3>1, <4>2
    <3>3. CASE events[On(t)] = <<>>
      BY <2>1, <3>1, <3>3
    <3> QED BY <3>2, <3>3
  <2> QED BY <1>0, <1>5, <2>1, <2>2, <2>3 DEF PopLow
<1>6. ASSUME NEW t \in Threads, Finish(t) PROVE DataOK'
  <2>1. posted' \subseteq Works
    BY <1>0, <1>f, <1>6, FrameFacts DEF Finish, Task
  <2> QED BY <1>0, <1>6, <2>1 DEF Finish
<1>7. ASSUME NEW t \in Threads, Pause(t) PROVE DataOK'
  <2>1. runStaSem' \in [Loops -> Nat]
    BY <1>0, <1>f, <1>7, Counted DEF Pause
  <2> QED BY <1>0, <1>7, <2>1 DEF Pause
<1>8. ASSUME NEW t \in Threads, NextEvent(t) PROVE DataOK'
  <2>1. \/ runSem' = runSem
        \/ /\ runSem[On(t)] > 0
           /\ runSem' = [runSem EXCEPT ![On(t)] = @ - 1]
    BY <1>0, <1>f, <1>8 DEF NextEvent
  <2>2. runSem' = runSem => runSem' \in [Loops -> Nat]
    BY <1>0
  <2>3. runSem' # runSem => runSem' \in [Loops -> Nat]
    <3>1. runSem \in [Loops -> Nat] /\ On(t) \in Loops
      BY <1>0, <1>f
    <3>2. runSem[On(t)] > 0 => [runSem EXCEPT ![On(t)] = @ - 1] \in [Loops -> Nat]
      BY <3>1, Counted
    <3> QED BY <2>1, <3>2
  <2>4. runSem' \in [Loops -> Nat]
    BY <2>2, <2>3
  <2> QED BY <1>0, <1>8, <2>4 DEF NextEvent
<1>9. ASSUME NEW t \in Threads, Post(t) PROVE DataOK'
  <2>1. runSem' \in [Loops -> Nat]
    BY <1>0, <1>f, <1>9, Counted DEF Post
  <2> QED BY <1>0, <1>9, <2>1 DEF Post
<1>10. ASSUME NEW t \in Threads, Push(t) PROVE DataOK'
  <2> DEFINE l == On(t)
             e == Arg(t)
  <2>1. l \in Loops /\ e \in Task
    BY <1>f
  <2>2. highPri' \in [Loops -> Seq(Task)] /\ events' \in [Loops -> Seq(Task)]
    <3>1. CASE PushHigh(l, e)
      <4>1. Append(highPri[l], e) \in Seq(Task)
        BY <1>0, <2>1, AppendProperties
      <4> QED BY <1>0, <3>1, <4>1, Updated DEF PushHigh
    <3>2. CASE PushLow(l, e)
      <4>1. PICK k \in 0 .. Len(events[l]) :
              events' = [events EXCEPT ![l] = Emplace(@, k, e)]
        BY <3>2 DEF PushLow
      <4>2. Emplace(events[l], k, e) \in Seq(Task)
        BY <1>0, <2>1, EmplaceType
      <4> QED BY <1>0, <3>2, <4>1, <4>2, Updated DEF PushLow
    <3> QED BY <1>10, <3>1, <3>2 DEF Push
  <2> QED BY <1>0, <1>10, <2>1, <2>2 DEF Push
<1>11. ASSUME NEW t \in Threads, Ack(t) \/ BeginBody(t) \/ EndBody(t) PROVE DataOK'
  BY <1>0, <1>f, <1>11 DEF Ack, BeginBody, EndBody
<1>12. ASSUME NEW t \in Threads, ProcessFirst(t) PROVE DataOK'
  <2>1. \/ runSem' = runSem
        \/ /\ runSem[On(t)] > 0
           /\ runSem' = [runSem EXCEPT ![On(t)] = @ - 1]
    BY <1>0, <1>f, <1>12 DEF ProcessFirst
  <2>2. runSem' = runSem => runSem' \in [Loops -> Nat]
    BY <1>0
  <2>3. runSem' # runSem => runSem' \in [Loops -> Nat]
    <3>1. runSem \in [Loops -> Nat] /\ On(t) \in Loops
      BY <1>0, <1>f
    <3>2. runSem[On(t)] > 0 => [runSem EXCEPT ![On(t)] = @ - 1] \in [Loops -> Nat]
      BY <3>1, Counted
    <3> QED BY <2>1, <3>2
  <2>4. runSem' \in [Loops -> Nat]
    BY <2>2, <2>3
  <2> QED BY <1>0, <1>12, <2>4 DEF ProcessFirst
<1>13. ASSUME NEW t \in Threads, ManualWake(t) PROVE DataOK'
  <2>1. runSem' \in [Loops -> Nat]
    BY <1>0, <1>f, <1>13, Counted DEF ManualWake
  <2> QED BY <1>0, <1>13, <2>1 DEF ManualWake
<1>14. ASSUME NEW t \in Threads, Register(t) PROVE DataOK'
  BY <1>0, <1>f, <1>14 DEF Register, Task
<1>15. ASSUME NEW t \in Threads, AddSharedConnectBase(t) PROVE DataOK'
  <2>1. Arg(t).id \in Connects
    BY <1>0, <1>f, <1>15, FrameFacts DEF AddSharedConnectBase, At, Arg, Frame, Task
  <2> QED BY <1>0, <1>15, <2>1 DEF AddSharedConnectBase
<1>16. ASSUME NEW t \in Threads, RemoveSharedConnectBase(t) PROVE DataOK'
  <2>1. connects' \in [Loops -> SUBSET Connects]
    BY <1>0, <1>f, <1>16, Updated DEF RemoveSharedConnectBase
  <2> QED BY <1>0, <1>16, <2>1 DEF RemoveSharedConnectBase
<1>17. ASSUME NEW t \in Threads, Unbind(t) PROVE DataOK'
  BY <1>0, <1>f, <1>17 DEF Unbind
<1>18. ASSUME NEW t \in Threads, DelLock(t) PROVE DataOK'
  <2>1. operateMutex' \in [Loops -> Threads \cup {Nil}]
    BY <1>0, <1>f, <1>18, Updated DEF DelLock
  <2> QED BY <1>0, <1>18, <2>1 DEF DelLock
<1>19. ASSUME NEW t \in Threads, DelTerminate(t) PROVE DataOK'
  <2>1. terminate' \in [Loops -> BOOLEAN]
    BY <1>0, <1>f, <1>19, Updated DEF DelTerminate
  <2> QED BY <1>0, <1>19, <2>1 DEF DelTerminate
<1>20. ASSUME NEW t \in Threads, DelConnects(t) PROVE DataOK'
  BY <1>0, <1>f, <1>20 DEF DelConnects, DisconnectFun
<1>21. ASSUME NEW t \in Threads, DelAlive(t) PROVE DataOK'
  <2>1. deleteSem' \in [Loops -> Nat]
    BY <1>0, <1>f, <1>21, Counted DEF DelAlive, PostIfLast
  <2> QED BY <1>0, <1>21, <2>1 DEF DelAlive
<1>22. ASSUME NEW t \in Threads, DelRun(t) PROVE DataOK'
  <2>1. runStaSem' \in [Loops -> Nat]
    BY <1>0, <1>f, <1>22, Counted DEF DelRun
  <2> QED BY <1>0, <1>22, <2>1 DEF DelRun
<1>23. ASSUME NEW t \in Threads, UserCall(t) PROVE DataOK'
  <2>1. ASSUME NEW l \in Loops, NEW e \in Task, NEW label, Submit(t, label, l, e),
               e.id \in Works
        PROVE  DataOK'
    BY <1>0, <2>1 DEF Submit
  <2>2. ASSUME NEW l \in Loops, NEW w \in Works, NEW p \in Priorities,
               Work(t, l, w, p) \/ WorkSync(t, l, w, p)
        PROVE  DataOK'
    BY <2>1, <2>2, TaskFacts DEF Work, WorkSync, TaskOf
  <2>3. ASSUME NEW l \in Loops, NEW w \in Works,
               WorkSyncOwn(t, l, w) \/ SetRunFalse(t, l, w)
        PROVE  DataOK'
    BY <2>1, <2>3, TaskFacts DEF WorkSyncOwn, SetRunFalse, TaskOf
  <2>4. ASSUME NEW l \in Loops, SetRunTrue(t, l) PROVE DataOK'
    <3>1. runStaSem' \in [Loops -> Nat]
      BY <1>0, <2>4, Counted DEF SetRunTrue
    <3> QED BY <1>0, <2>4, <3>1 DEF SetRunTrue
  <2>5. ASSUME NEW l \in Loops, Process(t, l) PROVE DataOK'
    <3>1. runSem' \in [Loops -> Nat]
      BY <1>0, <2>5, Counted DEF Process
    <3> QED BY <1>0, <2>5, <3>1 DEF Process
  <2>6. ASSUME NEW l \in Loops, DeleteLater(t, l) PROVE DataOK'
    BY <1>0, <2>6 DEF DeleteLater
  <2>7. ASSUME NEW l \in Loops, NEW op, ManualWait(t, l, op) PROVE DataOK'
    BY <1>0, <2>7 DEF ManualWait
  <2>8. CurrentLoop(t) \in Loops
    BY DEF CurrentLoop
  <2>9. ASSUME NEW o \in Objects, Hold(t, o) PROVE DataOK'
    <3>1. o \in Refs /\ Acquire(CurrentLoop(t), o)
      BY <2>9 DEF Hold, Refs
    <3>2. holders' \in [Loops -> SUBSET Refs] /\ bare' \in [Loops -> SUBSET Refs]
      BY <1>0, <2>8, <3>1, AcquireTypes
    <3>3. UNCHANGED <<queueVars, runSem, runStaSem, operateMutex, lifeVars,
                      connects, connAlive, bound, userVars>>
      BY <2>9 DEF Hold
    <3> QED BY <1>0, <3>2, <3>3
  <2>10. ASSUME NEW l \in Loops, NEW r \in Refs, Drop(t, l, r) PROVE DataOK'
    <3>1. deleteSem' \in [Loops -> Nat]
      <4>1. deleteSem' = deleteSem \/ deleteSem' = [deleteSem EXCEPT ![l] = @ + 1]
        BY <2>10 DEF Drop, PostIfLast
      <4>2. deleteSem \in [Loops -> Nat]
        BY <1>0
      <4> QED BY <4>1, <4>2, Counted
    <3>2. holders' \in [Loops -> SUBSET Refs] /\ bare' \in [Loops -> SUBSET Refs]
      <4>0. holders \in [Loops -> SUBSET Refs] /\ bare \in [Loops -> SUBSET Refs]
        BY <1>0
      <4>1. /\ holders' = holders \/ holders' = [holders EXCEPT ![l] = @ \ {r}]
            /\ bare' = bare \/ bare' = [bare EXCEPT ![l] = @ \ {r}]
        BY <2>10 DEF Drop
      <4> QED BY <4>0, <4>1
    <3>3. UNCHANGED <<queueVars, runSem, runStaSem, operateMutex, terminate,
                      deleting, sharedAlive, freed, connects, connAlive, bound,
                      userVars>>
      BY <2>10 DEF Drop
    <3> QED BY <1>0, <3>1, <3>2, <3>3
  <2>11. ASSUME NEW r \in Connects, Connect(t, r) PROVE DataOK'
    <3>1. r \in Refs /\ Acquire(CurrentLoop(t), r)
      BY <2>11 DEF Connect, Refs
    <3>2. holders' \in [Loops -> SUBSET Refs] /\ bare' \in [Loops -> SUBSET Refs]
      BY <1>0, <2>8, <3>1, AcquireTypes
    <3>3. used' = used \cup {r} /\ connAlive' = connAlive \cup {r}
      BY <2>11 DEF Connect
    <3>4. bound' = bound \cup {r} \/ bound' = bound
      BY <2>11 DEF Connect
    <3>5. UNCHANGED <<queueVars, runSem, runStaSem, operateMutex, lifeVars,
                      connects, posted>>
      BY <2>11 DEF Connect
    <3>6. /\ used' \subseteq Works \cup Connects
          /\ connAlive' \subseteq Connects /\ bound' \subseteq Connects
      BY <1>0, <3>3, <3>4
    <3> QED BY <1>0, <3>2, <3>5, <3>6
  <2>12. ASSUME NEW l \in Loops, NEW r \in Connects, Disconnect(t, l, r)
         PROVE  DataOK'
    BY <1>0, <2>12 DEF Disconnect, DisconnectFun
  <2> QED BY <1>23, <2>2, <2>3, <2>4, <2>5, <2>6, <2>7, <2>9, <2>10, <2>11,
             <2>12 DEF UserCall
<1>24. CASE UNCHANGED vars
  BY <1>0, <1>24 DEF vars
<1> QED
  BY <1>1, <1>2, <1>3, <1>4, <1>5, <1>6, <1>7, <1>8, <1>9,
     <1>10, <1>11, <1>12, <1>13, <1>14, <1>15, <1>16, <1>17, <1>18,
     <1>19, <1>20, <1>21, <1>22, <1>23, <1>24
     DEF Next, RunStep, ThreadStep

(* The variables keep their types, whatever users call, and the call       *)
(* stacks their shape: no thread ever returns from an empty stack.         *)
THEOREM TypeCorrect == Spec => [](TypeOK /\ CallInv)
<1>1. TypeOK /\ CallInv /\ [Next]_vars => (TypeOK /\ CallInv)'
  BY CallNext, DataNext DEF TypeOK, CallInv
<1> QED BY <1>1, InitOK, PTL DEF Spec

(* Whatever users call, and however calls nest, functions are taken from a *)
(* loop's queues and run only by a thread whose getCurrentLoop it is: the  *)
(* loop's own, or, on the default loop, one that runs none.                *)
THEOREM ReadersAreCurrent == Spec => []ServedByCurrentLoop
<1>1. TypeOK /\ CallInv => ServedByCurrentLoop
  <2> SUFFICES ASSUME CallInv, NEW t \in Threads, NEW i \in DOMAIN Frames(t)
               PROVE  Frames(t)[i].at \in ReaderLabels => Frames(t)[i].loop = CurrentLoop(t)
    BY DEF ServedByCurrentLoop
  <2>1. stack[t] \in Seq(Suspended(t)) /\ frame[t] \in Active(t)
    BY DEF CallInv, StackInv
  <2>2. Suspended(t) \subseteq Active(t)
    BY DEF Suspended
  <2>3. stack[t] \in Seq(Active(t))
    BY <2>1, <2>2, SeqMonotonic
  <2>4. Frames(t) \in Seq(Active(t))
    BY <2>1, <2>3, AppendProperties DEF Frames
  <2>5. Frames(t)[i] \in Active(t)
    BY <2>4, LenProperties, ElementOfSeq
  <2> QED BY <2>5 DEF Active, ReaderLabels, OwnLabels
<1> QED BY <1>1, TypeCorrect, PTL
-----------------------------------------------------------------------------
(* The run semaphore and the queues.                                       *)

(* The labels at which a frame holds its loop's m_operateMutex.            *)
HoldLabels == {"post", "delConnects"}

HoldInv(t) ==
  /\ frame[t].at \in HoldLabels => operateMutex[frame[t].loop] = t
  /\ \A i \in DOMAIN stack[t] : stack[t][i].at \in HoldLabels =>
       /\ operateMutex[stack[t][i].loop] = t
       /\ frame[t].at \in HoldLabels => frame[t].loop # stack[t][i].loop
       /\ \A j \in DOMAIN stack[t] :
            j # i /\ stack[t][j].at \in HoldLabels
              => stack[t][j].loop # stack[t][i].loop

MutexInv == \A t \in Threads : HoldInv(t)
-----------------------------------------------------------------------------
(* How the steps of a thread keep MutexInv.                                *)

LEMMA MutexGoto ==
  ASSUME CallInv, MutexInv, NEW t \in Threads, NEW f,
         f.at \notin HoldLabels,
         frame' = [frame EXCEPT ![t] = f], stack' = stack,
         operateMutex' = operateMutex
  PROVE  MutexInv'
BY DEF MutexInv, HoldInv, CallInv

LEMMA MutexCall ==
  ASSUME CallInv, MutexInv, NEW t \in Threads, NEW f,
         f.at \notin HoldLabels, NEW below \in Seq(Frame),
         \A i \in 1 .. Len(below) : below[i].at \in HoldLabels =>
           i = 1 /\ below[1].at = frame[t].at /\ below[1].loop = frame[t].loop,
         CallOver(t, below, f), operateMutex' = operateMutex
  PROVE  MutexInv'
<1> DEFINE s == stack[t]
           n == Len(s)
           m == Len(below)
           u == s \o below
<1>1. s \in Seq(Frame) /\ n \in Nat /\ DOMAIN s = 1 .. n /\ m \in Nat
  BY StackFacts, LenProperties
<1>2. /\ Len(u) = n + m /\ DOMAIN u = 1 .. n + m
      /\ \A i \in 1 .. n + m : u[i] = IF i <= n THEN s[i] ELSE below[i - n]
  BY <1>1, ConcatProperties, LenProperties
<1>3. HoldInv(t)
  BY DEF MutexInv
<1>4. frame' = [frame EXCEPT ![t] = f] /\ stack' = [stack EXCEPT ![t] = u]
  BY DEF CallOver
<1>5. frame'[t] = f /\ stack'[t] = u
  BY <1>4 DEF CallInv
<1> HIDE DEF s, n, m, u
<1>6. ASSUME NEW i \in 1 .. n + m, u[i].at \in HoldLabels
      PROVE  \/ i \in 1 .. n /\ u[i] = s[i]
             \/ /\ i = n + 1 /\ u[i].at = frame[t].at
                /\ u[i].loop = frame[t].loop
  <2>1. CASE i <= n
    BY <1>1, <1>2, <2>1
  <2>2. CASE ~(i <= n)
    <3>1. i - n \in 1 .. Len(below) /\ u[i] = below[i - n]
      BY <1>1, <1>2, <2>2 DEF m
    <3>2. i - n = 1 /\ below[1].at = frame[t].at /\ below[1].loop = frame[t].loop
      BY <1>6, <3>1
    <3> QED BY <1>1, <3>1, <3>2
  <2> QED BY <2>1, <2>2
<1>7. ASSUME NEW i \in 1 .. n + m, u[i].at \in HoldLabels
      PROVE  operateMutex[u[i].loop] = t
  BY <1>1, <1>3, <1>6, <1>7 DEF HoldInv, s
<1>8. ASSUME NEW i \in 1 .. n + m, u[i].at \in HoldLabels,
             NEW j \in 1 .. n + m, u[j].at \in HoldLabels, j # i
      PROVE  u[j].loop # u[i].loop
  <2>1. CASE i \in 1 .. n /\ j \in 1 .. n
    <3>1. u[i] = s[i] /\ u[j] = s[j]
      BY <1>1, <1>2, <2>1
    <3> QED BY <1>1, <1>3, <1>8, <2>1, <3>1 DEF HoldInv, s
  <2>2. CASE i \notin 1 .. n
    <3>1. i = n + 1 /\ u[i].at = frame[t].at /\ u[i].loop = frame[t].loop
      BY <1>6, <1>8, <2>2
    <3>2. j \in 1 .. n /\ u[j] = s[j]
      BY <1>6, <1>8, <3>1
    <3> QED BY <1>1, <1>3, <1>8, <3>1, <3>2 DEF HoldInv, s
  <2>3. CASE j \notin 1 .. n
    <3>1. j = n + 1 /\ u[j].at = frame[t].at /\ u[j].loop = frame[t].loop
      BY <1>6, <1>8, <2>3
    <3>2. i \in 1 .. n /\ u[i] = s[i]
      BY <1>6, <1>8, <3>1
    <3> QED BY <1>1, <1>3, <1>8, <3>1, <3>2 DEF HoldInv, s
  <2> QED BY <2>1, <2>2, <2>3
<1>9. HoldInv(t)'
  BY <1>2, <1>5, <1>7, <1>8 DEF HoldInv
<1>10. ASSUME NEW x \in Threads, x # t PROVE HoldInv(x)'
  <2>1. frame'[x] = frame[x] /\ stack'[x] = stack[x]
    BY <1>4, <1>10 DEF CallInv
  <2> QED BY <2>1 DEF MutexInv, HoldInv
<1> QED BY <1>9, <1>10 DEF MutexInv

(* Returning, with the mutex of the active frame released or not held.     *)
LEMMA MutexReturn ==
  ASSUME TypeOK, CallInv, MutexInv, NEW t \in Threads, stack[t] # <<>>,
         Return(t),
         \/ operateMutex' = operateMutex
         \/ /\ frame[t].at \in HoldLabels
            /\ operateMutex' = [operateMutex EXCEPT ![frame[t].loop] = Nil]
  PROVE  MutexInv'
<1> DEFINE s == stack[t]
           n == Len(s)
           u == SubSeq(s, 1, n - 1)
<1>1. s \in Seq(Frame) /\ n \in Nat \ {0} /\ DOMAIN s = 1 .. n
  BY StackFacts, EmptySeq
<1>2. \A i \in 1 .. n : s[i] \in Frame
  BY <1>1, ElementOfSeq
<1>3. /\ u \in Seq(Frame)
      /\ DOMAIN u = 1 .. n - 1
      /\ \A i \in 1 .. n - 1 : u[i] = s[i]
  <2>1. 1 \in Int /\ n - 1 \in Int /\ \A i \in 1 .. n - 1 : s[i] \in Frame
    BY <1>1, <1>2
  <2> HIDE DEF n
  <2>2. /\ u \in Seq(Frame)
        /\ Len(u) = IF 1 <= n - 1 THEN (n - 1) - 1 + 1 ELSE 0
        /\ \A i \in 1 .. (n - 1) - 1 + 1 : u[i] = s[1 + i - 1]
    BY <2>1, SubSeqProperties
  <2> HIDE DEF s, u
  <2>3. Len(u) = n - 1 /\ DOMAIN u = 1 .. Len(u)
    BY <1>1, <2>2, LenProperties
  <2> QED BY <1>1, <2>2, <2>3
<1>4. HoldInv(t)
  BY DEF MutexInv
<1>5. /\ frame' = [frame EXCEPT ![t] = s[n]] /\ stack' = [stack EXCEPT ![t] = u]
      /\ frame'[t] = s[n] /\ stack'[t] = u
  BY DEF Return, CallInv
<1> HIDE DEF s, n, u
<1>6. \A l \in Loops :
        operateMutex[l] \in Threads /\ operateMutex'[l] # operateMutex[l]
          => frame[t].at \in HoldLabels /\ l = frame[t].loop
             /\ operateMutex[l] = t
  <2>1. operateMutex \in [Loops -> Threads \cup {Nil}] /\ frame[t].loop \in Loops
    BY FrameFacts DEF TypeOK, DataOK, On
  <2> QED BY <1>4, <2>1 DEF HoldInv
<1>7. ASSUME NEW i \in 1 .. n, s[i].at \in HoldLabels
      PROVE  operateMutex'[s[i].loop] = t
  <2>1. s[i].loop \in Loops
    BY <1>2 DEF Frame
  <2> QED BY <1>1, <1>4, <1>6, <1>7, <2>1 DEF HoldInv, s
<1>8. ASSUME NEW i \in 1 .. n, s[i].at \in HoldLabels,
             NEW j \in 1 .. n, s[j].at \in HoldLabels, j # i
      PROVE  s[j].loop # s[i].loop
  BY <1>1, <1>4, <1>8 DEF HoldInv, s
<1>9. HoldInv(t)'
  <2>1. s[n].at \in HoldLabels => operateMutex'[s[n].loop] = t
    BY <1>1, <1>7
  <2>2. ASSUME NEW i \in 1 .. n - 1, s[i].at \in HoldLabels
        PROVE  /\ operateMutex'[s[i].loop] = t
               /\ s[n].at \in HoldLabels => s[n].loop # s[i].loop
               /\ \A j \in 1 .. n - 1 : j # i /\ s[j].at \in HoldLabels
                                          => s[j].loop # s[i].loop
    BY <1>1, <1>7, <1>8, <2>2
  <2>3. ASSUME NEW i \in DOMAIN u, u[i].at \in HoldLabels
        PROVE  /\ operateMutex'[u[i].loop] = t
               /\ s[n].at \in HoldLabels => s[n].loop # u[i].loop
               /\ \A j \in DOMAIN u : j # i /\ u[j].at \in HoldLabels
                                       => u[j].loop # u[i].loop
    <3>1. i \in 1 .. n - 1 /\ u[i] = s[i] /\ \A j \in DOMAIN u : u[j] = s[j]
      BY <1>3
    <3> QED BY <1>3, <2>2, <2>3, <3>1
  <2> QED BY <1>5, <2>1, <2>3 DEF HoldInv
<1>10. ASSUME NEW x \in Threads, x # t PROVE HoldInv(x)'
  <2>1. frame'[x] = frame[x] /\ stack'[x] = stack[x]
    BY <1>5, <1>10 DEF CallInv
  <2>2. HoldInv(x)
    BY DEF MutexInv
  <2>3. frame[x].loop \in Loops /\ \A i \in DOMAIN stack[x] : stack[x][i].loop \in Loops
    BY StackFacts, FrameFacts DEF Frame, On
  <2>4. \A l \in Loops : operateMutex[l] = x => operateMutex'[l] = x
    BY <1>6, <1>10
  <2> QED BY <2>1, <2>2, <2>3, <2>4 DEF HoldInv
<1> QED BY <1>9, <1>10 DEF MutexInv

(* Locking l and moving to label; unlocking and moving to label.           *)
LEMMA MutexLock ==
  ASSUME TypeOK, CallInv, MutexInv, NEW t \in Threads, NEW label,
         operateMutex[frame[t].loop] = Nil,
         operateMutex' = [operateMutex EXCEPT ![frame[t].loop] = t],
         Goto(t, label), stack' = stack
  PROVE  MutexInv'
<1> USE LoopAssumption
<1>1. operateMutex \in [Loops -> Threads \cup {Nil}] /\ frame[t].loop \in Loops
  BY FrameFacts DEF TypeOK, DataOK, On
<1>2. frame'[t].loop = frame[t].loop /\ frame' = [frame EXCEPT ![t].at = label]
  BY FrameFacts DEF Goto, CallInv, Frame
<1>3. ASSUME NEW x \in Threads PROVE HoldInv(x)'
  <2>1. stack'[x] = stack[x] /\ HoldInv(x) /\ (x # t => frame'[x] = frame[x])
    BY <1>2 DEF MutexInv, CallInv
  <2>2. frame[x].loop \in Loops /\ \A i \in DOMAIN stack[x] : stack[x][i].loop \in Loops
    BY StackFacts, FrameFacts DEF Frame, On
  <2>3. \A l \in Loops : operateMutex[l] = x => operateMutex'[l] = x /\ l # frame[t].loop
    BY <1>1
  <2>4. operateMutex'[frame[t].loop] = t
    BY <1>1
  <2>5. CASE x = t
    BY <1>2, <2>1, <2>2, <2>3, <2>4, <2>5 DEF HoldInv
  <2>6. CASE x # t
    BY <2>1, <2>2, <2>3, <2>6 DEF HoldInv
  <2> QED BY <2>5, <2>6
<1> QED BY <1>3 DEF MutexInv

LEMMA MutexUnlock ==
  ASSUME TypeOK, CallInv, MutexInv, NEW t \in Threads, NEW label,
         label \notin HoldLabels, frame[t].at \in HoldLabels,
         operateMutex' = [operateMutex EXCEPT ![frame[t].loop] = Nil],
         Goto(t, label), stack' = stack
  PROVE  MutexInv'
<1>1. operateMutex \in [Loops -> Threads \cup {Nil}] /\ frame[t].loop \in Loops
  BY FrameFacts DEF TypeOK, DataOK, On
<1>2. frame' = [frame EXCEPT ![t].at = label] /\ frame'[t].at = label
  BY FrameFacts DEF Goto, CallInv, Frame
<1>3. ASSUME NEW x \in Threads PROVE HoldInv(x)'
  <2>1. stack'[x] = stack[x] /\ HoldInv(x) /\ (x # t => frame'[x] = frame[x])
    BY <1>2 DEF MutexInv, CallInv
  <2>2. frame[x].loop \in Loops /\ \A i \in DOMAIN stack[x] : stack[x][i].loop \in Loops
    BY StackFacts, FrameFacts DEF Frame, On
  <2>3. operateMutex[frame[t].loop] = t
    BY DEF MutexInv, HoldInv
  <2>4. \A l \in Loops : l # frame[t].loop => operateMutex'[l] = operateMutex[l]
    BY <1>1
  <2>5. CASE x = t
    BY <1>2, <2>1, <2>2, <2>4, <2>5 DEF HoldInv
  <2>6. CASE x # t
    BY <2>1, <2>2, <2>3, <2>4, <2>6 DEF HoldInv
  <2> QED BY <2>5, <2>6
<1> QED BY <1>3 DEF MutexInv
-----------------------------------------------------------------------------
(* MutexInv is inductive.                                                  *)

LEMMA MutexGotoLabel ==
  ASSUME CallInv, MutexInv, NEW t \in Threads, NEW label,
         label \notin HoldLabels, Goto(t, label), stack' = stack,
         operateMutex' = operateMutex
  PROVE  MutexInv'
<1> DEFINE f == [frame[t] EXCEPT !.at = label]
<1>1. frame' = [frame EXCEPT ![t] = f] /\ f.at = label
  BY FrameFacts DEF Goto, CallInv, Frame
<1> HIDE DEF f
<1> QED BY <1>1, MutexGoto

LEMMA MutexExecute ==
  ASSUME CallInv, MutexInv, NEW t \in Threads, NEW e,
         Execute(t, e), stack' = stack, operateMutex' = operateMutex
  PROVE  MutexInv'
<1> DEFINE f == [frame[t] EXCEPT !.at = "exec", !.arg = e]
<1>1. frame' = [frame EXCEPT ![t] = f] /\ f.at = "exec"
  BY FrameFacts DEF Execute, CallInv, Frame
<1> HIDE DEF f
<1> QED BY <1>1, MutexGoto DEF HoldLabels

(* A call over one suspended frame that is where the caller was, or holds  *)
(* nothing.                                                                *)
LEMMA MutexCallOver ==
  ASSUME CallInv, MutexInv, NEW t \in Threads, NEW f, NEW g \in Frame,
         f.at \notin HoldLabels,
         g.at \notin HoldLabels \/ g = frame[t],
         CallOver(t, <<g>>, f), operateMutex' = operateMutex
  PROVE  MutexInv'
<1>1. <<g>> \in Seq(Frame) /\ Len(<<g>>) = 1 /\ <<g>>[1] = g
  OBVIOUS
<1>2. ASSUME NEW i \in 1 .. Len(<<g>>), <<g>>[i].at \in HoldLabels
      PROVE  /\ i = 1 /\ <<g>>[1].at = frame[t].at
             /\ <<g>>[1].loop = frame[t].loop
  BY <1>1, <1>2
<1> QED BY <1>1, <1>2, MutexCall

LEMMA MutexDisconnect ==
  ASSUME CallInv, MutexInv, NEW t \in Threads, NEW l \in Loops,
         NEW r \in Connects, DisconnectFun(t, l, r),
         operateMutex' = operateMutex
  PROVE  MutexInv'
<1> DEFINE g == FrameOf("remove", l, TaskOf(r, "unbind"))
           below == <<frame[t], g>>
<1>1. PICK s \in Loops :
        CallOver(t, below, FrameOf("push", s, TaskOf(r, "unbind")))
  BY DEF DisconnectFun
<1>2. g \in Frame /\ g.at = "remove"
  BY TaskFacts DEF FrameOf, Frame, Labels
<1>3. below \in Seq(Frame) /\ Len(below) = 2 /\ below[1] = frame[t] /\ below[2] = g
  <2> HIDE DEF g
  <2> QED BY <1>2, FrameFacts
<1>4. \A i \in 1 .. Len(below) : below[i].at \in HoldLabels =>
        i = 1 /\ below[1].at = frame[t].at /\ below[1].loop = frame[t].loop
  <2> HIDE DEF g, below
  <2> QED BY <1>2, <1>3 DEF HoldLabels
<1>5. FrameOf("push", s, TaskOf(r, "unbind")).at = "push"
  BY DEF FrameOf
<1> HIDE DEF g, below
<1> QED BY <1>1, <1>3, <1>4, <1>5, MutexCall DEF HoldLabels

LEMMA MutexNext ==
  ASSUME TypeOK, CallInv, MutexInv, [Next]_vars
  PROVE  MutexInv'
<1> USE LoopAssumption
<1>1. ASSUME NEW l \in Loops, Check(l) PROVE MutexInv'
  BY <1>1, MutexGotoLabel DEF Check, Threads, HoldLabels
<1>2. ASSUME NEW l \in Loops, Wait(l) PROVE MutexInv'
  <2> DEFINE g == [frame[l] EXCEPT !.at = "check"]
  <2>1. /\ l \in Threads /\ CallOver(l, <<g>>, Pump(l))
        /\ operateMutex' = operateMutex
    BY <1>2 DEF Wait, Threads
  <2>2. g \in Frame /\ g.at = "check" /\ Pump(l).at = "pop"
    BY <2>1, FrameFacts DEF Frame, Labels, Pump, FrameOf
  <2> HIDE DEF g
  <2> QED BY <2>1, <2>2, MutexCallOver DEF HoldLabels
<1>3. ASSUME NEW l \in Loops, Reap(l) PROVE MutexInv'
  BY <1>3, MutexGotoLabel DEF Reap, Threads, HoldLabels
<1>4. ASSUME NEW t \in Threads, PopHigh(t) PROVE MutexInv'
  BY <1>4, MutexGotoLabel, MutexExecute DEF PopHigh, HoldLabels
<1>5. ASSUME NEW t \in Threads, PopLow(t) PROVE MutexInv'
  BY <1>5, FrameFacts, MutexExecute, MutexReturn DEF PopLow, At, BaseLabels
<1>6. ASSUME NEW t \in Threads, Finish(t) \/ Pause(t) \/ Unbind(t) PROVE MutexInv'
  BY <1>6, MutexGotoLabel DEF Finish, Pause, Unbind, HoldLabels
<1>7. ASSUME NEW t \in Threads, NextEvent(t) PROVE MutexInv'
  BY <1>7, FrameFacts, MutexGotoLabel, MutexReturn
     DEF NextEvent, At, BaseLabels, HoldLabels
<1>8. ASSUME NEW t \in Threads, Push(t) PROVE MutexInv'
  BY <1>8, MutexLock DEF Push, On
<1>9. ASSUME NEW t \in Threads, Post(t) PROVE MutexInv'
  <2>1. /\ frame[t].at \in HoldLabels /\ stack[t] # <<>>
        /\ operateMutex' = [operateMutex EXCEPT ![frame[t].loop] = Nil]
    BY <1>9, FrameFacts DEF Post, At, On, BaseLabels, HoldLabels
  <2>2. Return(t) \/ (Goto(t, "ack") /\ stack' = stack)
    BY <1>9 DEF Post
  <2> QED BY <2>1, <2>2, MutexReturn, MutexUnlock DEF HoldLabels
<1>10. ASSUME NEW t \in Threads,
              \/ Ack(t) \/ EndBody(t)
              \/ AddSharedConnectBase(t) \/ RemoveSharedConnectBase(t)
       PROVE  MutexInv'
  <2>1. stack[t] # <<>> /\ Return(t) /\ operateMutex' = operateMutex
    BY <1>10, FrameFacts
       DEF Ack, EndBody, AddSharedConnectBase, RemoveSharedConnectBase, At,
           BaseLabels
  <2> QED BY <2>1, MutexReturn
<1>11. ASSUME NEW t \in Threads, ProcessFirst(t) PROVE MutexInv'
  <2> DEFINE g == [frame[t] EXCEPT !.at = "begin"]
  <2>1. g \in Frame /\ g.at = "begin" /\ Pump(On(t)).at = "pop"
    BY FrameFacts DEF Frame, Labels, Pump, FrameOf
  <2>2. \/ CallOver(t, <<g>>, Pump(On(t)))
        \/ Goto(t, "begin") /\ stack' = stack
    BY <1>11 DEF ProcessFirst
  <2>3. operateMutex' = operateMutex
    BY <1>11 DEF ProcessFirst
  <2> HIDE DEF g
  <2> QED BY <2>1, <2>2, <2>3, MutexCallOver, MutexGotoLabel DEF HoldLabels
<1>12. ASSUME NEW t \in Threads, BeginBody(t) PROVE MutexInv'
  BY <1>12, MutexGotoLabel DEF BeginBody, HoldLabels
<1>13. ASSUME NEW t \in Threads, ManualWake(t) PROVE MutexInv'
  BY <1>13, FrameFacts, MutexGotoLabel, MutexReturn
     DEF ManualWake, At, BaseLabels, HoldLabels
<1>14. ASSUME NEW t \in Threads, Register(t) PROVE MutexInv'
  <2> DEFINE g == [frame[t] EXCEPT !.at = "next"]
  <2>1. PICK l \in Loops : CallOver(t, <<g>>, FrameOf("add", l, Arg(t)))
    BY <1>14 DEF Register
  <2>2. g \in Frame /\ g.at = "next" /\ FrameOf("add", l, Arg(t)).at = "add"
    BY FrameFacts DEF Frame, Labels, PumpLabels, FrameOf
  <2>3. operateMutex' = operateMutex
    BY <1>14 DEF Register
  <2> HIDE DEF g
  <2> QED BY <2>1, <2>2, <2>3, MutexCallOver DEF HoldLabels
<1>15. ASSUME NEW t \in Threads, DelLock(t) PROVE MutexInv'
  BY <1>15, MutexLock DEF DelLock, On
<1>16. ASSUME NEW t \in Threads, DelConnects(t) PROVE MutexInv'
  <2>1. CASE connects[On(t)] \cap connAlive # {}
    <3>1. PICK r \in connects[On(t)] : DisconnectFun(t, On(t), r)
      BY <1>16, <2>1 DEF DelConnects
    <3>2. r \in Connects /\ On(t) \in Loops
      BY FrameFacts DEF TypeOK, DataOK
    <3>3. operateMutex' = operateMutex
      BY <1>16, <2>1 DEF DelConnects
    <3> QED BY <3>1, <3>2, <3>3, MutexDisconnect
  <2>2. CASE ~(connects[On(t)] \cap connAlive # {})
    BY <1>16, <2>2, MutexUnlock DEF DelConnects, At, On, HoldLabels
  <2> QED BY <2>1, <2>2
<1>17. ASSUME NEW t \in Threads, DelAlive(t) \/ DelTerminate(t) \/ DelRun(t)
       PROVE  MutexInv'
  BY <1>17, MutexGotoLabel DEF DelAlive, DelTerminate, DelRun, HoldLabels
<1>18. ASSUME NEW t \in Threads, UserCall(t) PROVE MutexInv'
  <2>1. ASSUME NEW f, f.at \notin HoldLabels, Call(t, f),
               operateMutex' = operateMutex
        PROVE  MutexInv'
    BY <2>1, FrameFacts, MutexCallOver DEF Call
  <2>2. ASSUME NEW label, label \notin HoldLabels, NEW l, NEW e,
               Submit(t, label, l, e)
        PROVE  MutexInv'
    <3>1. FrameOf(label, l, e).at = label
      BY DEF FrameOf
    <3> QED BY <2>1, <2>2, <3>1 DEF Submit
  <2>3. ASSUME NEW l \in Loops, NEW w \in Works, NEW p \in Priorities,
               Work(t, l, w, p) \/ WorkSync(t, l, w, p)
        PROVE  MutexInv'
    BY <2>2, <2>3 DEF Work, WorkSync, HoldLabels
  <2>4. ASSUME NEW l \in Loops, NEW w \in Works,
               WorkSyncOwn(t, l, w) \/ SetRunFalse(t, l, w)
        PROVE  MutexInv'
    BY <2>2, <2>4 DEF WorkSyncOwn, SetRunFalse, HoldLabels
  <2>5. ASSUME NEW l \in Loops, Process(t, l) PROVE MutexInv'
    BY <2>1, <2>5 DEF Process, Pump, FrameOf, HoldLabels
  <2>6. ASSUME NEW l \in Loops, DeleteLater(t, l) PROVE MutexInv'
    BY <2>1, <2>6 DEF DeleteLater, FrameOf, HoldLabels
  <2>7. ASSUME NEW l \in Loops, NEW op \in {"waitProcess", "waitEvent"},
               ManualWait(t, l, op)
        PROVE  MutexInv'
    BY <2>1, <2>7 DEF ManualWait, FrameOf, HoldLabels
  <2>8. ASSUME NEW r \in Connects, Connect(t, r) PROVE MutexInv'
    <3>1. PICK f : Call(t, f) /\ f.at \in {"add", "push"}
      BY <2>8 DEF Connect, FrameOf
    <3> QED BY <2>1, <2>8, <3>1 DEF Connect, HoldLabels
  <2>9. ASSUME NEW l \in Loops, NEW r \in Connects, Disconnect(t, l, r)
        PROVE  MutexInv'
    BY <2>9, MutexDisconnect DEF Disconnect
  <2>10. ASSUME UNCHANGED <<frame, stack, operateMutex>> PROVE MutexInv'
    BY <2>10 DEF MutexInv, HoldInv
  <2>11. ASSUME NEW l \in Loops, SetRunTrue(t, l) PROVE MutexInv'
    BY <2>10, <2>11 DEF SetRunTrue, callVars
  <2>12. ASSUME NEW o \in Objects, Hold(t, o) PROVE MutexInv'
    BY <2>10, <2>12 DEF Hold, callVars
  <2>13. ASSUME NEW l \in Loops, NEW r \in Refs, Drop(t, l, r) PROVE MutexInv'
    BY <2>10, <2>13 DEF Drop, callVars
  <2> QED BY <1>18, <2>3, <2>4, <2>5, <2>6, <2>7, <2>8, <2>9, <2>11, <2>12,
             <2>13 DEF UserCall
<1>19. CASE UNCHANGED vars
  BY <1>19 DEF vars, callVars, MutexInv, HoldInv
<1> QED
  BY <1>1, <1>2, <1>3, <1>4, <1>5, <1>6, <1>7, <1>8, <1>9, <1>10, <1>11,
     <1>12, <1>13, <1>14, <1>15, <1>16, <1>17, <1>18, <1>19
     DEF Next, RunStep, ThreadStep
-----------------------------------------------------------------------------
(* The count.                                                              *)

QueueLen(l) == Len(highPri[l]) + Len(events[l])

CountInv ==
  \A l \in Loops :
    /\ QueueLen(l) = runSem[l] + One(Claiming(l)) + One(Posting(l))
    /\ At(l, "low") => events[l] # <<>>

(* The labels CountInv looks at.                                           *)
CountLabels == {"pop", "low", "post"}

(* What all the steps of one thread have in common.                        *)
Moves(t) ==
  /\ frame' \in [Threads -> Frame]
  /\ \A x \in Threads \ {t} : frame'[x] = frame[x]

LEMMA GotoMoves ==
  ASSUME TypeOK, CallInv, CallInv', NEW t \in Threads, NEW label,
         Goto(t, label)
  PROVE  Moves(t) /\ frame'[t].at = label /\ frame'[t].loop = frame[t].loop
BY FrameFacts DEF Goto, Moves, CallInv, Frame

LEMMA ExecuteMoves ==
  ASSUME TypeOK, CallInv, CallInv', NEW t \in Threads, NEW e, Execute(t, e)
  PROVE  Moves(t) /\ frame'[t].at = "exec"
BY FrameFacts DEF Execute, Moves, CallInv, Frame

LEMMA CallMoves ==
  ASSUME TypeOK, CallInv, CallInv', NEW t \in Threads, NEW below, NEW f,
         CallOver(t, below, f)
  PROVE  Moves(t) /\ frame'[t] = f
BY DEF CallOver, Moves, CallInv

LEMMA ReturnMoves ==
  ASSUME TypeOK, CallInv, CallInv', NEW t \in Threads, stack[t] # <<>>,
         Return(t)
  PROVE  Moves(t) /\ frame'[t].at \notin CountLabels
BY ReturnKeeps DEF Moves, CallInv, Suspended, SuspendedLabels, CountLabels

(* With users that are disciplined, a loop's own thread claims its posts.  *)
LEMMA ClaimsOwn ==
  ASSUME Disciplined, CallInv, NEW t \in Threads,
         frame[t].at \in PumpLabels \cup {"wait", "process", "waitProcess"}
  PROVE  t \in Loops /\ On(t) = t /\ frame[t].loop = t
BY FrameFacts DEF OwnLabels, On

(* A step that touches neither the queues nor the semaphore, of a thread   *)
(* that neither claims nor posts before and after it.                      *)
LEMMA QuietKeeps ==
  ASSUME TypeOK, CallInv, CountInv, NEW t \in Threads, Moves(t),
         frame[t].at \notin CountLabels, frame'[t].at \notin CountLabels,
         highPri' = highPri, events' = events, runSem' = runSem
  PROVE  CountInv'
<1>1. ASSUME NEW l \in Loops
      PROVE  /\ Claiming(l)' <=> Claiming(l)
             /\ Posting(l)' <=> Posting(l)
             /\ At(l, "low")' <=> At(l, "low")
  BY DEF Moves, Claiming, Posting, At, On, CountLabels, Threads
<1>2. ASSUME NEW l \in Loops
      PROVE  One(Claiming(l))' = One(Claiming(l)) /\ One(Posting(l))' = One(Posting(l))
  BY <1>1 DEF One
<1> QED BY <1>1, <1>2 DEF CountInv, QueueLen

(* A step of thread t on its own loop that changes the claim.              *)
LEMMA CountStep ==
  ASSUME TypeOK, CallInv, CountInv, NEW t \in Loops, Moves(t),
         frame[t].at # "post", frame'[t].at # "post",
         \A l \in Loops \ {t} : /\ highPri'[l] = highPri[l]
                                /\ events'[l] = events[l]
                                /\ runSem'[l] = runSem[l],
         QueueLen(t)' - runSem'[t] - One(Claiming(t))'
           = QueueLen(t) - runSem[t] - One(Claiming(t)),
         QueueLen(t) \in Nat, QueueLen(t)' \in Int,
         runSem[t] \in Nat, runSem'[t] \in Nat,
         frame'[t].at = "low" => events'[t] # <<>>
  PROVE  CountInv'
<1>1. t \in Threads
  BY DEF Threads
<1>2. ASSUME NEW l \in Loops
      PROVE  /\ Posting(l)' <=> Posting(l)
             /\ l # t => (Claiming(l)' <=> Claiming(l))
             /\ l # t => (At(l, "low")' <=> At(l, "low"))
  BY <1>1 DEF Moves, Claiming, Posting, At, On, Threads
<1>3. ASSUME NEW l \in Loops
      PROVE  /\ One(Posting(l))' = One(Posting(l))
             /\ l # t => One(Claiming(l))' = One(Claiming(l))
  BY <1>2 DEF One
<1>4. ASSUME NEW l \in Loops, l # t
      PROVE  /\ QueueLen(l)' = runSem'[l] + One(Claiming(l))' + One(Posting(l))'
             /\ At(l, "low")' => events'[l] # <<>>
  BY <1>2, <1>3, <1>4 DEF CountInv, QueueLen
<1>5. /\ QueueLen(t)' = runSem'[t] + One(Claiming(t))' + One(Posting(t))'
      /\ At(t, "low")' => events'[t] # <<>>
  <2>1. QueueLen(t) = runSem[t] + One(Claiming(t)) + One(Posting(t))
    BY DEF CountInv
  <2>2. One(Claiming(t)) \in Nat /\ One(Claiming(t))' \in Nat /\ One(Posting(t)) \in Nat
    BY DEF One
  <2>3. One(Posting(t))' = One(Posting(t))
    BY <1>3
  <2>4. At(t, "low")' => events'[t] # <<>>
    BY DEF At
  <2>5. QueueLen(t)' = runSem'[t] + One(Claiming(t))' + One(Posting(t))
    <3> DEFINE q == QueueLen(t)
               b == runSem[t]
               c == One(Claiming(t))
               p == One(Posting(t))
               q1 == QueueLen(t)'
               b1 == runSem'[t]
               c1 == One(Claiming(t))'
    <3>1. q1 - b1 - c1 = q - b - c /\ q = b + c + p
      BY <2>1
    <3>2. /\ q \in Nat /\ b \in Nat /\ c \in Nat /\ p \in Nat
          /\ q1 \in Int /\ b1 \in Nat /\ c1 \in Nat
      BY <2>2
    <3> HIDE DEF q, b, c, p, q1, b1, c1
    <3>3. q1 = b1 + c1 + p
      BY <3>1, <3>2
    <3> QED BY <3>3 DEF q1, b1, c1, p
  <2> QED BY <2>3, <2>4, <2>5
<1> QED BY <1>4, <1>5 DEF CountInv

LEMMA CountTypes ==
  ASSUME TypeOK, NEW l \in Loops
  PROVE  /\ highPri[l] \in Seq(Task) /\ events[l] \in Seq(Task)
         /\ Len(highPri[l]) \in Nat /\ Len(events[l]) \in Nat
         /\ QueueLen(l) \in Nat /\ runSem[l] \in Nat
<1>1. highPri[l] \in Seq(Task) /\ events[l] \in Seq(Task) /\ runSem[l] \in Nat
  BY DEF TypeOK, DataOK
<1>2. Len(highPri[l]) \in Nat /\ Len(events[l]) \in Nat
  BY <1>1, LenProperties
<1>3. QueueLen(l) \in Nat
  <2> DEFINE a == Len(highPri[l])
             b == Len(events[l])
  <2>1. a \in Nat /\ b \in Nat
    BY <1>2
  <2> HIDE DEF a, b
  <2>2. a + b \in Nat
    BY <2>1
  <2> QED BY <2>2 DEF QueueLen, a, b
<1> QED BY <1>1, <1>2, <1>3

(* The loop's thread takes a post and goes to claim its function.          *)
LEMMA ClaimKeeps ==
  ASSUME TypeOK, TypeOK', CallInv, CountInv, NEW t \in Loops, Moves(t),
         frame[t].at \notin CountLabels, frame'[t].at = "pop", runSem[t] > 0,
         runSem' = [runSem EXCEPT ![t] = @ - 1],
         highPri' = highPri, events' = events
  PROVE  CountInv'
<1>1. /\ QueueLen(t)' = QueueLen(t) /\ runSem'[t] = runSem[t] - 1
      /\ \A l \in Loops \ {t} : runSem'[l] = runSem[l]
  BY DEF QueueLen, TypeOK, DataOK
<1>2. One(Claiming(t)) = 0 /\ One(Claiming(t))' = 1
  BY DEF One, Claiming, CountLabels
<1>3. /\ QueueLen(t) \in Nat /\ QueueLen(t)' \in Nat
      /\ runSem[t] \in Nat /\ runSem'[t] \in Nat
  BY <1>1, CountTypes
<1>4. QueueLen(t)' - runSem'[t] - One(Claiming(t))'
        = QueueLen(t) - runSem[t] - One(Claiming(t))
  BY <1>1, <1>2, <1>3
<1>5. frame[t].at # "post" /\ frame'[t].at # "post" /\ frame'[t].at # "low"
  BY DEF CountLabels
<1> QED BY <1>1, <1>3, <1>4, <1>5, CountStep

(* Arithmetic on the lengths of the two queues.                            *)
LEMMA Sums ==
  ASSUME NEW a \in Nat, NEW b \in Nat, NEW a1, NEW b1, NEW s, NEW s1,
         s = a + b, s1 = a1 + b1
  PROVE  /\ a1 = a - 1 /\ b1 = b => s1 = s - 1
         /\ a1 = a /\ b1 = b - 1 => s1 = s - 1
OBVIOUS

(* It finds the function in the ring, or in the map.                       *)
LEMMA TakeKeeps ==
  ASSUME TypeOK, TypeOK', CallInv, CountInv, NEW t \in Loops, Moves(t),
         frame[t].at \in {"pop", "low"}, frame'[t].at = "exec",
         runSem' = runSem,
         \/ /\ highPri[t] # <<>> /\ events' = events
            /\ highPri' = [highPri EXCEPT ![t] = Tail(@)]
         \/ /\ events[t] # <<>> /\ highPri' = highPri
            /\ events' = [events EXCEPT ![t] = Tail(@)]
  PROVE  CountInv'
<1>1. \A l \in Loops \ {t} : /\ highPri'[l] = highPri[l]
                             /\ events'[l] = events[l]
                             /\ runSem'[l] = runSem[l]
  BY DEF TypeOK, DataOK
<1>2. QueueLen(t)' = QueueLen(t) - 1
  <2>0. /\ Len(highPri[t]) \in Nat /\ Len(events[t]) \in Nat
        /\ QueueLen(t) = Len(highPri[t]) + Len(events[t])
        /\ QueueLen(t)' = Len(highPri'[t]) + Len(events'[t])
    BY CountTypes DEF QueueLen
  <2>1. CASE /\ highPri[t] # <<>> /\ events' = events
             /\ highPri' = [highPri EXCEPT ![t] = Tail(@)]
    <3>1. highPri'[t] = Tail(highPri[t]) /\ Len(Tail(highPri[t])) = Len(highPri[t]) - 1
      BY <2>1, CountTypes, HeadTailProperties DEF TypeOK, DataOK
    <3>2. Len(highPri'[t]) = Len(highPri[t]) - 1 /\ Len(events'[t]) = Len(events[t])
      BY <2>1, <3>1
    <3> QED BY <2>0, <3>2, Sums
  <2>2. CASE /\ events[t] # <<>> /\ highPri' = highPri
             /\ events' = [events EXCEPT ![t] = Tail(@)]
    <3>1. events'[t] = Tail(events[t]) /\ Len(Tail(events[t])) = Len(events[t]) - 1
      BY <2>2, CountTypes, HeadTailProperties DEF TypeOK, DataOK
    <3>2. Len(events'[t]) = Len(events[t]) - 1 /\ Len(highPri'[t]) = Len(highPri[t])
      BY <2>2, <3>1
    <3> QED BY <2>0, <3>2, Sums
  <2> QED BY <2>1, <2>2
<1>3. One(Claiming(t)) = 1 /\ One(Claiming(t))' = 0
  BY DEF One, Claiming
<1>4. /\ QueueLen(t) \in Nat /\ QueueLen(t)' \in Int
      /\ runSem[t] \in Nat /\ runSem'[t] \in Nat /\ runSem'[t] = runSem[t]
  <2>1. QueueLen(t) \in Nat /\ runSem[t] \in Nat
    BY CountTypes
  <2> QED BY <1>2, <2>1
<1>5. QueueLen(t)' - runSem'[t] - One(Claiming(t))'
        = QueueLen(t) - runSem[t] - One(Claiming(t))
  BY <1>2, <1>3, <1>4
<1>6. frame[t].at # "post" /\ frame'[t].at # "post" /\ frame'[t].at # "low"
  OBVIOUS
<1> QED BY <1>1, <1>4, <1>5, <1>6, CountStep

(* It finds the ring empty: then the function is in the map.               *)
LEMMA LookOnKeeps ==
  ASSUME TypeOK, TypeOK', CallInv, CountInv, NEW t \in Loops, Moves(t),
         frame[t].at = "pop", frame'[t].at = "low", highPri[t] = <<>>,
         runSem' = runSem, highPri' = highPri, events' = events
  PROVE  CountInv'
<1>1. One(Claiming(t)) = 1 /\ One(Claiming(t))' = 1
  BY DEF One, Claiming
<1>2. events'[t] # <<>>
  <2>1. QueueLen(t) = runSem[t] + 1 + One(Posting(t))
    BY <1>1 DEF CountInv
  <2>2. One(Posting(t)) \in Nat /\ Len(highPri[t]) = 0
    BY DEF One
  <2>3. Len(events[t]) # 0
    <3>1. Len(events[t]) \in Nat /\ runSem[t] \in Nat
      BY CountTypes
    <3>2. QueueLen(t) = Len(highPri[t]) + Len(events[t])
      BY DEF QueueLen
    <3> QED BY <2>1, <2>2, <3>1, <3>2
  <2> QED BY <2>3
<1>3. QueueLen(t)' = QueueLen(t)
  BY DEF QueueLen
<1>4. QueueLen(t) \in Nat /\ runSem[t] \in Nat
  BY CountTypes
<1> QED BY <1>1, <1>2, <1>3, <1>4, CountStep

(* Only one thread is between the insertion and the post of a function.    *)
LEMMA PostingAlone ==
  ASSUME TypeOK, CallInv, MutexInv, NEW t \in Threads, NEW x \in Threads,
         At(t, "post"), At(x, "post"), On(t) = On(x)
  PROVE  x = t
BY DEF MutexInv, HoldInv, HoldLabels, At, On

LEMMA OneMore ==
  ASSUME TypeOK, NEW l \in Loops,
         \/ /\ Len(highPri'[l]) = Len(highPri[l]) + 1
            /\ Len(events'[l]) = Len(events[l])
         \/ /\ Len(highPri'[l]) = Len(highPri[l])
            /\ Len(events'[l]) = Len(events[l]) + 1
  PROVE  QueueLen(l)' = QueueLen(l) + 1
<1>1. /\ Len(highPri[l]) \in Nat /\ Len(events[l]) \in Nat
      /\ QueueLen(l) = Len(highPri[l]) + Len(events[l])
      /\ QueueLen(l)' = Len(highPri'[l]) + Len(events'[l])
  BY CountTypes DEF QueueLen
<1> DEFINE a == Len(highPri[l])
           b == Len(events[l])
           q == QueueLen(l)
           a1 == Len(highPri'[l])
           b1 == Len(events'[l])
           q1 == QueueLen(l)'
<1>2. a \in Nat /\ b \in Nat /\ q = a + b /\ q1 = a1 + b1
  BY <1>1
<1>3. (a1 = a + 1 /\ b1 = b) \/ (a1 = a /\ b1 = b + 1)
  OBVIOUS
<1> HIDE DEF a, b, q, a1, b1, q1
<1>4. q1 = q + 1
  BY <1>2, <1>3
<1> QED BY <1>4 DEF q, q1

(* A function is inserted.                                                 *)
LEMMA InsertKeeps ==
  ASSUME TypeOK, TypeOK', CallInv, MutexInv, CountInv, NEW t \in Threads,
         Push(t), Moves(t), frame'[t].at = "post",
         frame'[t].loop = frame[t].loop
  PROVE  CountInv'
<1> USE LoopAssumption
<1>0. PICK l \in Loops : l = On(t)
  BY FrameFacts
<1>1. l \in Loops /\ Arg(t) \in Task /\ frame[t].at = "push" /\ runSem' = runSem
  BY FrameFacts DEF Push, At
<1>2. ~Posting(l) /\ Posting(l)'
  <2>1. operateMutex[l] = Nil
    BY <1>0 DEF Push
  <2>2. ~Posting(l)
    BY <2>1 DEF Posting, MutexInv, HoldInv, HoldLabels, At, On
  <2> QED BY <1>0, <2>2 DEF Posting, At, On
<1>3. \A k \in Loops : /\ Claiming(k)' <=> Claiming(k)
                       /\ At(k, "low")' <=> At(k, "low")
                       /\ k # l => (Posting(k)' <=> Posting(k))
  BY <1>0, <1>1 DEF Moves, Claiming, Posting, At, On, Threads
<1>4. /\ \A k \in Loops \ {l} : highPri'[k] = highPri[k] /\ events'[k] = events[k]
      /\ QueueLen(l)' = QueueLen(l) + 1
      /\ events[l] # <<>> => events'[l] # <<>>
  <2>1. CASE PushHigh(l, Arg(t))
    <3>1. /\ highPri' = [highPri EXCEPT ![l] = Append(@, Arg(t))]
          /\ events' = events
      BY <2>1 DEF PushHigh
    <3>2. Len(Append(highPri[l], Arg(t))) = Len(highPri[l]) + 1
      BY <1>1, CountTypes, AppendProperties
    <3>3. highPri'[l] = Append(highPri[l], Arg(t))
      BY <1>1, <3>1 DEF TypeOK, DataOK
    <3>4. \A k \in Loops \ {l} : highPri'[k] = highPri[k]
      BY <1>1, <3>1 DEF TypeOK, DataOK
    <3>5. QueueLen(l)' = QueueLen(l) + 1
      <4>1. /\ Len(highPri'[l]) = Len(highPri[l]) + 1
            /\ Len(events'[l]) = Len(events[l])
        BY <3>1, <3>2, <3>3
      <4> QED BY <1>1, <4>1, OneMore
    <3> QED BY <3>1, <3>4, <3>5
  <2>2. CASE PushLow(l, Arg(t))
    <3>1. PICK k \in 0 .. Len(events[l]) :
            events' = [events EXCEPT ![l] = Emplace(@, k, Arg(t))]
      BY <2>2 DEF PushLow
    <3>2. Len(Emplace(events[l], k, Arg(t))) = Len(events[l]) + 1
      BY <1>1, CountTypes, EmplaceType
    <3>3. events'[l] = Emplace(events[l], k, Arg(t)) /\ highPri' = highPri
      BY <1>1, <2>2, <3>1 DEF PushLow, TypeOK, DataOK
    <3>4. \A j \in Loops \ {l} : events'[j] = events[j]
      BY <1>1, <3>1 DEF TypeOK, DataOK
    <3>5. events'[l] # <<>>
      <4>1. Len(events'[l]) # 0
        BY <1>1, <3>2, <3>3, CountTypes
      <4> QED BY <4>1
    <3>6. QueueLen(l)' = QueueLen(l) + 1
      <4>1. /\ Len(highPri'[l]) = Len(highPri[l])
            /\ Len(events'[l]) = Len(events[l]) + 1
        BY <3>2, <3>3
      <4> QED BY <1>1, <4>1, OneMore
    <3> QED BY <3>3, <3>4, <3>5, <3>6
  <2> QED BY <1>0, <2>1, <2>2 DEF Push
<1>5. ASSUME NEW k \in Loops
      PROVE  /\ QueueLen(k) = runSem[k] + One(Claiming(k)) + One(Posting(k))
             /\ One(Claiming(k))' = One(Claiming(k))
             /\ One(Claiming(k)) \in Nat /\ runSem[k] \in Nat
  BY <1>3, CountTypes DEF One, CountInv
<1>6. /\ QueueLen(l)' = runSem'[l] + One(Claiming(l))' + One(Posting(l))'
      /\ At(l, "low")' => events'[l] # <<>>
  <2>1. One(Posting(l)) = 0 /\ One(Posting(l))' = 1
    BY <1>2 DEF One
  <2>2. runSem'[l] = runSem[l]
    BY <1>1
  <2>3. QueueLen(l)' = runSem'[l] + One(Claiming(l))' + One(Posting(l))'
    BY <1>4, <1>5, <2>1, <2>2
  <2> QED BY <1>3, <1>4, <2>3 DEF CountInv
<1>7. ASSUME NEW k \in Loops, k # l
      PROVE  /\ QueueLen(k)' = runSem'[k] + One(Claiming(k))' + One(Posting(k))'
             /\ At(k, "low")' => events'[k] # <<>>
  <2>1. One(Posting(k))' = One(Posting(k))
    BY <1>3, <1>7 DEF One
  <2>2. QueueLen(k)' = QueueLen(k)
    BY <1>4, <1>7 DEF QueueLen
  <2>3. runSem'[k] = runSem[k]
    BY <1>1
  <2>4. At(k, "low")' => events'[k] # <<>>
    BY <1>3, <1>4, <1>7 DEF CountInv
  <2> QED BY <1>5, <2>1, <2>2, <2>3, <2>4
<1> QED BY <1>6, <1>7 DEF CountInv

(* It is posted.                                                           *)
LEMMA PostKeeps ==
  ASSUME TypeOK, TypeOK', CallInv, MutexInv, CountInv, NEW t \in Threads,
         Post(t), Moves(t), frame'[t].at \notin CountLabels
  PROVE  CountInv'
<1>0. PICK l \in Loops : l = On(t)
  BY FrameFacts
<1>1. /\ l \in Loops /\ frame[t].at = "post"
      /\ highPri' = highPri /\ events' = events
  BY FrameFacts DEF Post, At, queueVars
<1>2. Posting(l) /\ ~Posting(l)'
  <2>1. \A x \in Threads : At(x, "post") /\ On(x) = l => x = t
    BY <1>0, <1>1, PostingAlone DEF At
  <2>2. Posting(l)
    BY <1>0, <1>1 DEF Posting, At
  <2>3. ASSUME NEW x \in Threads, frame'[x].at = "post", frame'[x].loop = l
        PROVE  FALSE
    BY <2>1, <2>3 DEF Moves, At, On, CountLabels
  <2> QED BY <2>2, <2>3 DEF Posting, At, On
<1>3. \A k \in Loops : /\ Claiming(k)' <=> Claiming(k)
                       /\ At(k, "low")' <=> At(k, "low")
                       /\ k # l => (Posting(k)' <=> Posting(k))
  BY <1>0, <1>1 DEF Moves, Claiming, Posting, At, On, Threads, CountLabels
<1>4. /\ runSem'[l] = runSem[l] + 1
      /\ \A k \in Loops \ {l} : runSem'[k] = runSem[k]
  BY <1>0, <1>1 DEF Post, TypeOK, DataOK
<1>5. ASSUME NEW k \in Loops
      PROVE  /\ QueueLen(k) = runSem[k] + One(Claiming(k)) + One(Posting(k))
             /\ QueueLen(k)' = QueueLen(k)
             /\ One(Claiming(k))' = One(Claiming(k))
             /\ One(Claiming(k)) \in Nat /\ runSem[k] \in Nat
             /\ At(k, "low")' => events'[k] # <<>>
  BY <1>1, <1>3, CountTypes DEF One, CountInv, QueueLen
<1>6. QueueLen(l)' = runSem'[l] + One(Claiming(l))' + One(Posting(l))'
  <2>1. One(Posting(l)) = 1 /\ One(Posting(l))' = 0
    BY <1>2 DEF One
  <2> QED BY <1>4, <1>5, <2>1
<1>7. ASSUME NEW k \in Loops, k # l
      PROVE  QueueLen(k)' = runSem'[k] + One(Claiming(k))' + One(Posting(k))'
  <2>1. One(Posting(k))' = One(Posting(k)) /\ runSem'[k] = runSem[k]
    BY <1>3, <1>4, <1>7 DEF One
  <2> QED BY <1>5, <2>1
<1> QED BY <1>5, <1>6, <1>7 DEF CountInv
-----------------------------------------------------------------------------
(* The steps that neither take a post nor touch a queue, in two groups.    *)

LEMMA QuietGoto ==
  ASSUME TypeOK, CallInv, CallInv', CountInv, NEW t \in Threads,
         NEW label, label \notin CountLabels, frame[t].at \notin CountLabels,
         Goto(t, label), UNCHANGED <<highPri, events, runSem>>
  PROVE  CountInv'
BY GotoMoves, QuietKeeps

LEMMA QuietReturn ==
  ASSUME TypeOK, CallInv, CallInv', CountInv, NEW t \in Threads,
         stack[t] # <<>>, frame[t].at \notin CountLabels, Return(t),
         UNCHANGED <<highPri, events, runSem>>
  PROVE  CountInv'
BY ReturnMoves, QuietKeeps

LEMMA QuietCall ==
  ASSUME TypeOK, CallInv, CallInv', CountInv, NEW t \in Threads,
         NEW below, NEW f, f.at \notin CountLabels,
         frame[t].at \notin CountLabels, CallOver(t, below, f),
         UNCHANGED <<highPri, events, runSem>>
  PROVE  CountInv'
BY CallMoves, QuietKeeps

LEMMA QuietUserCall ==
  ASSUME TypeOK, CallInv, CallInv', CountInv, Disciplined, NEW t \in Threads,
         UserCall(t)
  PROVE  CountInv' \/ \E l \in Loops : Process(t, l)
<1>1. ASSUME NEW f, f.at \notin CountLabels, InUserCode(t), Call(t, f),
             UNCHANGED <<highPri, events, runSem>>
      PROVE  CountInv'
  BY <1>1, QuietCall DEF Call, InUserCode, At, CountLabels
<1>2. ASSUME NEW label, label \notin CountLabels, NEW l, NEW e, InUserCode(t),
             Submit(t, label, l, e)
      PROVE  CountInv'
  <2>1. FrameOf(label, l, e).at = label
    BY DEF FrameOf
  <2> QED BY <1>1, <1>2, <2>1 DEF Submit, queueVars
<1>3. ASSUME NEW l \in Loops, NEW w \in Works, NEW p \in Priorities,
             Work(t, l, w, p) \/ WorkSync(t, l, w, p)
      PROVE  CountInv'
  BY <1>2, <1>3 DEF Work, WorkSync, May, CountLabels
<1>4. ASSUME NEW l \in Loops, NEW w \in Works,
             WorkSyncOwn(t, l, w) \/ SetRunFalse(t, l, w)
      PROVE  CountInv'
  BY <1>2, <1>4 DEF WorkSyncOwn, SetRunFalse, May, CountLabels
<1>5. ASSUME NEW l \in Loops, DeleteLater(t, l) PROVE CountInv'
  BY <1>1, <1>5 DEF DeleteLater, May, FrameOf, CountLabels, queueVars
<1>6. ASSUME NEW l \in Loops, NEW op \in {"waitProcess", "waitEvent"},
             ManualWait(t, l, op)
      PROVE  CountInv'
  BY <1>1, <1>6 DEF ManualWait, May, FrameOf, CountLabels, queueVars
<1>7. ASSUME NEW r \in Connects, Connect(t, r) PROVE CountInv'
  <2>1. PICK f : Call(t, f) /\ f.at \in {"add", "push"}
    BY <1>7 DEF Connect, FrameOf
  <2> QED BY <1>1, <1>7, <2>1 DEF Connect, May, CountLabels, queueVars
<1>8. ASSUME NEW l \in Loops, NEW r \in Connects, Disconnect(t, l, r)
      PROVE  CountInv'
  <2>1. PICK below, f : CallOver(t, below, f) /\ f.at = "push"
    BY <1>8 DEF Disconnect, DisconnectFun, FrameOf
  <2>2. frame[t].at \notin CountLabels
    BY <1>8 DEF Disconnect, May, InUserCode, At, CountLabels
  <2> QED BY <1>8, <2>1, <2>2, QuietCall DEF Disconnect, CountLabels, queueVars
<1>9. ASSUME UNCHANGED <<frame, highPri, events, runSem>> PROVE CountInv'
  BY <1>9 DEF CountInv, QueueLen, Claiming, Posting, One, At, On
<1>10. ASSUME NEW l \in Loops, SetRunTrue(t, l) PROVE CountInv'
  BY <1>9, <1>10 DEF SetRunTrue, callVars, queueVars
<1>11. ASSUME NEW o \in Objects, Hold(t, o) PROVE CountInv'
  BY <1>9, <1>11 DEF Hold, callVars, queueVars
<1>12. ASSUME NEW l \in Loops, NEW r \in Refs, Drop(t, l, r) PROVE CountInv'
  BY <1>9, <1>12 DEF Drop, callVars, queueVars
<1> QED BY <1>3, <1>4, <1>5, <1>6, <1>7, <1>8, <1>10, <1>11, <1>12 DEF UserCall

LEMMA CountNext ==
  ASSUME Disciplined, TypeOK, CallInv, MutexInv, CountInv, [Next]_vars
  PROVE  CountInv'
<1> USE LoopAssumption
<1>0. TypeOK' /\ CallInv'
  BY CallNext, DataNext DEF TypeOK, CallInv
<1>1. ASSUME NEW l \in Loops, Check(l) \/ Reap(l) PROVE CountInv'
  BY <1>0, <1>1, QuietGoto
     DEF Check, Reap, At, Threads, CountLabels, queueVars
<1>2. ASSUME NEW l \in Loops, Wait(l) PROVE CountInv'
  <2>1. /\ frame[l].at \notin CountLabels /\ runSem[l] > 0
        /\ runSem' = [runSem EXCEPT ![l] = @ - 1]
        /\ highPri' = highPri /\ events' = events /\ l \in Threads
    BY <1>2 DEF Wait, At, CountLabels, queueVars, Threads
  <2>2. PICK below : CallOver(l, below, Pump(l))
    BY <1>2 DEF Wait
  <2>3. Moves(l) /\ frame'[l].at = "pop"
    BY <1>0, <2>1, <2>2, CallMoves DEF Pump, FrameOf
  <2> QED BY <1>0, <2>1, <2>3, ClaimKeeps
<1>3. ASSUME NEW t \in Threads, PopHigh(t) PROVE CountInv'
  <2>1. /\ t \in Loops /\ On(t) = t /\ frame[t].at = "pop"
        /\ runSem' = runSem /\ events' = events
    BY <1>3, ClaimsOwn DEF PopHigh, At, PumpLabels
  <2>2. CASE highPri[t] # <<>>
    <3>1. /\ Execute(t, Head(highPri[t]))
          /\ highPri' = [highPri EXCEPT ![t] = Tail(@)]
      BY <1>3, <2>1, <2>2 DEF PopHigh
    <3>2. Moves(t) /\ frame'[t].at = "exec"
      BY <1>0, <3>1, ExecuteMoves
    <3> QED BY <1>0, <2>1, <2>2, <3>1, <3>2, TakeKeeps
  <2>3. CASE highPri[t] = <<>>
    <3>1. Goto(t, "low") /\ highPri' = highPri
      BY <1>3, <2>1, <2>3 DEF PopHigh
    <3>2. Moves(t) /\ frame'[t].at = "low"
      BY <1>0, <3>1, GotoMoves
    <3> QED BY <1>0, <2>1, <2>3, <3>1, <3>2, LookOnKeeps
  <2> QED BY <2>2, <2>3
<1>4. ASSUME NEW t \in Threads, PopLow(t) PROVE CountInv'
  <2>1. /\ t \in Loops /\ On(t) = t /\ frame[t].at = "low"
        /\ runSem' = runSem /\ highPri' = highPri
    BY <1>4, ClaimsOwn DEF PopLow, At, PumpLabels
  <2>2. events[t] # <<>>
    BY <2>1 DEF CountInv, At
  <2>3. /\ Execute(t, Head(events[t]))
        /\ events' = [events EXCEPT ![t] = Tail(@)]
    BY <1>4, <2>1, <2>2 DEF PopLow
  <2>4. Moves(t) /\ frame'[t].at = "exec"
    BY <1>0, <2>3, ExecuteMoves
  <2> QED BY <1>0, <2>1, <2>2, <2>3, <2>4, TakeKeeps
<1>5. ASSUME NEW t \in Threads, Finish(t) \/ Pause(t) \/ Unbind(t)
      PROVE  CountInv'
  BY <1>0, <1>5, QuietGoto
     DEF Finish, Pause, Unbind, At, CountLabels, queueVars
<1>6. ASSUME NEW t \in Threads, NextEvent(t) PROVE CountInv'
  <2>1. /\ t \in Loops /\ On(t) = t /\ frame[t].at = "next"
        /\ highPri' = highPri /\ events' = events
    BY <1>6, ClaimsOwn DEF NextEvent, At, PumpLabels, queueVars
  <2>2. CASE runSem[t] > 0
    <3>1. runSem' = [runSem EXCEPT ![t] = @ - 1] /\ Goto(t, "pop")
      BY <1>6, <2>1, <2>2 DEF NextEvent
    <3>2. Moves(t) /\ frame'[t].at = "pop"
      BY <1>0, <3>1, GotoMoves
    <3> QED BY <1>0, <2>1, <2>2, <3>1, <3>2, ClaimKeeps DEF CountLabels
  <2>3. CASE ~(runSem[t] > 0)
    <3>1. Return(t) /\ runSem' = runSem
      BY <1>6, <2>1, <2>3 DEF NextEvent
    <3>2. stack[t] # <<>>
      BY <2>1, FrameFacts DEF BaseLabels
    <3> QED BY <1>0, <2>1, <3>1, <3>2, QuietReturn DEF CountLabels
  <2> QED BY <2>2, <2>3
<1>7. ASSUME NEW t \in Threads, Push(t) PROVE CountInv'
  <2>1. Goto(t, "post")
    BY <1>7 DEF Push
  <2>2. Moves(t) /\ frame'[t].at = "post" /\ frame'[t].loop = frame[t].loop
    BY <1>0, <2>1, GotoMoves
  <2> QED BY <1>0, <1>7, <2>2, InsertKeeps
<1>8. ASSUME NEW t \in Threads, Post(t) PROVE CountInv'
  <2>1. stack[t] # <<>> /\ (Return(t) \/ Goto(t, "ack"))
    BY <1>8, FrameFacts DEF Post, At, BaseLabels
  <2>2. Moves(t) /\ frame'[t].at \notin CountLabels
    BY <1>0, <2>1, GotoMoves, ReturnMoves DEF CountLabels
  <2> QED BY <1>0, <1>8, <2>2, PostKeeps
<1>9. ASSUME NEW t \in Threads,
             \/ Ack(t) \/ EndBody(t)
             \/ AddSharedConnectBase(t) \/ RemoveSharedConnectBase(t)
      PROVE  CountInv'
  <2>1. /\ stack[t] # <<>> /\ frame[t].at \notin CountLabels /\ Return(t)
        /\ UNCHANGED <<highPri, events, runSem>>
    BY <1>9, FrameFacts
       DEF Ack, EndBody, AddSharedConnectBase, RemoveSharedConnectBase, At,
           BaseLabels, CountLabels, queueVars
  <2> QED BY <1>0, <2>1, QuietReturn
<1>10. ASSUME NEW t \in Threads, ProcessFirst(t) PROVE CountInv'
  <2>1. /\ t \in Loops /\ On(t) = t /\ frame[t].at = "process"
        /\ highPri' = highPri /\ events' = events
    BY <1>10, ClaimsOwn DEF ProcessFirst, At, queueVars
  <2>2. CASE runSem[t] > 0
    <3>1. PICK below : CallOver(t, below, Pump(t))
      BY <1>10, <2>1, <2>2 DEF ProcessFirst
    <3>2. Moves(t) /\ frame'[t].at = "pop"
      BY <1>0, <3>1, CallMoves DEF Pump, FrameOf
    <3>3. runSem' = [runSem EXCEPT ![t] = @ - 1]
      BY <1>10, <2>1, <2>2 DEF ProcessFirst
    <3> QED BY <1>0, <2>1, <2>2, <3>2, <3>3, ClaimKeeps DEF CountLabels
  <2>3. CASE ~(runSem[t] > 0)
    <3>1. Goto(t, "begin") /\ runSem' = runSem
      BY <1>10, <2>1, <2>3 DEF ProcessFirst
    <3> QED BY <1>0, <2>1, <3>1, QuietGoto DEF CountLabels
  <2> QED BY <2>2, <2>3
<1>11. ASSUME NEW t \in Threads, BeginBody(t) \/ DelLock(t) \/ DelAlive(t)
                                 \/ DelTerminate(t) \/ DelRun(t)
       PROVE  CountInv'
  BY <1>0, <1>11, QuietGoto
     DEF BeginBody, DelLock, DelAlive, DelTerminate, DelRun, At, CountLabels,
         queueVars
<1>12. ASSUME NEW t \in Threads, ManualWake(t) PROVE CountInv'
  <2>1. /\ frame[t].at = "waitProcess" /\ Goto(t, "pop")
        /\ highPri' = highPri /\ events' = events
    BY <1>12, FrameFacts DEF ManualWake, At, queueVars
  <2>2. /\ t \in Loops /\ On(t) = t
    BY <2>1, ClaimsOwn
  <2>3. runSem[t] > 0 /\ runSem' = [runSem EXCEPT ![t] = @ - 1]
    BY <1>12, <2>2 DEF ManualWake
  <2>4. Moves(t) /\ frame'[t].at = "pop"
    BY <1>0, <2>1, GotoMoves
  <2> QED BY <1>0, <2>1, <2>2, <2>3, <2>4, ClaimKeeps DEF CountLabels
<1>13. ASSUME NEW t \in Threads, Register(t) PROVE CountInv'
  <2>1. PICK below, f : CallOver(t, below, f) /\ f.at = "add"
    BY <1>13 DEF Register, FrameOf
  <2> QED BY <1>0, <1>13, <2>1, QuietCall
          DEF Register, At, CountLabels, queueVars
<1>14. ASSUME NEW t \in Threads, DelConnects(t) PROVE CountInv'
  <2>0. ASSUME NEW l, NEW r, DisconnectFun(t, l, r)
        PROVE  \E below, f : CallOver(t, below, f) /\ f.at = "push"
    <3>1. PICK s \in Loops :
            CallOver(t, <<frame[t], FrameOf("remove", l, TaskOf(r, "unbind"))>>,
                     FrameOf("push", s, TaskOf(r, "unbind")))
      BY <2>0 DEF DisconnectFun
    <3> QED BY <3>1 DEF FrameOf
  <2>1. \/ Goto(t, "delAlive")
        \/ \E below, f : CallOver(t, below, f) /\ f.at = "push"
    BY <1>14, <2>0 DEF DelConnects
  <2>2. /\ frame[t].at \notin CountLabels
        /\ UNCHANGED <<highPri, events, runSem>>
    BY <1>14 DEF DelConnects, At, CountLabels, queueVars
  <2> QED BY <1>0, <2>1, <2>2, QuietGoto, QuietCall DEF CountLabels
<1>15. ASSUME NEW t \in Threads, UserCall(t) PROVE CountInv'
  <2>1. ASSUME NEW l \in Loops, Process(t, l) PROVE CountInv'
    <3>1. /\ l = t /\ frame[t].at \notin CountLabels /\ runSem[t] > 0
          /\ runSem' = [runSem EXCEPT ![t] = @ - 1]
          /\ highPri' = highPri /\ events' = events
      BY <2>1, OwnCall
         DEF Process, May, InUserCode, At, CountLabels, queueVars
    <3>2. Moves(t) /\ frame'[t].at = "pop"
      BY <1>0, <2>1, <3>1, CallMoves DEF Process, Call, Pump, FrameOf
    <3> QED BY <1>0, <3>1, <3>2, ClaimKeeps
  <2> QED BY <1>0, <1>15, <2>1, QuietUserCall
<1>16. CASE UNCHANGED vars
  BY <1>16 DEF vars, callVars, queueVars, CountInv, QueueLen, Claiming,
               Posting, One, At, On
<1> QED
  BY <1>1, <1>2, <1>3, <1>4, <1>5, <1>6, <1>7, <1>8, <1>9, <1>10, <1>11,
     <1>12, <1>13, <1>14, <1>15, <1>16
     DEF Next, RunStep, ThreadStep
-----------------------------------------------------------------------------
LEMMA CountInit == Init => MutexInv /\ CountInv
<1> SUFFICES ASSUME Init PROVE MutexInv /\ CountInv
  OBVIOUS
<1>1. ASSUME NEW t \in Threads
      PROVE  frame[t].at \in {"check", "user"} /\ stack[t] = <<>>
  BY <1>1 DEF Init, FrameOf
<1>2. MutexInv
  BY <1>1, EmptySeq DEF MutexInv, HoldInv, HoldLabels
<1>3. ASSUME NEW l \in Loops
      PROVE  /\ QueueLen(l) = runSem[l] + One(Claiming(l)) + One(Posting(l))
             /\ At(l, "low") => events[l] # <<>>
  <2>1. l \in Threads /\ ~Claiming(l) /\ ~Posting(l) /\ ~At(l, "low")
    BY <1>1 DEF Threads, Claiming, Posting, At
  <2>2. Len(highPri[l]) = 0 /\ Len(events[l]) = 0 /\ runSem[l] = 0
    BY EmptySeq DEF Init
  <2> QED BY <2>1, <2>2 DEF QueueLen, One
<1> QED BY <1>2, <1>3 DEF CountInv

(* With disciplined users the run semaphore of every loop counts its       *)
(* queued functions, up to the one its thread is taking and the one a      *)
(* caller has inserted and not yet posted.  So the wait of run() is never  *)
(* woken for nothing, and no function stays behind in an idle loop.        *)
THEOREM DisciplinedPostPerFunction ==
  ASSUME Disciplined
  PROVE  Spec => []PostPerFunction
<1>1. TypeOK /\ CallInv /\ MutexInv /\ CountInv /\ [Next]_vars
        => (TypeOK /\ CallInv /\ MutexInv /\ CountInv)'
  <2> SUFFICES ASSUME TypeOK, CallInv, MutexInv, CountInv, [Next]_vars
               PROVE  (TypeOK /\ CallInv /\ MutexInv /\ CountInv)'
    OBVIOUS
  <2>1. TypeOK' /\ CallInv'
    BY CallNext, DataNext DEF TypeOK, CallInv
  <2>2. MutexInv' /\ CountInv'
    BY MutexNext, CountNext
  <2> QED BY <2>1, <2>2
<1>2. CountInv => PostPerFunction
  BY DEF CountInv, PostPerFunction, QueueLen
<1> QED BY <1>1, <1>2, InitOK, CountInit, PTL DEF Spec
-----------------------------------------------------------------------------
(***************************************************************************)
(* What outlives its users, for any users at all: a loop its owners        *)
(* (RefsKeepLoop), a loop its connections (RegistrationTouchesLiveLoop),   *)
(* the local semaphore of workSync the function that posts it              *)
(* (SyncCallerWaits).                                                      *)
(*                                                                         *)
(* The first needs to know what a post of m_deleteSem promises the thread  *)
(* that deletes the loop: whoever posts it was the last owner of           *)
(* m_sharedAlive, and since a copy is only ever made from the library's    *)
(* own one, which is gone by then, nobody can become an owner between the  *)
(* post and the delete (LifeInv).                                          *)
(*                                                                         *)
(* The second adds that a frame that enters or removes a connection does   *)
(* so in a loop the connection refers to, and that the connection stays    *)
(* one of its referrers as long as anything refers to the connection       *)
(* (RegInv): either it owns a share, or it was made too late to get one.   *)
(*                                                                         *)
(* The third needs that a function handed over is in at most one place: a  *)
(* function left behind anywhere when workSync returns could post the      *)
(* semaphore again (OnceInv, SyncInv).                                     *)
(***************************************************************************)

LifeInv ==
  \A l \in Loops :
    deleteSem[l] > 0 \/ freed[l] => holders[l] = {} /\ ~sharedAlive[l]

(* A step that leaves the owners and the posts of m_deleteSem alone.       *)
LEMMA LifeKept ==
  ASSUME LifeInv, UNCHANGED <<deleteSem, freed, holders, sharedAlive>>
  PROVE  LifeInv'
BY DEF LifeInv

(* An owner is added while the library still holds its own copy; after     *)
(* that nobody becomes one.                                                *)
LEMMA AcquireKeeps ==
  ASSUME TypeOK, LifeInv, NEW l \in Loops, NEW r, Acquire(l, r),
         UNCHANGED <<deleteSem, freed, sharedAlive>>
  PROVE  LifeInv'
<1>1. CASE sharedAlive[l]
  BY <1>1 DEF LifeInv, Acquire, TypeOK, DataOK
<1>2. CASE ~sharedAlive[l]
  BY <1>2, LifeKept DEF Acquire
<1> QED BY <1>1, <1>2

(* Somebody gives up a copy of l's m_sharedAlive: the library if alive     *)
(* becomes FALSE, another owner if holders shrinks to others.              *)
LEMMA ReleaseKeeps ==
  ASSUME TypeOK, LifeInv, NEW l \in Loops, NEW others \in SUBSET holders[l],
         NEW alive \in BOOLEAN, alive => sharedAlive[l],
         holders' = [holders EXCEPT ![l] = others],
         sharedAlive' = [sharedAlive EXCEPT ![l] = alive],
         PostIfLast(l, others, alive), UNCHANGED freed
  PROVE  LifeInv'
<1>1. /\ deleteSem \in [Loops -> Nat]
      /\ holders'[l] = others /\ sharedAlive'[l] = alive
      /\ \A m \in Loops \ {l} : /\ holders'[m] = holders[m]
                                /\ sharedAlive'[m] = sharedAlive[m]
  BY DEF TypeOK, DataOK
<1>2. CASE others = {} /\ ~alive
  BY <1>1, <1>2 DEF LifeInv, PostIfLast
<1>3. CASE ~(others = {} /\ ~alive)
  BY <1>1, <1>3 DEF LifeInv, PostIfLast
<1> QED BY <1>2, <1>3

(* LifeInv is inductive.                                                   *)
LEMMA LifeNext ==
  ASSUME TypeOK, CallInv, LifeInv, [Next]_vars
  PROVE  LifeInv'
<1>1. ASSUME NEW l \in Loops, Check(l) \/ Wait(l) PROVE LifeInv'
  BY <1>1, LifeKept DEF Check, Wait, lifeVars, refVars, ownVars
<1>2. ASSUME NEW l \in Loops, Reap(l) PROVE LifeInv'
  BY <1>2 DEF Reap, LifeInv, TypeOK, DataOK, refVars, ownVars
<1>3. ASSUME NEW t \in Threads,
             \/ PopHigh(t) \/ PopLow(t) \/ Finish(t) \/ Pause(t)
             \/ NextEvent(t) \/ Push(t) \/ Post(t) \/ Ack(t)
             \/ ProcessFirst(t) \/ BeginBody(t) \/ EndBody(t) \/ ManualWake(t)
      PROVE  LifeInv'
  BY <1>3, LifeKept
     DEF PopHigh, PopLow, Finish, Pause, NextEvent, Push, Post, Ack,
         ProcessFirst, BeginBody, EndBody, ManualWake, lifeVars, refVars, ownVars
<1>4. ASSUME NEW t \in Threads,
             \/ Register(t) \/ AddSharedConnectBase(t)
             \/ Unbind(t) \/ RemoveSharedConnectBase(t)
             \/ DelLock(t) \/ DelConnects(t) \/ DelTerminate(t) \/ DelRun(t)
      PROVE  LifeInv'
  BY <1>4, LifeKept
     DEF Register, AddSharedConnectBase, Unbind, RemoveSharedConnectBase,
         DelLock, DelConnects, DelTerminate, DelRun, lifeVars, refVars, ownVars
<1>5. ASSUME NEW t \in Threads, DelAlive(t) PROVE LifeInv'
  <2>1. PICK l \in Loops : l = On(t)
    BY FrameFacts
  <2>2. /\ holders' = [holders EXCEPT ![l] = holders[l]]
        /\ sharedAlive' = [sharedAlive EXCEPT ![l] = FALSE]
        /\ PostIfLast(l, holders[l], FALSE) /\ UNCHANGED freed
    BY <1>5, <2>1 DEF DelAlive, refVars, ownVars, TypeOK, DataOK
  <2> QED BY <2>2, ReleaseKeeps
<1>6. ASSUME NEW t \in Threads, UserCall(t) PROVE LifeInv'
  <2>1. ASSUME NEW label, NEW l, NEW e, Submit(t, label, l, e) PROVE LifeInv'
    BY <2>1, LifeKept DEF Submit, lifeVars, refVars, ownVars
  <2>2. ASSUME NEW l \in Loops, NEW w \in Works, NEW p \in Priorities,
               Work(t, l, w, p) \/ WorkSync(t, l, w, p)
        PROVE  LifeInv'
    BY <2>1, <2>2 DEF Work, WorkSync
  <2>3. ASSUME NEW l \in Loops, NEW w \in Works,
               WorkSyncOwn(t, l, w) \/ SetRunFalse(t, l, w)
        PROVE  LifeInv'
    BY <2>1, <2>3 DEF WorkSyncOwn, SetRunFalse
  <2>4. ASSUME NEW l \in Loops,
               SetRunTrue(t, l) \/ Process(t, l) \/ DeleteLater(t, l)
        PROVE  LifeInv'
    BY <2>4, LifeKept DEF SetRunTrue, Process, DeleteLater, lifeVars, refVars, ownVars
  <2>5. ASSUME NEW l \in Loops, NEW op \in {"waitProcess", "waitEvent"},
               ManualWait(t, l, op)
        PROVE  LifeInv'
    BY <2>5, LifeKept DEF ManualWait, lifeVars, refVars, ownVars
  <2>6. ASSUME NEW o \in Objects, Hold(t, o) PROVE LifeInv'
    BY <2>6, AcquireKeeps, LoopAssumption
       DEF Hold, CurrentLoop, lifeVars
  <2>7. ASSUME NEW l \in Loops, NEW r \in Refs, Drop(t, l, r) PROVE LifeInv'
    <3>1. CASE UNCHANGED <<holders, deleteSem>>
      BY <2>7, <3>1, LifeKept DEF Drop
    <3>2. CASE /\ holders' = [holders EXCEPT ![l] = @ \ {r}]
               /\ PostIfLast(l, holders[l] \ {r}, sharedAlive[l])
      <4>1. /\ holders' = [holders EXCEPT ![l] = holders[l] \ {r}]
            /\ sharedAlive' = [sharedAlive EXCEPT ![l] = sharedAlive[l]]
            /\ UNCHANGED freed
        BY <2>7, <3>2 DEF Drop, TypeOK, DataOK
      <4>2. sharedAlive[l] \in BOOLEAN
        BY DEF TypeOK, DataOK
      <4> QED BY <3>2, <4>1, <4>2, ReleaseKeeps
    <3> QED BY <2>7, <3>1, <3>2 DEF Drop
  <2>8. ASSUME NEW r \in Connects, Connect(t, r) PROVE LifeInv'
    BY <2>8, AcquireKeeps, LoopAssumption
       DEF Connect, CurrentLoop, lifeVars
  <2>9. ASSUME NEW l \in Loops, NEW r \in Connects, Disconnect(t, l, r)
        PROVE  LifeInv'
    BY <2>9, LifeKept DEF Disconnect, lifeVars, ownVars
  <2> QED BY <1>6, <2>2, <2>3, <2>4, <2>5, <2>6, <2>7, <2>8, <2>9 DEF UserCall
<1>7. CASE UNCHANGED vars
  BY <1>7, LifeKept DEF vars, lifeVars, refVars, ownVars
<1> QED
  BY <1>1, <1>2, <1>3, <1>4, <1>5, <1>6, <1>7 DEF Next, RunStep, ThreadStep

(* LifeInv holds in every state.                                           *)
LEMMA LifeInvariant == Spec => []LifeInv
<1>1. Init => LifeInv
  BY DEF Init, LifeInv
<1>2. TypeOK /\ CallInv /\ LifeInv /\ [Next]_vars => LifeInv'
  BY LifeNext
<1> QED BY <1>1, <1>2, TypeCorrect, PTL DEF Spec

(* A loop is deleted only when nobody owns a copy of its m_sharedAlive any *)
(* more, the library included, and nobody becomes an owner afterwards:     *)
(* whatever users call, in any order and from any thread.                  *)
THEOREM OwnersKeepLoop == Spec => []RefsKeepLoop
<1>1. LifeInv => RefsKeepLoop
  BY DEF LifeInv, RefsKeepLoop
<1> QED BY <1>1, LifeInvariant, PTL
-----------------------------------------------------------------------------
(* Connections keep their receiver's loop.                                 *)

(* The frames that enter or remove a connection do so in a loop that the   *)
(* connection refers to, with a share of it or without.                    *)
Registering(f) == f.at \in {"add", "remove"} => f.arg.id \in Referrers(f.loop)

HeldFrames == {f \in Frame : Registering(f)}

RegInv ==
  /\ \A l \in Loops : connects[l] \subseteq Referrers(l)
  /\ frame \in [Threads -> HeldFrames]
  /\ stack \in [Threads -> Seq(HeldFrames)]

(* How a step that changes the frames of a thread keeps them in a set S.   *)
LEMMA GotoIn ==
  ASSUME NEW S, frame \in [Threads -> S], stack \in [Threads -> Seq(S)],
         NEW t \in Threads, NEW f \in S,
         frame' = [frame EXCEPT ![t] = f], stack' = stack
  PROVE  frame' \in [Threads -> S] /\ stack' \in [Threads -> Seq(S)]
OBVIOUS

(* A call.                                                                 *)
LEMMA CallIn ==
  ASSUME NEW S, frame \in [Threads -> S], stack \in [Threads -> Seq(S)],
         NEW t \in Threads, NEW f \in S, NEW below \in Seq(S),
         CallOver(t, below, f)
  PROVE  frame' \in [Threads -> S] /\ stack' \in [Threads -> Seq(S)]
<1>1. stack[t] \o below \in Seq(S)
  BY ConcatProperties
<1> QED BY <1>1 DEF CallOver

(* A return.                                                               *)
LEMMA ReturnIn ==
  ASSUME NEW S, frame \in [Threads -> S], stack \in [Threads -> Seq(S)],
         NEW t \in Threads, stack[t] # <<>>, Return(t)
  PROVE  frame' \in [Threads -> S] /\ stack' \in [Threads -> Seq(S)]
<1> DEFINE s == stack[t]
           n == Len(s)
           u == SubSeq(s, 1, n - 1)
<1>1. s \in Seq(S) /\ n \in Nat \ {0}
  BY EmptySeq, LenProperties
<1>2. \A i \in 1 .. n : s[i] \in S
  BY <1>1, ElementOfSeq
<1>3. u \in Seq(S)
  <2>1. 1 \in Int /\ n - 1 \in Int /\ \A i \in 1 .. n - 1 : s[i] \in S
    BY <1>1, <1>2
  <2> HIDE DEF n
  <2> QED BY <2>1, SubSeqProperties
<1>4. s[n] \in S
  BY <1>1, <1>2
<1>5. frame' = [frame EXCEPT ![t] = s[n]] /\ stack' = [stack EXCEPT ![t] = u]
  BY DEF Return
<1> HIDE DEF s, n, u
<1> QED BY <1>3, <1>4, <1>5

(* A step that leaves the owners alone.                                    *)
LEMMA RegMoves ==
  ASSUME RegInv, UNCHANGED ownVars,
         frame' \in [Threads -> HeldFrames],
         stack' \in [Threads -> Seq(HeldFrames)],
         \A l \in Loops : connects'[l] \subseteq Referrers(l)
  PROVE  RegInv'
<1>1. \A l \in Loops : Referrers(l)' = Referrers(l)
  BY DEF Referrers, ownVars
<1>2. HeldFrames' = HeldFrames
  BY <1>1 DEF HeldFrames, Registering, Frame
<1> QED BY <1>1, <1>2 DEF RegInv

(* Acquire adds a referrer.                                                *)
LEMMA AcquireAdds ==
  ASSUME holders \in [Loops -> SUBSET Refs], bare \in [Loops -> SUBSET Refs],
         NEW l \in Loops, NEW r, Acquire(l, r)
  PROVE  /\ \A m \in Loops : Referrers(m) \subseteq Referrers(m)'
         /\ r \in Referrers(l)'
<1>1. CASE sharedAlive[l]
  BY <1>1 DEF Acquire, Referrers
<1>2. CASE ~sharedAlive[l]
  BY <1>2 DEF Acquire, Referrers
<1> QED BY <1>1, <1>2

(* Owners are only added, the frames stay.                                 *)
LEMMA RegQuiet ==
  ASSUME RegInv, UNCHANGED <<frame, stack, connects>>,
         \A l \in Loops : Referrers(l) \subseteq Referrers(l)'
  PROVE  RegInv'
<1>1. HeldFrames \subseteq HeldFrames'
  BY DEF HeldFrames, Registering, Frame
<1>2. Seq(HeldFrames) \subseteq Seq(HeldFrames')
  BY <1>1, SeqMonotonic
<1> QED BY <1>1, <1>2 DEF RegInv

(* A thread moves on.                                                      *)
LEMMA RegGoto ==
  ASSUME CallInv, CallInv', RegInv, NEW t \in Threads,
         NEW label, label \notin {"add", "remove"}, Goto(t, label),
         UNCHANGED <<stack, connects, ownVars>>
  PROVE  RegInv'
<1> DEFINE f == [frame[t] EXCEPT !.at = label]
<1>1. frame' = [frame EXCEPT ![t] = f] /\ f.at = label /\ f = frame'[t]
  BY FrameFacts DEF Goto, CallInv, Frame
<1>2. f \in HeldFrames
  <2>1. f \in Frame
    BY <1>1 DEF CallInv
  <2> HIDE DEF f
  <2> QED BY <1>1, <2>1 DEF HeldFrames, Registering
<1> HIDE DEF f
<1>3. frame \in [Threads -> HeldFrames] /\ stack \in [Threads -> Seq(HeldFrames)]
  BY DEF RegInv
<1>4. frame' \in [Threads -> HeldFrames] /\ stack' \in [Threads -> Seq(HeldFrames)]
  BY <1>1, <1>2, <1>3
<1> QED BY <1>4, RegMoves DEF RegInv

(* A thread takes up a function.                                           *)
LEMMA RegExecute ==
  ASSUME CallInv, CallInv', RegInv, NEW t \in Threads, NEW e,
         Execute(t, e), UNCHANGED <<stack, connects, ownVars>>
  PROVE  RegInv'
<1> DEFINE f == [frame[t] EXCEPT !.at = "exec", !.arg = e]
<1>1. frame' = [frame EXCEPT ![t] = f] /\ f.at = "exec" /\ f = frame'[t]
  BY FrameFacts DEF Execute, CallInv, Frame
<1>2. f \in HeldFrames
  <2>1. f \in Frame
    BY <1>1 DEF CallInv
  <2> HIDE DEF f
  <2> QED BY <1>1, <2>1 DEF HeldFrames, Registering
<1> HIDE DEF f
<1>3. frame \in [Threads -> HeldFrames] /\ stack \in [Threads -> Seq(HeldFrames)]
  BY DEF RegInv
<1>4. frame' \in [Threads -> HeldFrames] /\ stack' \in [Threads -> Seq(HeldFrames)]
  BY <1>1, <1>2, <1>3
<1> QED BY <1>4, RegMoves DEF RegInv

(* A thread calls f over the frames below.                                 *)
LEMMA RegCall ==
  ASSUME RegInv, NEW t \in Threads, NEW f \in HeldFrames,
         NEW below \in Seq(HeldFrames), CallOver(t, below, f),
         UNCHANGED <<connects, ownVars>>
  PROVE  RegInv'
<1>1. frame \in [Threads -> HeldFrames] /\ stack \in [Threads -> Seq(HeldFrames)]
  BY DEF RegInv
<1>2. frame' \in [Threads -> HeldFrames] /\ stack' \in [Threads -> Seq(HeldFrames)]
  BY <1>1, CallIn
<1> QED BY <1>2, RegMoves DEF RegInv

(* A thread returns; it may leave a change of its loop's connections.      *)
LEMMA RegReturn ==
  ASSUME RegInv, NEW t \in Threads, stack[t] # <<>>, Return(t),
         UNCHANGED ownVars,
         \A l \in Loops : connects'[l] \subseteq Referrers(l)
  PROVE  RegInv'
<1>1. frame \in [Threads -> HeldFrames] /\ stack \in [Threads -> Seq(HeldFrames)]
  BY DEF RegInv
<1>2. frame' \in [Threads -> HeldFrames] /\ stack' \in [Threads -> Seq(HeldFrames)]
  BY <1>1, ReturnIn
<1> QED BY <1>2, RegMoves

(* The frame of a step that neither enters nor removes a connection.       *)
LEMMA PlainHeld ==
  ASSUME NEW f \in Frame, f.at \notin {"add", "remove"}
  PROVE  f \in HeldFrames
BY DEF HeldFrames, Registering

(* disconnectFun is called on a loop the connection refers to.             *)
LEMMA RegDisconnect ==
  ASSUME CallInv, RegInv, NEW t \in Threads, NEW l \in Loops,
         NEW r \in Connects, r \in Referrers(l), DisconnectFun(t, l, r),
         UNCHANGED <<connects, ownVars>>
  PROVE  RegInv'
<1> DEFINE g == FrameOf("remove", l, TaskOf(r, "unbind"))
<1>1. PICK s \in Loops :
        CallOver(t, <<frame[t], g>>, FrameOf("push", s, TaskOf(r, "unbind")))
  BY DEF DisconnectFun
<1>2. g \in HeldFrames
  <2>1. TaskOf(r, "unbind") \in Task /\ TaskOf(r, "unbind").kind = "unbind"
    BY TaskFacts
  <2>2. TaskOf(r, "unbind").id = r
    BY DEF TaskOf
  <2> QED BY <2>1, <2>2 DEF HeldFrames, Registering, FrameOf, Frame, Labels
<1>3. FrameOf("push", s, TaskOf(r, "unbind")) \in HeldFrames
  BY TaskFacts, PlainHeld DEF FrameOf, Frame, Labels
<1>4. frame[t] \in HeldFrames
  BY DEF RegInv
<1>5. <<frame[t], g>> \in Seq(HeldFrames)
  <2> HIDE DEF g
  <2> QED BY <1>2, <1>4
<1> HIDE DEF g
<1> QED BY <1>1, <1>3, <1>5, RegCall

(* RegInv is inductive.                                                    *)
LEMMA RegNext ==
  ASSUME TypeOK, CallInv, CallInv', RegInv, [Next]_vars
  PROVE  RegInv'
<1> USE LoopAssumption DEF refVars, ownVars
<1>1. ASSUME NEW l \in Loops, Check(l) PROVE RegInv'
  BY <1>1, RegGoto DEF Check, Threads
<1>2. ASSUME NEW l \in Loops, Wait(l) PROVE RegInv'
  <2> DEFINE g == [frame[l] EXCEPT !.at = "check"]
  <2>1. l \in Threads /\ CallOver(l, <<g>>, Pump(l))
    BY <1>2 DEF Wait, Threads
  <2>2. g \in Frame /\ g.at = "check" /\ Pump(l) \in Frame /\ Pump(l).at = "pop"
    BY <2>1, TaskFacts, FrameFacts
       DEF Frame, Labels, PumpLabels, Pump, FrameOf
  <2> HIDE DEF g
  <2>3. <<g>> \in Seq(HeldFrames) /\ Pump(l) \in HeldFrames
    BY <2>2, PlainHeld
  <2> QED BY <1>2, <2>1, <2>3, RegCall DEF Wait
<1>3. ASSUME NEW l \in Loops, Reap(l) PROVE RegInv'
  BY <1>3, RegGoto DEF Reap, Threads
<1>4. ASSUME NEW t \in Threads, PopHigh(t) PROVE RegInv'
  BY <1>4, RegGoto, RegExecute DEF PopHigh
<1>5. ASSUME NEW t \in Threads, PopLow(t) PROVE RegInv'
  BY <1>5, FrameFacts, RegExecute, RegReturn DEF PopLow, At, BaseLabels, RegInv
<1>6. ASSUME NEW t \in Threads, Finish(t) \/ Pause(t) \/ Unbind(t) PROVE RegInv'
  BY <1>6, RegGoto DEF Finish, Pause, Unbind
<1>7. ASSUME NEW t \in Threads, NextEvent(t) PROVE RegInv'
  BY <1>7, FrameFacts, RegGoto, RegReturn DEF NextEvent, At, BaseLabels, RegInv
<1>8. ASSUME NEW t \in Threads, Push(t) PROVE RegInv'
  BY <1>8, RegGoto DEF Push
<1>9. ASSUME NEW t \in Threads, Post(t) PROVE RegInv'
  BY <1>9, FrameFacts, RegGoto, RegReturn DEF Post, At, BaseLabels, RegInv
<1>10. ASSUME NEW t \in Threads, Ack(t) \/ EndBody(t) PROVE RegInv'
  BY <1>10, FrameFacts, RegReturn DEF Ack, EndBody, At, BaseLabels, RegInv
<1>11. ASSUME NEW t \in Threads, ProcessFirst(t) PROVE RegInv'
  <2> DEFINE g == [frame[t] EXCEPT !.at = "begin"]
             l == On(t)
  <2>1. \/ CallOver(t, <<g>>, Pump(l))
        \/ Goto(t, "begin") /\ stack' = stack
    BY <1>11 DEF ProcessFirst
  <2>2. g \in Frame /\ g.at = "begin" /\ Pump(l) \in Frame /\ Pump(l).at = "pop"
    BY TaskFacts, FrameFacts DEF Frame, Labels, PumpLabels, Pump, FrameOf
  <2> HIDE DEF g, l
  <2>3. <<g>> \in Seq(HeldFrames) /\ Pump(l) \in HeldFrames
    BY <2>2, PlainHeld
  <2> QED BY <1>11, <2>1, <2>3, RegCall, RegGoto DEF ProcessFirst
<1>12. ASSUME NEW t \in Threads, BeginBody(t) PROVE RegInv'
  BY <1>12, RegGoto DEF BeginBody
<1>13. ASSUME NEW t \in Threads, ManualWake(t) PROVE RegInv'
  BY <1>13, FrameFacts, RegGoto, RegReturn DEF ManualWake, At, BaseLabels, RegInv
<1>14. ASSUME NEW t \in Threads, Register(t) PROVE RegInv'
  <2> DEFINE g == [frame[t] EXCEPT !.at = "next"]
  <2>1. PICK l \in Loops : /\ Arg(t).id \in Referrers(l)
                           /\ CallOver(t, <<g>>, FrameOf("add", l, Arg(t)))
    BY <1>14 DEF Register
  <2>2. g \in Frame /\ g.at = "next" /\ Arg(t) \in Task /\ Arg(t).kind = "register"
    BY <1>14, FrameFacts DEF Frame, Labels, PumpLabels, Register
  <2>3. FrameOf("add", l, Arg(t)) \in HeldFrames
    BY <2>1, <2>2 DEF FrameOf, HeldFrames, Registering, Frame, Labels
  <2> HIDE DEF g
  <2>4. <<g>> \in Seq(HeldFrames)
    BY <2>2, PlainHeld
  <2> QED BY <1>14, <2>1, <2>3, <2>4, RegCall DEF Register
<1>15. ASSUME NEW t \in Threads, AddSharedConnectBase(t) PROVE RegInv'
  <2> DEFINE l == On(t)
  <2>1. Arg(t).id \in Referrers(l) /\ l \in Loops
    BY <1>15, FrameFacts
       DEF AddSharedConnectBase, RegInv, HeldFrames, Registering, At, On, Arg
  <2>2. connects' = [connects EXCEPT ![l] = @ \cup {Arg(t).id}]
    BY <1>15 DEF AddSharedConnectBase
  <2>3. connects \in [Loops -> SUBSET Connects]
    BY DEF TypeOK, DataOK
  <2>4. \A m \in Loops : connects'[m] \subseteq Referrers(m)
    BY <2>1, <2>2, <2>3 DEF RegInv
  <2>5. stack[t] # <<>> /\ Return(t) /\ UNCHANGED ownVars
    BY <1>15, FrameFacts DEF AddSharedConnectBase, At, BaseLabels
  <2> QED BY <2>4, <2>5, RegReturn
<1>16. ASSUME NEW t \in Threads, RemoveSharedConnectBase(t) PROVE RegInv'
  <2>1. connects \in [Loops -> SUBSET Connects]
    BY DEF TypeOK, DataOK
  <2>2. \A m \in Loops : connects'[m] \subseteq Referrers(m)
    BY <1>16, <2>1 DEF RemoveSharedConnectBase, RegInv
  <2>3. stack[t] # <<>> /\ Return(t) /\ UNCHANGED ownVars
    BY <1>16, FrameFacts DEF RemoveSharedConnectBase, At, BaseLabels
  <2> QED BY <2>2, <2>3, RegReturn
<1>17. ASSUME NEW t \in Threads,
              DelLock(t) \/ DelAlive(t) \/ DelTerminate(t) \/ DelRun(t)
       PROVE  RegInv'
  BY <1>17, RegGoto DEF DelLock, DelAlive, DelTerminate, DelRun
<1>18. ASSUME NEW t \in Threads, DelConnects(t) PROVE RegInv'
  <2> DEFINE l == On(t)
  <2>1. l \in Loops /\ connects \in [Loops -> SUBSET Connects]
    BY FrameFacts DEF TypeOK, DataOK
  <2>2. CASE connects[l] \cap connAlive # {}
    <3>1. PICK r \in connects[l] : DisconnectFun(t, l, r)
      BY <1>18, <2>2 DEF DelConnects
    <3>2. r \in Connects /\ r \in Referrers(l)
      BY <2>1 DEF RegInv
    <3>3. UNCHANGED <<connects, ownVars>>
      BY <1>18, <2>2 DEF DelConnects
    <3> QED BY <2>1, <3>1, <3>2, <3>3, RegDisconnect
  <2>3. CASE ~(connects[l] \cap connAlive # {})
    <3>1. /\ connects' = [connects EXCEPT ![l] = {}]
          /\ Goto(t, "delAlive") /\ UNCHANGED <<stack, ownVars>>
      BY <1>18, <2>3 DEF DelConnects
    <3>2. \A m \in Loops : connects'[m] \subseteq Referrers(m)
      BY <2>1, <3>1 DEF RegInv
    <3> DEFINE f == [frame[t] EXCEPT !.at = "delAlive"]
    <3>3. frame' = [frame EXCEPT ![t] = f] /\ f \in Frame /\ f.at = "delAlive"
      BY <3>1, FrameFacts DEF Goto, CallInv, Frame, Labels, DeleteLabels
    <3> HIDE DEF f
    <3>4. /\ frame \in [Threads -> HeldFrames]
          /\ stack \in [Threads -> Seq(HeldFrames)]
      BY DEF RegInv
    <3>5. /\ frame' \in [Threads -> HeldFrames]
          /\ stack' \in [Threads -> Seq(HeldFrames)]
      BY <3>1, <3>3, <3>4, PlainHeld
    <3> QED BY <3>1, <3>2, <3>5, RegMoves
  <2> QED BY <2>2, <2>3
<1>19. ASSUME NEW t \in Threads, UserCall(t) PROVE RegInv'
  <2>1. ASSUME NEW f \in HeldFrames, Call(t, f), UNCHANGED <<connects, ownVars>>
        PROVE  RegInv'
    <3>1. <<frame[t]>> \in Seq(HeldFrames)
      BY DEF RegInv
    <3> QED BY <2>1, <3>1, RegCall DEF Call
  <2>2. ASSUME NEW label \in Labels \ {"add", "remove"}, NEW l \in Loops,
               NEW e \in Task, Call(t, FrameOf(label, l, e)),
               UNCHANGED <<connects, ownVars>>
        PROVE  RegInv'
    <3>1. FrameOf(label, l, e) \in HeldFrames
      BY PlainHeld DEF FrameOf, Frame
    <3> QED BY <2>1, <2>2, <3>1
  <2>3. ASSUME NEW l \in Loops, NEW w \in Works, NEW p \in Priorities,
               Work(t, l, w, p) \/ WorkSync(t, l, w, p)
        PROVE  RegInv'
    BY <2>2, <2>3, TaskFacts DEF Work, WorkSync, Submit, Labels
  <2>4. ASSUME NEW l \in Loops, NEW w \in Works,
               WorkSyncOwn(t, l, w) \/ SetRunFalse(t, l, w)
        PROVE  RegInv'
    BY <2>2, <2>4, TaskFacts DEF WorkSyncOwn, SetRunFalse, Submit, Labels
  <2>5. ASSUME NEW l \in Loops, Process(t, l) PROVE RegInv'
    BY <2>2, <2>5, TaskFacts DEF Process, Pump, Labels, PumpLabels
  <2>6. ASSUME NEW l \in Loops, DeleteLater(t, l) PROVE RegInv'
    BY <2>2, <2>6, TaskFacts DEF DeleteLater, Labels, DeleteLabels
  <2>7. ASSUME NEW l \in Loops, NEW op \in {"waitProcess", "waitEvent"},
               ManualWait(t, l, op)
        PROVE  RegInv'
    BY <2>2, <2>7, TaskFacts DEF ManualWait, Labels
  <2>8. ASSUME NEW l \in Loops, SetRunTrue(t, l) PROVE RegInv'
    BY <2>8, RegQuiet DEF SetRunTrue, callVars, Referrers
  <2>9. /\ holders \in [Loops -> SUBSET Refs] /\ bare \in [Loops -> SUBSET Refs]
        /\ CurrentLoop(t) \in Loops
    BY DEF TypeOK, DataOK, CurrentLoop
  <2>10. ASSUME NEW o \in Objects, Hold(t, o) PROVE RegInv'
    <3>1. Acquire(CurrentLoop(t), o) /\ UNCHANGED <<frame, stack, connects>>
      BY <2>10 DEF Hold, callVars
    <3> QED BY <2>9, <3>1, AcquireAdds, RegQuiet
  <2>11. ASSUME NEW l \in Loops, NEW r \in Refs, Drop(t, l, r) PROVE RegInv'
    <3>1. /\ UNCHANGED <<frame, stack, connects>>
          /\ \A m \in Loops : r \notin connects[m]
          /\ ~InFrames(r)
      BY <2>11 DEF Drop, Unreferenced, callVars
    <3>9. \A m \in Loops : Referrers(m) \ {r} \subseteq Referrers(m)'
      BY <2>9, <2>11 DEF Drop, Referrers
    <3>2. \A m \in Loops : connects'[m] \subseteq Referrers(m)'
      BY <3>1, <3>9 DEF RegInv
    <3>3. ASSUME NEW f \in HeldFrames, f.arg.id # r PROVE f \in HeldFrames'
      BY <3>9, <3>3 DEF HeldFrames, Registering, Frame
    <3>4. \A x \in Threads : frame'[x] \in HeldFrames'
      BY <3>1, <3>3 DEF RegInv, InFrames, Arg
    <3>5. \A x \in Threads : stack'[x] \in Seq(HeldFrames')
      <4>1. ASSUME NEW x \in Threads PROVE stack[x] \in Seq(HeldFrames')
        <5>1. stack[x] \in Seq(HeldFrames)
          BY DEF RegInv
        <5>2. \A i \in 1 .. Len(stack[x]) : stack[x][i] \in HeldFrames'
          BY <3>1, <3>3, <5>1, ElementOfSeq, LenProperties DEF InFrames
        <5> QED BY <5>1, <5>2, SeqDef
      <4> QED BY <3>1, <4>1
    <3>6. frame' \in [Threads -> HeldFrames'] /\ stack' \in [Threads -> Seq(HeldFrames')]
      BY <3>1, <3>4, <3>5 DEF RegInv
    <3> QED BY <3>2, <3>6 DEF RegInv
  <2>12. ASSUME NEW r \in Connects, Connect(t, r) PROVE RegInv'
    <3> DEFINE l == CurrentLoop(t)
    <3>1. /\ Acquire(l, r) /\ connects' = connects
          /\ \E s \in Loops :
               \/ Call(t, FrameOf("add", l, TaskOf(r, "register")))
               \/ Call(t, FrameOf("push", s, TaskOf(r, "register")))
      BY <2>12 DEF Connect
    <3>2. \A m \in Loops : Referrers(m) \subseteq Referrers(m)'
      BY <2>9, <3>1, AcquireAdds
    <3>3. HeldFrames \subseteq HeldFrames'
      BY <3>2 DEF HeldFrames, Registering, Frame
    <3>4. FrameOf("add", l, TaskOf(r, "register")) \in HeldFrames'
      <4>1. TaskOf(r, "register") \in Task /\ TaskOf(r, "register").kind = "register"
        BY TaskFacts
      <4>2. TaskOf(r, "register").id = r /\ r \in Referrers(l)'
        BY <2>9, <3>1, AcquireAdds DEF TaskOf
      <4> QED BY <2>9, <4>1, <4>2 DEF FrameOf, HeldFrames, Registering, Frame, Labels
    <3>5. \A s \in Loops : FrameOf("push", s, TaskOf(r, "register")) \in HeldFrames'
      BY TaskFacts DEF FrameOf, HeldFrames, Registering, Frame, Labels
    <3>6. PICK f \in HeldFrames' : Call(t, f)
      BY <3>1, <3>4, <3>5
    <3>7. Seq(HeldFrames) \subseteq Seq(HeldFrames')
      BY <3>3, SeqMonotonic
    <3>8. /\ frame \in [Threads -> HeldFrames'] /\ stack \in [Threads -> Seq(HeldFrames')]
          /\ <<frame[t]>> \in Seq(HeldFrames')
      BY <3>3, <3>7 DEF RegInv
    <3>9. frame' \in [Threads -> HeldFrames'] /\ stack' \in [Threads -> Seq(HeldFrames')]
      BY <3>6, <3>8, CallIn DEF Call
    <3>10. \A m \in Loops : connects'[m] \subseteq Referrers(m)'
      BY <3>1, <3>2 DEF RegInv
    <3> QED BY <3>9, <3>10 DEF RegInv
  <2>13. ASSUME NEW l \in Loops, NEW r \in Connects, Disconnect(t, l, r)
         PROVE  RegInv'
    BY <2>13, RegDisconnect DEF Disconnect
  <2> QED BY <1>19, <2>3, <2>4, <2>5, <2>6, <2>7, <2>8, <2>10, <2>11, <2>12,
             <2>13 DEF UserCall
<1>20. CASE UNCHANGED vars
  BY <1>20, RegQuiet DEF vars, callVars, Referrers
<1> QED
  BY <1>1, <1>2, <1>3, <1>4, <1>5, <1>6, <1>7, <1>8, <1>9, <1>10, <1>11,
     <1>12, <1>13, <1>14, <1>15, <1>16, <1>17, <1>18, <1>19, <1>20
     DEF Next, RunStep, ThreadStep

(* A function that enters a connection in its receiver's loop, or removes  *)
(* it, never touches a loop that is deleted, in whatever thread and at     *)
(* whatever time it runs, unless the connection was made after             *)
(* getSharedAlive had become null (loop.cc:264, object.cc:57): any other   *)
(* owns a share of that loop as long as anything refers to it.             *)
THEOREM ConnectionsKeepLoop == Spec => []RegistrationTouchesLiveLoop
<1>1. Init => RegInv
  <2> SUFFICES ASSUME Init PROVE RegInv
    OBVIOUS
  <2>1. ASSUME NEW t \in Threads
        PROVE  frame[t] \in HeldFrames /\ stack[t] \in Seq(HeldFrames)
    <3>1. frame[t] \in Frame
      BY InitOK DEF TypeOK
    <3>2. frame[t].at \in {"check", "user"} /\ stack[t] = <<>>
      BY DEF Init, FrameOf
    <3> QED BY <3>1, <3>2, PlainHeld, EmptySeq
  <2>2. \A l \in Loops : connects[l] \subseteq Referrers(l)
    BY DEF Init
  <2>3. frame \in [Threads -> HeldFrames] /\ stack \in [Threads -> Seq(HeldFrames)]
    BY <2>1, InitOK DEF TypeOK
  <2> QED BY <2>2, <2>3 DEF RegInv
<1>2. TypeOK /\ CallInv /\ CallInv' /\ RegInv /\ [Next]_vars => RegInv'
  BY RegNext
<1>3. TypeOK /\ LifeInv /\ RegInv => RegistrationTouchesLiveLoop
  <2> SUFFICES ASSUME LifeInv, RegInv, NEW t \in Threads,
                      NEW i \in DOMAIN Frames(t),
                      Frames(t)[i].at \in {"add", "remove"},
                      Frames(t)[i].arg.id \notin bare[Frames(t)[i].loop]
               PROVE  ~freed[Frames(t)[i].loop]
    BY DEF RegistrationTouchesLiveLoop
  <2>1. frame[t] \in HeldFrames /\ stack[t] \in Seq(HeldFrames)
    BY DEF RegInv
  <2>2. Frames(t) \in Seq(HeldFrames)
    BY <2>1, AppendProperties DEF Frames
  <2>3. Frames(t)[i] \in HeldFrames
    BY <2>2, LenProperties, ElementOfSeq
  <2> QED BY <2>3 DEF HeldFrames, Registering, Referrers, Frame, LifeInv
<1>4. Spec => []LifeInv
  BY LifeInvariant
<1> QED BY <1>1, <1>2, <1>3, <1>4, TypeCorrect, PTL DEF Spec
-----------------------------------------------------------------------------
(* No function is in two places.                                           *)

(* Where a function handed over can be: in a queue, or in a frame that is  *)
(* about to put it there or to run it, or runs it.  The frames of          *)
(* deleteLater, whose null function goes to the queue at the end, count    *)
(* from the beginning.                                                     *)
PlaceLabels == {"push", "process", "begin", "body", "exec"} \cup DeleteLabels

Places == {"none", "high", "low", "frame"} \X (Threads \cup {Nil}) \X Nat
Nowhere == <<"none", Nil, 0>>

TasksAt(loc, p) == {e \in Task : e.id \in Works => loc[e.id] = p}

Once(s) ==
  \A i, j \in DOMAIN s : s[i].id \in Works /\ s[i].id = s[j].id => i = j

QueuesAt(loc) ==
  \A l \in Loops :
    /\ highPri[l] \in Seq(TasksAt(loc, <<"high", l, 0>>)) /\ Once(highPri[l])
    /\ events[l] \in Seq(TasksAt(loc, <<"low", l, 0>>)) /\ Once(events[l])

FrameAt(loc, t, f, i) ==
  f.at \in PlaceLabels /\ f.arg.id \in Works
    => loc[f.arg.id] = <<"frame", t, i>>

FramesAt(loc) ==
  \A t \in Threads :
    /\ FrameAt(loc, t, frame[t], Len(stack[t]) + 1)
    /\ \A i \in DOMAIN stack[t] : FrameAt(loc, t, stack[t][i], i)

UnseenAt(loc) ==
  /\ posted \subseteq used
  /\ \A w \in Works : w \notin used \/ w \in posted => loc[w] = Nowhere

Located(loc) == QueuesAt(loc) /\ FramesAt(loc) /\ UnseenAt(loc)

OnceInv == \E loc \in [Works -> Places] : Located(loc)

(* Different places are different.                                         *)
LEMMA PlaceFacts ==
  /\ Nowhere \in Places
  /\ \A l \in Loops : <<"high", l, 0>> \in Places /\ <<"low", l, 0>> \in Places
  /\ \A t \in Threads, i \in Nat : <<"frame", t, i>> \in Places
  /\ \A l \in Loops : \A t, i :
       /\ <<"frame", t, i>> # <<"high", l, 0>> /\ <<"frame", t, i>> # <<"low", l, 0>>
       /\ Nowhere # <<"high", l, 0>> /\ Nowhere # <<"low", l, 0>>
       /\ \A m \in Loops : /\ <<"high", l, 0>> # <<"low", m, 0>>
                           /\ l # m => /\ <<"high", l, 0>> # <<"high", m, 0>>
                                       /\ <<"low", l, 0>> # <<"low", m, 0>>
  /\ \A t, i : Nowhere # <<"frame", t, i>>
  /\ \A t, u, i, j : <<"frame", t, i>> = <<"frame", u, j>> => t = u /\ i = j
BY DEF Places, Nowhere, Threads

(* The sequences stay where they are when another function moves.          *)
LEMMA TasksMove ==
  ASSUME NEW loc \in [Works -> Places], NEW w \in Works, NEW p, NEW q \in Places,
         loc[w] # p, NEW s \in Seq(TasksAt(loc, p))
  PROVE  s \in Seq(TasksAt([loc EXCEPT ![w] = q], p))
<1>1. TasksAt(loc, p) \subseteq TasksAt([loc EXCEPT ![w] = q], p)
  BY DEF TasksAt
<1> QED BY <1>1, SeqMonotonic

(* The first function leaves a queue.                                      *)
LEMMA TailMove ==
  ASSUME NEW loc \in [Works -> Places], NEW p, NEW q \in Places,
         NEW s \in Seq(TasksAt(loc, p)), s # <<>>, Once(s)
  PROVE  /\ Head(s) \in TasksAt(loc, p) /\ Head(s) = s[1]
         /\ Once(Tail(s))
         /\ Tail(s) \in Seq(TasksAt(loc, p))
         /\ Head(s).id \in Works =>
              Tail(s) \in Seq(TasksAt([loc EXCEPT ![Head(s).id] = q], p))
<1> DEFINE n == Len(s)
           u == Tail(s)
<1>1. /\ Head(s) = s[1] /\ Head(s) \in TasksAt(loc, p)
      /\ u \in Seq(TasksAt(loc, p)) /\ Len(u) = n - 1
      /\ \A i \in 1 .. Len(u) : u[i] = s[i + 1]
  BY HeadTailProperties
<1>2. n \in Nat \ {0} /\ DOMAIN s = 1 .. n /\ DOMAIN u = 1 .. n - 1
  BY <1>1, EmptySeq, LenProperties
<1> HIDE DEF n, u
<1>3. \A i \in 1 .. n - 1 : u[i] = s[i + 1] /\ i + 1 \in 1 .. n
  BY <1>1, <1>2
<1>4. Once(u)
  <2> SUFFICES ASSUME NEW i \in 1 .. n - 1, NEW j \in 1 .. n - 1,
                      u[i].id \in Works, u[i].id = u[j].id
               PROVE  i = j
    BY <1>2 DEF Once
  <2>1. i + 1 \in DOMAIN s /\ j + 1 \in DOMAIN s
    BY <1>2
  <2>2. s[i + 1].id \in Works /\ s[i + 1].id = s[j + 1].id
    BY <1>3
  <2>3. i + 1 = j + 1
    BY <2>1, <2>2 DEF Once
  <2> QED BY <2>3
<1>5. ASSUME Head(s).id \in Works
      PROVE  u \in Seq(TasksAt([loc EXCEPT ![Head(s).id] = q], p))
  <2>1. ASSUME NEW i \in 1 .. n - 1
        PROVE  u[i] \in TasksAt([loc EXCEPT ![Head(s).id] = q], p)
    <3>1. u[i] \in TasksAt(loc, p)
      BY <1>1, <1>2, ElementOfSeq
    <3>2. u[i].id # Head(s).id
      <4>1. u[i] = s[i + 1] /\ i + 1 \in DOMAIN s /\ 1 \in DOMAIN s /\ i + 1 # 1
        BY <1>2, <1>3
      <4>2. s[1].id \in Works /\ s[1].id = Head(s).id
        BY <1>1, <1>5
      <4>3. s[1].id = s[i + 1].id => 1 = i + 1
        BY <4>1, <4>2 DEF Once
      <4> QED BY <4>1, <4>2, <4>3
    <3> QED BY <3>1, <3>2 DEF TasksAt
  <2> DEFINE S == TasksAt([loc EXCEPT ![Head(s).id] = q], p)
  <2>2. u = [i \in 1 .. n - 1 |-> u[i]] /\ n - 1 \in Nat
    <3>1. Len(u) = n - 1 /\ n - 1 \in Nat
      BY <1>1, <1>2
    <3> QED BY <1>1, <3>1, LenProperties
  <2>3. u \in [1 .. n - 1 -> S]
    <3> HIDE DEF S
    <3> QED BY <2>1, <2>2 DEF S
  <2> HIDE DEF S
  <2>4. u \in Seq(S)
    BY <2>2, <2>3, SeqDef
  <2> QED BY <2>4 DEF S
<1> QED BY <1>1, <1>4, <1>5 DEF u

(* What Emplace puts where.                                                *)
LEMMA EmplaceElements ==
  ASSUME NEW S, NEW s \in Seq(S), NEW k \in 0 .. Len(s), NEW e \in S,
         NEW i \in 1 .. Len(s) + 1
  PROVE  Emplace(s, k, e)[i] = IF i <= k THEN s[i]
                               ELSE IF i = k + 1 THEN e ELSE s[i - 1]
<1> DEFINE n == Len(s)
           a == SubSeq(s, 1, k)
           b == SubSeq(s, k + 1, n)
           c == a \o <<e>>
<1>1. n \in Nat /\ \A j \in 1 .. n : s[j] \in S
  BY LenProperties, ElementOfSeq
<1>2. a \in Seq(S) /\ Len(a) = k /\ \A j \in 1 .. k : a[j] = s[j]
  <2>1. 1 \in Int /\ k \in Int /\ \A j \in 1 .. k : s[j] \in S
    BY <1>1
  <2>2. /\ a \in Seq(S) /\ Len(a) = IF 1 <= k THEN k - 1 + 1 ELSE 0
        /\ \A j \in 1 .. k - 1 + 1 : a[j] = s[1 + j - 1]
    BY <2>1, SubSeqProperties
  <2>3. /\ k \in Nat /\ k - 1 + 1 = k /\ (1 <= k \/ k = 0)
        /\ \A j \in 1 .. k : 1 + j - 1 = j
    OBVIOUS
  <2> HIDE DEF a
  <2>4. Len(a) = k
    BY <2>2, <2>3
  <2>5. \A j \in 1 .. k : a[j] = s[j]
    BY <2>2, <2>3
  <2> QED BY <2>2, <2>4, <2>5
<1>3. b \in Seq(S) /\ Len(b) = n - k /\ \A j \in 1 .. n - k : b[j] = s[k + j]
  <2>1. k + 1 \in Int /\ n \in Int /\ \A j \in k + 1 .. n : s[j] \in S
    BY <1>1
  <2>2. /\ b \in Seq(S) /\ Len(b) = IF k + 1 <= n THEN n - (k + 1) + 1 ELSE 0
        /\ \A j \in 1 .. n - (k + 1) + 1 : b[j] = s[(k + 1) + j - 1]
    BY <2>1, SubSeqProperties
  <2>3. /\ n - k \in Nat /\ n - (k + 1) + 1 = n - k
        /\ (k + 1 <= n \/ n - k = 0)
        /\ \A j \in 1 .. n - k : (k + 1) + j - 1 = k + j
    BY <1>1
  <2> HIDE DEF b, n
  <2>4. Len(b) = n - k
    BY <2>2, <2>3
  <2>5. \A j \in 1 .. n - k : b[j] = s[k + j]
    BY <2>2, <2>3
  <2> QED BY <2>2, <2>4, <2>5
<1>4. /\ c \in Seq(S) /\ Len(c) = k + 1
      /\ \A j \in 1 .. k + 1 : c[j] = IF j <= k THEN s[j] ELSE e
  <2> HIDE DEF a
  <2>1. <<e>> \in Seq(S) /\ Len(<<e>>) = 1 /\ <<e>>[1] = e
    OBVIOUS
  <2>2. /\ c \in Seq(S) /\ Len(c) = Len(a) + Len(<<e>>)
        /\ \A j \in 1 .. Len(a) + Len(<<e>>) :
             c[j] = IF j <= Len(a) THEN a[j] ELSE <<e>>[j - Len(a)]
    BY <1>2, <2>1, ConcatProperties
  <2> HIDE DEF c
  <2>3. Len(c) = k + 1
    BY <1>2, <2>1, <2>2
  <2>4. ASSUME NEW j \in 1 .. k + 1 PROVE c[j] = IF j <= k THEN s[j] ELSE e
    <3>1. CASE j <= k
      BY <1>2, <2>1, <2>2, <3>1
    <3>2. CASE ~(j <= k)
      <4>1. j - Len(a) = 1
        BY <1>2, <3>2
      <4> QED BY <1>2, <2>1, <2>2, <3>2, <4>1
    <3> QED BY <3>1, <3>2
  <2> QED BY <2>2, <2>3, <2>4
<1> HIDE DEF a, b, c
<1>5. \A j \in 1 .. Len(c) + Len(b) :
        (c \o b)[j] = IF j <= Len(c) THEN c[j] ELSE b[j - Len(c)]
  BY <1>3, <1>4, ConcatProperties
<1>6. Emplace(s, k, e) = c \o b
  BY DEF Emplace, a, b, c, n
<1>7. CASE i <= k + 1
  <2>1. (c \o b)[i] = c[i]
    BY <1>1, <1>3, <1>4, <1>5, <1>7 DEF n
  <2> QED BY <1>4, <1>6, <1>7, <2>1
<1>8. CASE ~(i <= k + 1)
  <2>1. i - (k + 1) \in 1 .. n - k /\ k + (i - (k + 1)) = i - 1
    BY <1>1, <1>8 DEF n
  <2>2. (c \o b)[i] = b[i - (k + 1)]
    BY <1>1, <1>3, <1>4, <1>5, <1>8 DEF n
  <2>3. b[i - (k + 1)] = s[k + (i - (k + 1))]
    BY <1>3, <2>1
  <2>4. Emplace(s, k, e)[i] = s[i - 1]
    BY <1>6, <2>1, <2>2, <2>3
  <2> QED BY <1>8, <2>4
<1> QED BY <1>7, <1>8

(* e goes from where it is to p; u is s with e after the k-th element.     *)
Arrives(loc, loc2, e, p) ==
  /\ e.id \in Works => loc[e.id] # p /\ loc2 = [loc EXCEPT ![e.id] = p]
  /\ e.id \notin Works => loc2 = loc

Inserted(u, s, k, e) ==
  /\ DOMAIN u = 1 .. Len(s) + 1
  /\ \A i \in 1 .. Len(s) + 1 :
       u[i] = IF i <= k THEN s[i] ELSE IF i = k + 1 THEN e ELSE s[i - 1]

(* A function comes into a queue, at the end or between two others.        *)
LEMMA InsertMove ==
  ASSUME NEW loc \in [Works -> Places], NEW loc2 \in [Works -> Places], NEW p,
         NEW e \in Task, Arrives(loc, loc2, e, p),
         NEW s \in Seq(TasksAt(loc, p)), Once(s),
         NEW k \in 0 .. Len(s), NEW u, Inserted(u, s, k, e)
  PROVE  Once(u) /\ \A i \in 1 .. Len(s) + 1 : u[i] \in TasksAt(loc2, p)
<1> DEFINE n == Len(s)
           old(i) == IF i <= k THEN i ELSE i - 1
<1>1. n \in Nat /\ DOMAIN s = 1 .. n
  BY LenProperties
<1>2. \A j \in 1 .. n : s[j] \in TasksAt(loc, p)
  BY <1>1, ElementOfSeq
<1>3. \A j \in 1 .. n : s[j].id \in Works => s[j].id # e.id
  BY <1>2 DEF TasksAt, Arrives
<1>4. u[k + 1] = e
  BY <1>1 DEF Inserted
<1>5. \A i \in 1 .. n + 1 : i # k + 1 => old(i) \in 1 .. n /\ u[i] = s[old(i)]
  BY <1>1 DEF Inserted
<1>6. \A i, j \in 1 .. n + 1 : i # k + 1 /\ j # k + 1 /\ old(i) = old(j) => i = j
  BY <1>1
<1>7. ASSUME NEW i \in 1 .. n + 1 PROVE u[i] \in TasksAt(loc2, p)
  <2>1. CASE i = k + 1
    BY <1>4, <2>1 DEF TasksAt, Arrives
  <2>2. CASE i # k + 1
    BY <1>2, <1>3, <1>5, <2>2 DEF TasksAt, Arrives
  <2> QED BY <2>1, <2>2
<1> HIDE DEF n, old
<1>8. ASSUME NEW i \in 1 .. n + 1, NEW j \in 1 .. n + 1,
             u[i].id \in Works, u[i].id = u[j].id
      PROVE  i = j
  <2>1. CASE i # k + 1 /\ j # k + 1
    <3>1. old(i) \in DOMAIN s /\ old(j) \in DOMAIN s /\ u[i] = s[old(i)] /\ u[j] = s[old(j)]
      BY <1>1, <1>5, <2>1
    <3>2. old(i) = old(j)
      BY <1>8, <3>1 DEF Once
    <3> QED BY <1>6, <2>1, <3>2
  <2>2. CASE i = k + 1 /\ j # k + 1
    BY <1>3, <1>4, <1>5, <1>8, <2>2
  <2>3. CASE i # k + 1 /\ j = k + 1
    BY <1>3, <1>4, <1>5, <1>8, <2>3
  <2> QED BY <2>1, <2>2, <2>3
<1>9. Once(u)
  BY <1>8 DEF Once, n, Inserted
<1> QED BY <1>7, <1>9 DEF n

(* The frames stay where they are when a function that is in none moves.   *)
LEMMA FramesMove ==
  ASSUME NEW loc \in [Works -> Places], NEW w \in Works, NEW q \in Places,
         \A t, i : loc[w] # <<"frame", t, i>>, FramesAt(loc)
  PROVE  FramesAt([loc EXCEPT ![w] = q])
BY DEF FramesAt, FrameAt

(* So do the queues.                                                       *)
LEMMA QueuesMove ==
  ASSUME NEW loc \in [Works -> Places], NEW w \in Works, NEW q \in Places,
         \A l \in Loops : loc[w] # <<"high", l, 0>> /\ loc[w] # <<"low", l, 0>>,
         QueuesAt(loc)
  PROVE  QueuesAt([loc EXCEPT ![w] = q])
BY TasksMove DEF QueuesAt

(* How the steps of a thread keep its frames in their places.              *)

(* The active frame is at another label of the same kind, or leaves.       *)
LEMMA PlaceGoto ==
  ASSUME CallInv, NEW loc, FramesAt(loc), NEW t \in Threads, NEW label,
         label \notin PlaceLabels \/ frame[t].at \in PlaceLabels,
         Goto(t, label), stack' = stack
  PROVE  FramesAt(loc)'
<1>1. /\ \A x \in Threads \ {t} : frame'[x] = frame[x]
      /\ frame'[t].at = label /\ frame'[t].arg = frame[t].arg
  BY FrameFacts DEF Goto, CallInv, Frame
<1> QED BY <1>1 DEF FramesAt, FrameAt

(* The function w of the active frame is elsewhere afterwards.             *)
LEMMA PlaceLeave ==
  ASSUME CallInv, NEW loc \in [Works -> Places], FramesAt(loc),
         NEW t \in Threads, NEW label, label \notin PlaceLabels,
         NEW w \in Works, NEW q \in Places, frame[t].at \in PlaceLabels, frame[t].arg.id = w,
         Goto(t, label), stack' = stack
  PROVE  FramesAt([loc EXCEPT ![w] = q])'
<1>1. /\ \A x \in Threads \ {t} : frame'[x] = frame[x]
      /\ frame'[t].at = label
  BY FrameFacts DEF Goto, CallInv, Frame
<1>2. loc[w] = <<"frame", t, Len(stack[t]) + 1>>
  BY DEF FramesAt, FrameAt
<1>3. Len(stack[t]) \in Nat /\ DOMAIN stack[t] = 1 .. Len(stack[t])
  BY StackFacts
<1>4. ASSUME NEW x \in Threads, NEW i \in Nat, NEW f, FrameAt(loc, x, f, i),
             x # t \/ i # Len(stack[t]) + 1
      PROVE  FrameAt([loc EXCEPT ![w] = q], x, f, i)
  BY <1>2, <1>4, PlaceFacts DEF FrameAt
<1>5. ASSUME NEW x \in Threads
      PROVE  /\ FrameAt([loc EXCEPT ![w] = q], x, frame'[x], Len(stack[x]) + 1)
             /\ \A i \in DOMAIN stack[x] :
                  FrameAt([loc EXCEPT ![w] = q], x, stack[x][i], i)
  <2>1. Len(stack[x]) + 1 \in Nat /\ DOMAIN stack[x] = 1 .. Len(stack[x])
    BY StackFacts
  <2>2. \A i \in DOMAIN stack[x] : i \in Nat /\ (x # t \/ i # Len(stack[t]) + 1)
    BY <1>3, <2>1
  <2>3. \A i \in DOMAIN stack[x] :
          FrameAt([loc EXCEPT ![w] = q], x, stack[x][i], i)
    BY <1>4, <2>2 DEF FramesAt
  <2>4. CASE x = t
    BY <1>1, <2>3, <2>4 DEF FrameAt
  <2>5. CASE x # t
    <3>1. FrameAt(loc, x, frame[x], Len(stack[x]) + 1)
      BY DEF FramesAt
    <3>2. FrameAt([loc EXCEPT ![w] = q], x, frame[x], Len(stack[x]) + 1)
      BY <1>4, <2>1, <2>5, <3>1
    <3>3. frame'[x] = frame[x]
      BY <1>1, <2>5
    <3> QED BY <2>3, <3>2, <3>3
  <2> QED BY <2>4, <2>5
<1> QED BY <1>5 DEF FramesAt, FrameAt

(* The active frame takes up the function w, which was in no frame.        *)
LEMMA PlaceExecute ==
  ASSUME CallInv, NEW loc \in [Works -> Places], FramesAt(loc),
         NEW t \in Threads, NEW e \in Task, NEW loc2,
         e.id \in Works => loc2 = [loc EXCEPT ![e.id] =
                                     <<"frame", t, Len(stack[t]) + 1>>],
         e.id \in Works => \A u, i : loc[e.id] # <<"frame", u, i>>,
         e.id \notin Works => loc2 = loc,
         Execute(t, e), stack' = stack
  PROVE  FramesAt(loc2)'
<1>1. /\ \A x \in Threads \ {t} : frame'[x] = frame[x]
      /\ frame'[t].arg = e
  BY FrameFacts DEF Execute, CallInv, Frame
<1>2. Len(stack[t]) + 1 \in Nat
  BY StackFacts
<1>3. FramesAt(loc2)
  <2>1. CASE e.id \in Works
    <3>1. <<"frame", t, Len(stack[t]) + 1>> \in Places
      BY <1>2, PlaceFacts
    <3> QED BY <2>1, <3>1, FramesMove
  <2>2. CASE e.id \notin Works
    BY <2>2
  <2> QED BY <2>1, <2>2
<1>4. FrameAt(loc2, t, frame'[t], Len(stack[t]) + 1)
  BY <1>1 DEF FrameAt
<1> QED BY <1>1, <1>3, <1>4 DEF FramesAt, FrameAt

(* g holds the function of the active frame.                               *)
SameFunction(t, g) == frame[t].at \in PlaceLabels /\ g.arg = frame[t].arg

(* A call: the frames below end with frames that hold no function, except  *)
(* perhaps the active one, whose function stays where it was.              *)
LEMMA PlaceCall ==
  ASSUME CallInv, NEW loc, FramesAt(loc), NEW t \in Threads, NEW f,
         NEW below \in Seq(Frame), below # <<>>,
         \A i \in 1 .. Len(below) : below[i].at \in PlaceLabels =>
           i = 1 /\ SameFunction(t, below[1]),
         CallOver(t, below, f),
         FrameAt(loc, t, f, Len(stack[t]) + Len(below) + 1)
  PROVE  FramesAt(loc)'
<1> DEFINE s == stack[t]
           n == Len(s)
           m == Len(below)
           u == s \o below
<1>1. s \in Seq(Frame) /\ n \in Nat /\ DOMAIN s = 1 .. n /\ m \in Nat
  BY StackFacts, LenProperties
<1>2. /\ Len(u) = n + m /\ DOMAIN u = 1 .. n + m
      /\ \A i \in 1 .. n + m : u[i] = IF i <= n THEN s[i] ELSE below[i - n]
  BY <1>1, ConcatProperties, LenProperties
<1>3. frame' = [frame EXCEPT ![t] = f] /\ stack' = [stack EXCEPT ![t] = u]
  BY DEF CallOver
<1>4. /\ frame'[t] = f /\ stack'[t] = u
      /\ \A x \in Threads \ {t} : frame'[x] = frame[x] /\ stack'[x] = stack[x]
  BY <1>3 DEF CallInv
<1> HIDE DEF s, n, m, u
<1>5. ASSUME NEW i \in 1 .. n + m PROVE FrameAt(loc, t, u[i], i)
  <2>1. CASE i <= n
    <3>1. i \in DOMAIN s /\ u[i] = s[i]
      BY <1>1, <1>2, <2>1
    <3>2. FrameAt(loc, t, s[i], i)
      BY <3>1 DEF FramesAt, s
    <3> QED BY <3>1, <3>2
  <2>2. CASE ~(i <= n)
    <3>1. i - n \in 1 .. m /\ u[i] = below[i - n]
      BY <1>1, <1>2, <2>2
    <3>2. CASE u[i].at \in PlaceLabels
      <4>1. i - n = 1 /\ SameFunction(t, below[1])
        BY <3>1, <3>2 DEF m
      <4>2. i = n + 1 /\ SameFunction(t, u[i])
        BY <1>1, <3>1, <4>1
      <4>3. FrameAt(loc, t, frame[t], i)
        BY <4>2 DEF FramesAt, n, s
      <4> QED BY <4>2, <4>3 DEF SameFunction, FrameAt
    <3>3. CASE u[i].at \notin PlaceLabels
      BY <3>3 DEF FrameAt
    <3> QED BY <3>2, <3>3
  <2> QED BY <2>1, <2>2
<1>6. FrameAt(loc, t, f, Len(u) + 1)
  BY <1>2 DEF n, m, s
<1>7. ASSUME NEW x \in Threads
      PROVE  /\ FrameAt(loc, x, frame'[x], Len(stack'[x]) + 1)
             /\ \A i \in DOMAIN stack'[x] : FrameAt(loc, x, stack'[x][i], i)
  <2>1. CASE x = t
    BY <1>2, <1>4, <1>5, <1>6, <2>1
  <2>2. CASE x # t
    <3>1. frame'[x] = frame[x] /\ stack'[x] = stack[x]
      BY <1>4, <2>2
    <3> QED BY <3>1 DEF FramesAt
  <2> QED BY <2>1, <2>2
<1> QED BY <1>7 DEF FramesAt, FrameAt

(* A return.                                                               *)
LEMMA PlaceReturn ==
  ASSUME CallInv, NEW loc, FramesAt(loc), NEW t \in Threads, stack[t] # <<>>,
         Return(t)
  PROVE  FramesAt(loc)'
<1> DEFINE s == stack[t]
           n == Len(s)
           u == SubSeq(s, 1, n - 1)
<1>1. s \in Seq(Frame) /\ n \in Nat \ {0} /\ DOMAIN s = 1 .. n
  BY StackFacts, EmptySeq
<1>2. \A i \in 1 .. n : s[i] \in Frame
  BY <1>1, ElementOfSeq
<1>3. /\ DOMAIN u = 1 .. n - 1 /\ Len(u) = n - 1
      /\ \A i \in 1 .. n - 1 : u[i] = s[i]
  <2>1. 1 \in Int /\ n - 1 \in Int /\ \A i \in 1 .. n - 1 : s[i] \in Frame
    BY <1>1, <1>2
  <2> HIDE DEF n
  <2>2. /\ u \in Seq(Frame)
        /\ Len(u) = IF 1 <= n - 1 THEN (n - 1) - 1 + 1 ELSE 0
        /\ \A i \in 1 .. (n - 1) - 1 + 1 : u[i] = s[1 + i - 1]
    BY <2>1, SubSeqProperties
  <2> HIDE DEF s, u
  <2>3. Len(u) = n - 1 /\ DOMAIN u = 1 .. Len(u)
    BY <1>1, <2>2, LenProperties
  <2> QED BY <1>1, <2>2, <2>3
<1>4. /\ frame' = [frame EXCEPT ![t] = s[n]]
      /\ stack' = [stack EXCEPT ![t] = u]
  BY DEF Return
<1>5. /\ frame'[t] = s[n] /\ stack'[t] = u
      /\ \A x \in Threads \ {t} : frame'[x] = frame[x] /\ stack'[x] = stack[x]
  BY <1>4 DEF CallInv
<1> HIDE DEF s, n, u
<1>6. \A i \in 1 .. n : FrameAt(loc, t, s[i], i)
  BY <1>1 DEF FramesAt, s
<1>7. FrameAt(loc, t, s[n], Len(u) + 1)
  <2>1. Len(u) + 1 = n /\ n \in 1 .. n
    BY <1>1, <1>3
  <2> QED BY <1>6, <2>1
<1>8. \A i \in DOMAIN u : FrameAt(loc, t, u[i], i)
  <2>1. ASSUME NEW i \in DOMAIN u PROVE i \in 1 .. n /\ u[i] = s[i]
    BY <1>1, <1>3
  <2> QED BY <1>6, <2>1
<1>9. ASSUME NEW x \in Threads
      PROVE  /\ FrameAt(loc, x, frame'[x], Len(stack'[x]) + 1)
             /\ \A i \in DOMAIN stack'[x] : FrameAt(loc, x, stack'[x][i], i)
  <2>1. CASE x = t
    BY <1>5, <1>7, <1>8, <2>1
  <2>2. CASE x # t
    <3>1. frame'[x] = frame[x] /\ stack'[x] = stack[x]
      BY <1>5, <2>2
    <3> QED BY <3>1 DEF FramesAt
  <2> QED BY <2>1, <2>2
<1> QED BY <1>9 DEF FramesAt, FrameAt
-----------------------------------------------------------------------------
(* OnceInv is inductive.                                                   *)

(* The functions that are nowhere stay there when another one moves.       *)
LEMMA UnseenMove ==
  ASSUME NEW loc \in [Works -> Places], NEW w \in Works, NEW q \in Places,
         UnseenAt(loc), loc[w] # Nowhere
  PROVE  UnseenAt([loc EXCEPT ![w] = q])
BY DEF UnseenAt

(* The steps keep OnceInv: the queues stay, and so do the places;          *)
LEMMA OnceQuiet ==
  ASSUME NEW loc \in [Works -> Places], QueuesAt(loc), UnseenAt(loc),
         FramesAt(loc)', UNCHANGED <<highPri, events, used, posted>>
  PROVE  OnceInv'
BY DEF OnceInv, Located, QueuesAt, UnseenAt

(* the active frame goes on to another label;                              *)
LEMMA OnceGoto ==
  ASSUME CallInv, OnceInv, NEW t \in Threads, NEW label,
         label \notin PlaceLabels \/ frame[t].at \in PlaceLabels,
         Goto(t, label), stack' = stack,
         UNCHANGED <<highPri, events, used, posted>>
  PROVE  OnceInv'
BY PlaceGoto, OnceQuiet DEF OnceInv, Located

(* the active frame ends.                                                  *)
LEMMA OnceReturn ==
  ASSUME CallInv, OnceInv, NEW t \in Threads, stack[t] # <<>>, Return(t),
         UNCHANGED <<highPri, events, used, posted>>
  PROVE  OnceInv'
BY PlaceReturn, OnceQuiet DEF OnceInv, Located

(* A call that hands over no function of users.                            *)
LEMMA OnceCall ==
  ASSUME CallInv, OnceInv, NEW t \in Threads, NEW f,
         f.at \notin PlaceLabels \/ f.arg.id \notin Works,
         NEW below \in Seq(Frame), below # <<>>,
         \A i \in 1 .. Len(below) : below[i].at \in PlaceLabels =>
           i = 1 /\ SameFunction(t, below[1]),
         CallOver(t, below, f),
         UNCHANGED <<highPri, events, posted>>,
         used \subseteq used', used' \cap Works = used \cap Works
  PROVE  OnceInv'
<1>1. PICK loc \in [Works -> Places] : Located(loc)
  BY DEF OnceInv
<1>2. FramesAt(loc)'
  <2>1. FrameAt(loc, t, f, Len(stack[t]) + Len(below) + 1)
    BY DEF FrameAt
  <2> QED BY <1>1, <2>1, PlaceCall DEF Located
<1>3. UnseenAt(loc)' /\ QueuesAt(loc)'
  BY <1>1 DEF Located, UnseenAt, QueuesAt
<1> QED BY <1>1, <1>2, <1>3 DEF OnceInv, Located

(* A function is handed over.                                              *)
LEMMA OnceSubmit ==
  ASSUME TypeOK, CallInv, OnceInv, NEW t \in Threads, NEW label, NEW l \in Loops,
         NEW e \in Task, e.id \in Works, Submit(t, label, l, e)
  PROVE  OnceInv'
<1> DEFINE w == e.id
           f == FrameOf(label, l, e)
<1>0. PICK n \in Nat : n = Len(stack[t]) + 2
  BY StackFacts
<1> DEFINE p == <<"frame", t, n>>
<1>1. PICK loc \in [Works -> Places] : Located(loc)
  BY DEF OnceInv
<1> DEFINE loc2 == [loc EXCEPT ![w] = p]
<1>2. p \in Places
  BY PlaceFacts
<1>3. loc[w] = Nowhere /\ w \in Works
  BY <1>1 DEF Submit, Located, UnseenAt
<1>4. loc2 \in [Works -> Places] /\ loc2[w] = p
  BY <1>2, <1>3
<1>5. QueuesAt(loc2)
  BY <1>1, <1>2, <1>3, QueuesMove, PlaceFacts DEF Located
<1>6. FramesAt(loc2)
  BY <1>1, <1>2, <1>3, FramesMove, PlaceFacts DEF Located
<1>7. UnseenAt(loc2)'
  <2>1. used' = used \cup {w} /\ posted' = posted /\ w \notin used
    BY DEF Submit
  <2> QED BY <1>1, <1>3, <2>1 DEF Located, UnseenAt
<1>8. FramesAt(loc2)'
  <2>1. f.arg = e
    BY DEF FrameOf
  <2>2. FrameAt(loc2, t, f, Len(stack[t]) + Len(<<frame[t]>>) + 1)
    <3>1. Len(stack[t]) + Len(<<frame[t]>>) + 1 = n
      BY <1>0, StackFacts
    <3> QED BY <1>4, <2>1, <3>1 DEF FrameAt
  <2>3. /\ <<frame[t]>> \in Seq(Frame) /\ <<frame[t]>> # <<>>
        /\ \A i \in 1 .. Len(<<frame[t]>>) :
             <<frame[t]>>[i].at \in PlaceLabels =>
               i = 1 /\ SameFunction(t, <<frame[t]>>[1])
    BY FrameFacts DEF SameFunction
  <2>4. CallOver(t, <<frame[t]>>, f)
    BY DEF Submit, Call
  <2> HIDE DEF f, loc2, p, w
  <2> QED BY <1>6, <2>2, <2>3, <2>4, PlaceCall
<1>9. QueuesAt(loc2)'
  BY <1>5 DEF QueuesAt, Submit, queueVars
<1> QED BY <1>4, <1>7, <1>8, <1>9 DEF OnceInv, Located

(* The loop's thread takes the first function of a queue.                  *)
LEMMA OncePopHigh ==
  ASSUME TypeOK, CallInv, OnceInv, NEW t \in Threads, NEW l \in Loops,
         highPri[l] # <<>>, Execute(t, Head(highPri[l])),
         highPri' = [highPri EXCEPT ![l] = Tail(@)],
         UNCHANGED <<events, stack, used, posted>>
  PROVE  OnceInv'
<1>1. PICK loc \in [Works -> Places] : Located(loc)
  BY DEF OnceInv
<1>2. PICK n \in Nat : n = Len(stack[t]) + 1
  BY StackFacts
<1> DEFINE p == <<"high", l, 0>>
           q == <<"frame", t, n>>
<1>3. p \in Places /\ q \in Places
  BY PlaceFacts
<1>4. PICK e : e = Head(highPri[l])
  OBVIOUS
<1>5. /\ highPri[l] \in Seq(TasksAt(loc, p)) /\ Once(highPri[l])
      /\ highPri \in [Loops -> Seq(Task)]
  BY <1>1 DEF Located, QueuesAt, TypeOK, DataOK
<1>6. /\ e \in TasksAt(loc, p) /\ e \in Task
      /\ Once(Tail(highPri[l])) /\ Tail(highPri[l]) \in Seq(TasksAt(loc, p))
      /\ e.id \in Works =>
           Tail(highPri[l]) \in Seq(TasksAt([loc EXCEPT ![e.id] = q], p))
  <2> HIDE DEF p, q
  <2>1. /\ e \in TasksAt(loc, p)
        /\ Once(Tail(highPri[l])) /\ Tail(highPri[l]) \in Seq(TasksAt(loc, p))
        /\ e.id \in Works =>
             Tail(highPri[l]) \in Seq(TasksAt([loc EXCEPT ![e.id] = q], p))
    BY <1>3, <1>4, <1>5, TailMove
  <2>2. e \in Task
    BY <2>1 DEF TasksAt
  <2> QED BY <2>1, <2>2
<1>7. /\ highPri'[l] = Tail(highPri[l])
      /\ \A m \in Loops \ {l} : highPri'[m] = highPri[m]
  BY <1>5
<1>8. CASE e.id \in Works
  <2> DEFINE loc2 == [loc EXCEPT ![e.id] = q]
  <2>1. loc[e.id] = p /\ loc2 \in [Works -> Places]
    BY <1>3, <1>6, <1>8 DEF TasksAt
  <2>2. FramesAt(loc2)'
    <3>1. \A u, i : loc[e.id] # <<"frame", u, i>>
      BY <2>1, PlaceFacts
    <3>2. Execute(t, e) /\ stack' = stack
      BY <1>4
    <3>3. e.id \in Works => loc2 = [loc EXCEPT ![e.id] = <<"frame", t, Len(stack[t]) + 1>>]
      BY <1>2
    <3> HIDE DEF loc2
    <3> QED BY <1>1, <1>6, <1>8, <3>1, <3>2, <3>3, PlaceExecute DEF Located
  <2>3. UnseenAt(loc2)'
    <3>1. UnseenAt(loc2)
      BY <1>1, <1>3, <1>8, <2>1, UnseenMove, PlaceFacts DEF Located
    <3> QED BY <3>1 DEF UnseenAt
  <2>4. ASSUME NEW m \in Loops
        PROVE  /\ highPri'[m] \in Seq(TasksAt(loc2, <<"high", m, 0>>)) /\ Once(highPri'[m])
               /\ events'[m] \in Seq(TasksAt(loc2, <<"low", m, 0>>)) /\ Once(events'[m])
    <3>1. /\ highPri[m] \in Seq(TasksAt(loc, <<"high", m, 0>>)) /\ Once(highPri[m])
          /\ events[m] \in Seq(TasksAt(loc, <<"low", m, 0>>)) /\ Once(events[m])
      BY <1>1 DEF Located, QueuesAt
    <3>2. loc[e.id] # <<"low", m, 0>>
      BY <2>1, PlaceFacts
    <3>3. events[m] \in Seq(TasksAt(loc2, <<"low", m, 0>>))
      BY <1>3, <1>8, <3>1, <3>2, TasksMove
    <3>4. CASE m = l
      BY <1>6, <1>7, <1>8, <3>1, <3>3, <3>4
    <3>5. CASE m # l
      <4>1. loc[e.id] # <<"high", m, 0>>
        BY <2>1, <3>5, PlaceFacts
      <4>2. highPri[m] \in Seq(TasksAt(loc2, <<"high", m, 0>>))
        BY <1>3, <1>8, <3>1, <4>1, TasksMove
      <4> QED BY <1>7, <3>1, <3>3, <3>5, <4>2
    <3> QED BY <3>4, <3>5
  <2> HIDE DEF loc2
  <2>5. QueuesAt(loc2)'
    BY <2>4 DEF QueuesAt
  <2> QED BY <2>1, <2>2, <2>3, <2>5 DEF OnceInv, Located
<1>9. CASE e.id \notin Works
  <2>1. FramesAt(loc)'
    <3>1. Execute(t, e) /\ stack' = stack
      BY <1>4
    <3> QED BY <1>1, <1>6, <1>9, <3>1, PlaceExecute DEF Located
  <2>2. UnseenAt(loc)'
    BY <1>1 DEF Located, UnseenAt
  <2>3. QueuesAt(loc)'
    <3>1. ASSUME NEW m \in Loops
          PROVE  /\ highPri'[m] \in Seq(TasksAt(loc, <<"high", m, 0>>)) /\ Once(highPri'[m])
                 /\ events'[m] \in Seq(TasksAt(loc, <<"low", m, 0>>)) /\ Once(events'[m])
      BY <1>1, <1>6, <1>7 DEF Located, QueuesAt
    <3> QED BY <3>1 DEF QueuesAt
  <2> QED BY <2>1, <2>2, <2>3 DEF OnceInv, Located
<1> QED BY <1>8, <1>9

(* The same from the queue of the other priorities.                        *)
LEMMA OncePopLow ==
  ASSUME TypeOK, CallInv, OnceInv, NEW t \in Threads, NEW l \in Loops,
         events[l] # <<>>, Execute(t, Head(events[l])),
         events' = [events EXCEPT ![l] = Tail(@)],
         UNCHANGED <<highPri, stack, used, posted>>
  PROVE  OnceInv'
<1>1. PICK loc \in [Works -> Places] : Located(loc)
  BY DEF OnceInv
<1>2. PICK n \in Nat : n = Len(stack[t]) + 1
  BY StackFacts
<1> DEFINE p == <<"low", l, 0>>
           q == <<"frame", t, n>>
<1>3. p \in Places /\ q \in Places
  BY PlaceFacts
<1>4. PICK e : e = Head(events[l])
  OBVIOUS
<1>5. /\ events[l] \in Seq(TasksAt(loc, p)) /\ Once(events[l])
      /\ events \in [Loops -> Seq(Task)]
  BY <1>1 DEF Located, QueuesAt, TypeOK, DataOK
<1>6. /\ e \in TasksAt(loc, p) /\ e \in Task
      /\ Once(Tail(events[l])) /\ Tail(events[l]) \in Seq(TasksAt(loc, p))
      /\ e.id \in Works =>
           Tail(events[l]) \in Seq(TasksAt([loc EXCEPT ![e.id] = q], p))
  <2> HIDE DEF p, q
  <2>1. /\ e \in TasksAt(loc, p)
        /\ Once(Tail(events[l])) /\ Tail(events[l]) \in Seq(TasksAt(loc, p))
        /\ e.id \in Works =>
             Tail(events[l]) \in Seq(TasksAt([loc EXCEPT ![e.id] = q], p))
    BY <1>3, <1>4, <1>5, TailMove
  <2>2. e \in Task
    BY <2>1 DEF TasksAt
  <2> QED BY <2>1, <2>2
<1>7. /\ events'[l] = Tail(events[l])
      /\ \A m \in Loops \ {l} : events'[m] = events[m]
  BY <1>5
<1>8. CASE e.id \in Works
  <2> DEFINE loc2 == [loc EXCEPT ![e.id] = q]
  <2>1. loc[e.id] = p /\ loc2 \in [Works -> Places]
    BY <1>3, <1>6, <1>8 DEF TasksAt
  <2>2. FramesAt(loc2)'
    <3>1. \A u, i : loc[e.id] # <<"frame", u, i>>
      BY <2>1, PlaceFacts
    <3>2. Execute(t, e) /\ stack' = stack
      BY <1>4
    <3>3. e.id \in Works => loc2 = [loc EXCEPT ![e.id] = <<"frame", t, Len(stack[t]) + 1>>]
      BY <1>2
    <3> HIDE DEF loc2
    <3> QED BY <1>1, <1>6, <1>8, <3>1, <3>2, <3>3, PlaceExecute DEF Located
  <2>3. UnseenAt(loc2)'
    <3>1. UnseenAt(loc2)
      BY <1>1, <1>3, <1>8, <2>1, UnseenMove, PlaceFacts DEF Located
    <3> QED BY <3>1 DEF UnseenAt
  <2>4. ASSUME NEW m \in Loops
        PROVE  /\ events'[m] \in Seq(TasksAt(loc2, <<"low", m, 0>>)) /\ Once(events'[m])
               /\ highPri'[m] \in Seq(TasksAt(loc2, <<"high", m, 0>>)) /\ Once(highPri'[m])
    <3>1. /\ events[m] \in Seq(TasksAt(loc, <<"low", m, 0>>)) /\ Once(events[m])
          /\ highPri[m] \in Seq(TasksAt(loc, <<"high", m, 0>>)) /\ Once(highPri[m])
      BY <1>1 DEF Located, QueuesAt
    <3>2. loc[e.id] # <<"high", m, 0>>
      BY <2>1, PlaceFacts
    <3>3. highPri[m] \in Seq(TasksAt(loc2, <<"high", m, 0>>))
      BY <1>3, <1>8, <3>1, <3>2, TasksMove
    <3>4. CASE m = l
      BY <1>6, <1>7, <1>8, <3>1, <3>3, <3>4
    <3>5. CASE m # l
      <4>1. loc[e.id] # <<"low", m, 0>>
        BY <2>1, <3>5, PlaceFacts
      <4>2. events[m] \in Seq(TasksAt(loc2, <<"low", m, 0>>))
        BY <1>3, <1>8, <3>1, <4>1, TasksMove
      <4> QED BY <1>7, <3>1, <3>3, <3>5, <4>2
    <3> QED BY <3>4, <3>5
  <2> HIDE DEF loc2
  <2>5. QueuesAt(loc2)'
    BY <2>4 DEF QueuesAt
  <2> QED BY <2>1, <2>2, <2>3, <2>5 DEF OnceInv, Located
<1>9. CASE e.id \notin Works
  <2>1. FramesAt(loc)'
    <3>1. Execute(t, e) /\ stack' = stack
      BY <1>4
    <3> QED BY <1>1, <1>6, <1>9, <3>1, PlaceExecute DEF Located
  <2>2. UnseenAt(loc)'
    BY <1>1 DEF Located, UnseenAt
  <2>3. QueuesAt(loc)'
    <3>1. ASSUME NEW m \in Loops
          PROVE  /\ events'[m] \in Seq(TasksAt(loc, <<"low", m, 0>>)) /\ Once(events'[m])
                 /\ highPri'[m] \in Seq(TasksAt(loc, <<"high", m, 0>>)) /\ Once(highPri'[m])
      BY <1>1, <1>6, <1>7 DEF Located, QueuesAt
    <3> QED BY <3>1 DEF QueuesAt
  <2> QED BY <2>1, <2>2, <2>3 DEF OnceInv, Located
<1> QED BY <1>8, <1>9

(* The function workSync wraps has run.                                    *)
LEMMA OnceFinish ==
  ASSUME TypeOK, CallInv, OnceInv, NEW t \in Threads, Finish(t)
  PROVE  OnceInv'
<1>1. PICK loc \in [Works -> Places] : Located(loc)
  BY DEF OnceInv
<1>2. /\ At(t, "exec") /\ Goto(t, "next")
      /\ UNCHANGED <<highPri, events, stack, used>>
  BY DEF Finish, queueVars
<1>3. CASE Arg(t).kind # "sync"
  BY <1>2, <1>3, OnceGoto DEF Finish, PlaceLabels, DeleteLabels
<1>4. CASE Arg(t).kind = "sync"
  <2>1. PICK w \in Works : w = Arg(t).id
    BY <1>4, FrameFacts DEF Task
  <2> DEFINE loc2 == [loc EXCEPT ![w] = Nowhere]
  <2>2. posted' = posted \cup {w}
    BY <1>4, <2>1 DEF Finish
  <2>3. loc[w] = <<"frame", t, Len(stack[t]) + 1>>
    BY <1>1, <1>2, <2>1 DEF Located, FramesAt, FrameAt, At, Arg, PlaceLabels
  <2>4. loc2 \in [Works -> Places]
    BY PlaceFacts
  <2>5. FramesAt(loc2)'
    BY <1>1, <1>2, <2>1, PlaceLeave, PlaceFacts
       DEF Located, At, Arg, PlaceLabels, DeleteLabels
  <2>a. /\ loc[w] # Nowhere
        /\ \A l \in Loops : loc[w] # <<"high", l, 0>> /\ loc[w] # <<"low", l, 0>>
    BY <2>3, PlaceFacts
  <2>6. QueuesAt(loc2)
    BY <1>1, <2>a, QueuesMove, PlaceFacts DEF Located
  <2>7. QueuesAt(loc2)'
    BY <1>2, <2>6 DEF QueuesAt
  <2>8. UnseenAt(loc2)'
    <3>1. w \in used
      BY <1>1, <2>a DEF Located, UnseenAt
    <3> QED BY <1>1, <1>2, <2>2, <3>1 DEF Located, UnseenAt
  <2> HIDE DEF loc2
  <2> QED BY <2>4, <2>5, <2>7, <2>8 DEF OnceInv, Located
<1> QED BY <1>3, <1>4

(* A function comes into its queue.                                        *)
LEMMA OncePush ==
  ASSUME TypeOK, CallInv, OnceInv, NEW t \in Threads, Push(t)
  PROVE  OnceInv'
<1>1. PICK loc \in [Works -> Places] : Located(loc)
  BY DEF OnceInv
<1>2. PICK e \in Task : e = Arg(t)
  BY FrameFacts
<1>3. PICK l \in Loops : l = On(t)
  BY FrameFacts
<1>4. /\ At(t, "push") /\ Goto(t, "post") /\ UNCHANGED <<stack, used, posted>>
      /\ PushHigh(l, e) \/ PushLow(l, e)
  BY <1>2, <1>3 DEF Push, userVars
<1>5. highPri \in [Loops -> Seq(Task)] /\ events \in [Loops -> Seq(Task)]
  BY DEF TypeOK, DataOK
<1>6. ASSUME NEW p \in {<<"high", l, 0>>, <<"low", l, 0>>},
             NEW loc2, loc2 = IF e.id \in Works THEN [loc EXCEPT ![e.id] = p] ELSE loc
      PROVE  /\ loc2 \in [Works -> Places]
             /\ e.id \in Works => loc[e.id] # p /\ loc2 = [loc EXCEPT ![e.id] = p]
             /\ e.id \notin Works => loc2 = loc
             /\ QueuesAt(loc2) /\ FramesAt(loc2)' /\ UnseenAt(loc2)'
             /\ QueuesAt(loc)
  <2>1. p \in Places
    BY <1>6, PlaceFacts
  <2>2. CASE e.id \in Works
    <3>1. loc[e.id] = <<"frame", t, Len(stack[t]) + 1>>
      BY <1>1, <1>2, <1>4, <2>2 DEF Located, FramesAt, FrameAt, At, Arg, PlaceLabels
    <3>2. loc2 \in [Works -> Places] /\ loc2 = [loc EXCEPT ![e.id] = p]
      BY <1>6, <2>1, <2>2
    <3>3. /\ loc[e.id] # p /\ loc[e.id] # Nowhere
          /\ \A m \in Loops : loc[e.id] # <<"high", m, 0>> /\ loc[e.id] # <<"low", m, 0>>
      BY <1>6, <3>1, PlaceFacts
    <3>4. QueuesAt(loc2)
      BY <1>1, <2>1, <2>2, <3>2, <3>3, QueuesMove DEF Located
    <3>5. FramesAt(loc2)'
      BY <1>1, <1>2, <1>4, <2>1, <2>2, <3>2, PlaceLeave
         DEF Located, At, Arg, PlaceLabels, DeleteLabels
    <3>6. UnseenAt(loc2)
      BY <1>1, <2>1, <2>2, <3>2, <3>3, UnseenMove DEF Located
    <3>7. UnseenAt(loc2)'
      BY <1>4, <3>6 DEF UnseenAt
    <3> QED BY <1>1, <2>2, <3>2, <3>3, <3>4, <3>5, <3>7 DEF Located
  <2>3. CASE e.id \notin Works
    <3>1. loc2 = loc
      BY <1>6, <2>3
    <3>2. FramesAt(loc)'
      BY <1>1, <1>4, PlaceGoto DEF Located, PlaceLabels, DeleteLabels
    <3>3. UnseenAt(loc)'
      BY <1>1, <1>4 DEF Located, UnseenAt
    <3> QED BY <1>1, <2>3, <3>1, <3>2, <3>3 DEF Located
  <2> QED BY <2>2, <2>3
<1>7. ASSUME NEW p \in {<<"high", l, 0>>, <<"low", l, 0>>},
             NEW s, s = IF p = <<"high", l, 0>> THEN highPri[l] ELSE events[l],
             NEW k \in 0 .. Len(s), NEW u \in Seq(Task),
             Len(u) = Len(s) + 1,
             \A i \in 1 .. Len(s) + 1 :
               u[i] = IF i <= k THEN s[i] ELSE IF i = k + 1 THEN e ELSE s[i - 1],
             highPri' = IF p = <<"high", l, 0>>
                          THEN [highPri EXCEPT ![l] = u] ELSE highPri,
             events' = IF p = <<"high", l, 0>>
                         THEN events ELSE [events EXCEPT ![l] = u]
      PROVE  OnceInv'
  <2>1. PICK loc2 : loc2 = IF e.id \in Works THEN [loc EXCEPT ![e.id] = p] ELSE loc
    OBVIOUS
  <2>2. /\ loc2 \in [Works -> Places]
        /\ e.id \in Works => loc[e.id] # p /\ loc2 = [loc EXCEPT ![e.id] = p]
        /\ e.id \notin Works => loc2 = loc
        /\ QueuesAt(loc2) /\ FramesAt(loc2)' /\ UnseenAt(loc2)'
        /\ QueuesAt(loc)
    BY <1>6, <1>7, <2>1
  <2>3. <<"high", l, 0>> # <<"low", l, 0>>
    BY PlaceFacts
  <2>4. s \in Seq(TasksAt(loc, p)) /\ Once(s)
    BY <1>7, <2>2, <2>3 DEF QueuesAt
  <2>5. Len(s) \in Nat /\ DOMAIN u = 1 .. Len(s) + 1
    BY <1>7, <2>4, LenProperties
  <2>6. Once(u) /\ \A i \in 1 .. Len(s) + 1 : u[i] \in TasksAt(loc2, p)
    <3>1. Inserted(u, s, k, e)
      BY <1>7, <2>5 DEF Inserted
    <3>2. Arrives(loc, loc2, e, p)
      BY <2>2 DEF Arrives
    <3> QED BY <2>2, <2>4, <3>1, <3>2, InsertMove
  <2>7. u \in Seq(TasksAt(loc2, p))
    <3>1. u = [i \in 1 .. Len(s) + 1 |-> u[i]]
      BY <1>7, <2>5, LenProperties
    <3> QED BY <2>5, <2>6, <3>1, SeqDef
  <2>8. QueuesAt(loc2)'
    BY <1>5, <1>7, <2>2, <2>3, <2>6, <2>7 DEF QueuesAt
  <2> QED BY <2>2, <2>8 DEF OnceInv, Located
<1>8. CASE PushHigh(l, e)
  <2> DEFINE s == highPri[l]
             u == Append(s, e)
  <2>1. s \in Seq(Task) /\ Len(s) \in Nat /\ Len(s) \in 0 .. Len(s)
    BY <1>5, LenProperties
  <2>2. /\ u \in Seq(Task) /\ Len(u) = Len(s) + 1
        /\ \A i \in 1 .. Len(s) : u[i] = s[i]
        /\ u[Len(s) + 1] = e
    BY <2>1, AppendProperties
  <2>3. \A i \in 1 .. Len(s) + 1 :
          u[i] = IF i <= Len(s) THEN s[i]
                 ELSE IF i = Len(s) + 1 THEN e ELSE s[i - 1]
    BY <2>1, <2>2
  <2>4. highPri' = [highPri EXCEPT ![l] = u] /\ events' = events
    BY <1>8 DEF PushHigh
  <2> HIDE DEF s, u
  <2> QED BY <1>7, <2>1, <2>2, <2>3, <2>4 DEF s
<1>9. CASE PushLow(l, e)
  <2> DEFINE s == events[l]
  <2>1. s \in Seq(Task) /\ Len(s) \in Nat
    BY <1>5, LenProperties
  <2>2. PICK k \in 0 .. Len(s) : events' = [events EXCEPT ![l] = Emplace(s, k, e)]
    BY <1>9 DEF PushLow
  <2>3. highPri' = highPri /\ <<"high", l, 0>> # <<"low", l, 0>>
    BY <1>9, PlaceFacts DEF PushLow
  <2> DEFINE u == Emplace(s, k, e)
  <2>4. u \in Seq(Task) /\ Len(u) = Len(s) + 1
    BY <2>1, EmplaceType
  <2>5. \A i \in 1 .. Len(s) + 1 :
          u[i] = IF i <= k THEN s[i] ELSE IF i = k + 1 THEN e ELSE s[i - 1]
    BY <2>1, EmplaceElements
  <2> HIDE DEF s, u
  <2>6. events' = [events EXCEPT ![l] = u]
    BY <2>2 DEF u
  <2> QED BY <1>7, <2>3, <2>4, <2>5, <2>6 DEF s
<1> QED BY <1>4, <1>8, <1>9

(* disconnectFun hands over the removal of the connection.                 *)
LEMMA OnceDisconnect ==
  ASSUME CallInv, OnceInv, NEW t \in Threads, NEW l \in Loops,
         NEW r \in Connects, DisconnectFun(t, l, r),
         UNCHANGED <<highPri, events, used, posted>>
  PROVE  OnceInv'
<1> DEFINE g == FrameOf("remove", l, TaskOf(r, "unbind"))
           below == <<frame[t], g>>
<1>1. PICK s \in Loops :
        CallOver(t, below, FrameOf("push", s, TaskOf(r, "unbind")))
  BY DEF DisconnectFun
<1>2. g \in Frame /\ g.at = "remove"
  BY TaskFacts DEF FrameOf, Frame, Labels
<1>3. /\ below \in Seq(Frame) /\ below # <<>> /\ Len(below) = 2
      /\ below[1] = frame[t] /\ below[2] = g
  <2> HIDE DEF g
  <2> QED BY <1>2, FrameFacts
<1>4. \A i \in 1 .. Len(below) : below[i].at \in PlaceLabels =>
        i = 1 /\ SameFunction(t, below[1])
  <2> HIDE DEF g, below
  <2> QED BY <1>2, <1>3 DEF PlaceLabels, DeleteLabels, SameFunction
<1>5. FrameOf("push", s, TaskOf(r, "unbind")).arg.id \notin Works
  BY LoopAssumption DEF FrameOf, TaskOf
<1> HIDE DEF g, below
<1> QED BY <1>1, <1>3, <1>4, <1>5, OnceCall

(* OnceInv is inductive.                                                   *)
LEMMA OnceNext ==
  ASSUME TypeOK, CallInv, OnceInv, [Next]_vars
  PROVE  OnceInv'
<1> USE LoopAssumption DEF queueVars, userVars
<1>0. ASSUME NEW t \in Threads, NEW g \in Frame, NEW f,
             g.at \in PlaceLabels => SameFunction(t, g),
             f.at \notin PlaceLabels \/ f.arg.id \notin Works,
             CallOver(t, <<g>>, f),
             UNCHANGED <<highPri, events, posted>>,
             used \subseteq used', used' \cap Works = used \cap Works
      PROVE  OnceInv'
  <2>1. /\ <<g>> \in Seq(Frame) /\ <<g>> # <<>>
        /\ \A i \in 1 .. Len(<<g>>) : <<g>>[i].at \in PlaceLabels =>
             i = 1 /\ SameFunction(t, <<g>>[1])
    BY <1>0
  <2> QED BY <1>0, <2>1, OnceCall
<1> USE DEF PlaceLabels, DeleteLabels
<1>1. ASSUME NEW l \in Loops, Check(l) PROVE OnceInv'
  BY <1>1, OnceGoto DEF Check, Threads
<1>2. ASSUME NEW l \in Loops, Wait(l) PROVE OnceInv'
  <2> DEFINE g == [frame[l] EXCEPT !.at = "check"]
  <2>1. l \in Threads /\ CallOver(l, <<g>>, Pump(l))
    BY <1>2 DEF Wait, Threads
  <2>2. g \in Frame /\ g.at = "check" /\ Pump(l).at = "pop"
    BY <2>1, FrameFacts DEF Frame, Labels, Pump, FrameOf
  <2> HIDE DEF g
  <2> QED BY <1>0, <1>2, <2>1, <2>2 DEF Wait
<1>3. ASSUME NEW l \in Loops, Reap(l) PROVE OnceInv'
  BY <1>3, OnceGoto DEF Reap, Threads
<1>4. ASSUME NEW t \in Threads, PopHigh(t) PROVE OnceInv'
  BY <1>4, FrameFacts, OnceGoto, OncePopHigh DEF PopHigh
<1>5. ASSUME NEW t \in Threads, PopLow(t) PROVE OnceInv'
  BY <1>5, FrameFacts, OnceReturn, OncePopLow DEF PopLow, At, BaseLabels
<1>6. ASSUME NEW t \in Threads, Pause(t) \/ Unbind(t) PROVE OnceInv'
  BY <1>6, OnceGoto DEF Pause, Unbind
<1>7. ASSUME NEW t \in Threads, NextEvent(t) PROVE OnceInv'
  BY <1>7, FrameFacts, OnceGoto, OnceReturn DEF NextEvent, At, BaseLabels
<1>8. ASSUME NEW t \in Threads, Post(t) PROVE OnceInv'
  BY <1>8, FrameFacts, OnceGoto, OnceReturn DEF Post, At, BaseLabels
<1>9. ASSUME NEW t \in Threads,
             \/ Ack(t) \/ EndBody(t)
             \/ AddSharedConnectBase(t) \/ RemoveSharedConnectBase(t)
      PROVE  OnceInv'
  BY <1>9, FrameFacts, OnceReturn
     DEF Ack, EndBody, AddSharedConnectBase, RemoveSharedConnectBase, At,
         BaseLabels
<1>10. ASSUME NEW t \in Threads, ProcessFirst(t) PROVE OnceInv'
  <2> DEFINE g == [frame[t] EXCEPT !.at = "begin"]
  <2>1. \/ CallOver(t, <<g>>, Pump(On(t)))
        \/ Goto(t, "begin") /\ stack' = stack
    BY <1>10 DEF ProcessFirst
  <2>2. /\ g \in Frame /\ g.at = "begin" /\ g.arg = frame[t].arg
        /\ Pump(On(t)).at = "pop" /\ frame[t].at = "process"
    BY <1>10, FrameFacts DEF Frame, Labels, Pump, FrameOf, ProcessFirst, At
  <2>3. UNCHANGED <<highPri, events, used, posted>>
    BY <1>10 DEF ProcessFirst
  <2> HIDE DEF g
  <2>4. SameFunction(t, g)
    BY <2>2 DEF SameFunction
  <2> QED BY <1>0, <2>1, <2>2, <2>3, <2>4, OnceGoto
<1>11. ASSUME NEW t \in Threads, BeginBody(t) PROVE OnceInv'
  BY <1>11, OnceGoto DEF BeginBody, At
<1>12. ASSUME NEW t \in Threads, ManualWake(t) PROVE OnceInv'
  BY <1>12, FrameFacts, OnceGoto, OnceReturn DEF ManualWake, At, BaseLabels
<1>13. ASSUME NEW t \in Threads, Register(t) PROVE OnceInv'
  <2> DEFINE g == [frame[t] EXCEPT !.at = "next"]
  <2>1. PICK l \in Loops : CallOver(t, <<g>>, FrameOf("add", l, Arg(t)))
    BY <1>13 DEF Register
  <2>2. g \in Frame /\ g.at = "next" /\ FrameOf("add", l, Arg(t)).at = "add"
    BY FrameFacts DEF Frame, Labels, PumpLabels, FrameOf
  <2>3. UNCHANGED <<highPri, events, used, posted>>
    BY <1>13 DEF Register
  <2> HIDE DEF g
  <2> QED BY <1>0, <2>1, <2>2, <2>3
<1>14. ASSUME NEW t \in Threads,
              DelLock(t) \/ DelAlive(t) \/ DelTerminate(t) \/ DelRun(t)
       PROVE  OnceInv'
  BY <1>14, OnceGoto DEF DelLock, DelAlive, DelTerminate, DelRun, At
<1>15. ASSUME NEW t \in Threads, DelConnects(t) PROVE OnceInv'
  <2>1. CASE connects[On(t)] \cap connAlive # {}
    <3>1. PICK r \in connects[On(t)] : DisconnectFun(t, On(t), r)
      BY <1>15, <2>1 DEF DelConnects
    <3>2. r \in Connects /\ On(t) \in Loops
      BY FrameFacts DEF TypeOK, DataOK
    <3> QED BY <1>15, <3>1, <3>2, OnceDisconnect DEF DelConnects
  <2>2. CASE ~(connects[On(t)] \cap connAlive # {})
    BY <1>15, <2>2, OnceGoto DEF DelConnects, At
  <2> QED BY <2>1, <2>2
<1>16. ASSUME NEW t \in Threads, UserCall(t) PROVE OnceInv'
  <2>1. ASSUME NEW f, Call(t, f),
               f.at \notin PlaceLabels \/ f.arg.id \notin Works,
               UNCHANGED <<highPri, events, posted>>,
               used \subseteq used', used' \cap Works = used \cap Works
        PROVE  OnceInv'
    BY <1>0, <2>1, FrameFacts DEF Call, SameFunction
  <2>2. ASSUME NEW l \in Loops, NEW w \in Works, NEW p \in Priorities,
               Work(t, l, w, p) \/ WorkSync(t, l, w, p)
        PROVE  OnceInv'
    BY <2>2, TaskFacts, OnceSubmit DEF Work, WorkSync, TaskOf
  <2>3. ASSUME NEW l \in Loops, NEW w \in Works,
               WorkSyncOwn(t, l, w) \/ SetRunFalse(t, l, w)
        PROVE  OnceInv'
    BY <2>3, TaskFacts, OnceSubmit DEF WorkSyncOwn, SetRunFalse, TaskOf
  <2>4. ASSUME NEW l \in Loops, Process(t, l) PROVE OnceInv'
    BY <2>1, <2>4 DEF Process, Pump, FrameOf
  <2>5. ASSUME NEW l \in Loops, DeleteLater(t, l) PROVE OnceInv'
    BY <2>1, <2>5 DEF DeleteLater, FrameOf, NullTask, TaskOf
  <2>6. ASSUME NEW l \in Loops, NEW op \in {"waitProcess", "waitEvent"},
               ManualWait(t, l, op)
        PROVE  OnceInv'
    BY <2>1, <2>6 DEF ManualWait, FrameOf
  <2>7. ASSUME NEW r \in Connects, Connect(t, r) PROVE OnceInv'
    <3>1. PICK f : Call(t, f) /\ f.arg.id = r
      BY <2>7 DEF Connect, FrameOf, TaskOf
    <3> QED BY <2>1, <2>7, <3>1 DEF Connect
  <2>8. ASSUME NEW l \in Loops, NEW r \in Connects, Disconnect(t, l, r)
        PROVE  OnceInv'
    BY <2>8, OnceDisconnect DEF Disconnect
  <2>9. ASSUME UNCHANGED <<highPri, events, frame, stack, used, posted>>
        PROVE  OnceInv'
    BY <2>9 DEF OnceInv, Located, QueuesAt, FramesAt, UnseenAt
  <2>10. ASSUME NEW l \in Loops, SetRunTrue(t, l) PROVE OnceInv'
    BY <2>9, <2>10 DEF SetRunTrue, callVars
  <2>11. ASSUME NEW o \in Objects, Hold(t, o) PROVE OnceInv'
    BY <2>9, <2>11 DEF Hold, callVars
  <2>12. ASSUME NEW l \in Loops, NEW r \in Refs, Drop(t, l, r) PROVE OnceInv'
    BY <2>9, <2>12 DEF Drop, callVars
  <2> QED BY <1>16, <2>2, <2>3, <2>4, <2>5, <2>6, <2>7, <2>8, <2>10, <2>11,
             <2>12 DEF UserCall
<1>17. CASE UNCHANGED vars
  BY <1>17 DEF vars, callVars, OnceInv, Located, QueuesAt, FramesAt, UnseenAt
<1> QED
  BY <1>1, <1>2, <1>3, <1>4, <1>5, <1>6, <1>7, <1>8, <1>9, <1>10, <1>11,
     <1>12, <1>13, <1>14, <1>15, <1>16, <1>17, OnceFinish, OncePush
     DEF Next, RunStep, ThreadStep
-----------------------------------------------------------------------------
(* workSync waits for the function it wraps.                               *)

(* The caller of workSync that handed over w is between push and return.   *)
Waits(w) ==
  \E t \in Threads : /\ frame[t].at \in {"post", "ack"}
                     /\ Arg(t).id = w /\ Arg(t).kind = "sync"

SyncTasks == {e \in Task : e.kind = "sync" => Waits(e.id)}
SyncFrames == {f \in Frame : f.at = "exec" => f.arg \in SyncTasks}

SyncInv ==
  /\ highPri \in [Loops -> Seq(SyncTasks)]
  /\ events \in [Loops -> Seq(SyncTasks)]
  /\ frame \in [Threads -> SyncFrames]
  /\ stack \in [Threads -> Seq(SyncFrames)]

(* No caller stops waiting.                                                *)
StillWaits == \A w \in Works : Waits(w) => Waits(w)'

(* Then what is queued and executing keeps its caller.                     *)
LEMMA SyncGrows ==
  ASSUME SyncInv, StillWaits
  PROVE  /\ SyncTasks \subseteq SyncTasks' /\ SyncFrames \subseteq SyncFrames'
         /\ highPri \in [Loops -> Seq(SyncTasks')]
         /\ events \in [Loops -> Seq(SyncTasks')]
         /\ frame \in [Threads -> SyncFrames']
         /\ stack \in [Threads -> Seq(SyncFrames')]
<1>1. SyncTasks \subseteq SyncTasks'
  BY DEF SyncTasks, StillWaits, Task
<1>2. SyncFrames \subseteq SyncFrames'
  BY <1>1 DEF SyncFrames
<1>3. /\ Seq(SyncTasks) \subseteq Seq(SyncTasks')
      /\ Seq(SyncFrames) \subseteq Seq(SyncFrames')
  BY <1>1, <1>2, SeqMonotonic
<1> QED BY <1>1, <1>2, <1>3 DEF SyncInv

(* A caller between push and return goes on inside the call;               *)
LEMMA WaitsGoto ==
  ASSUME CallInv, NEW t \in Threads, NEW label, Goto(t, label),
         frame[t].at \notin {"post", "ack"} \/ label \in {"post", "ack"}
  PROVE  StillWaits
<1>1. /\ \A x \in Threads \ {t} : frame'[x] = frame[x]
      /\ frame'[t].at = label /\ frame'[t].arg = frame[t].arg
  BY FrameFacts DEF Goto, CallInv, Frame
<1> QED BY <1>1 DEF StillWaits, Waits, Arg

(* a thread that is no such caller does what it likes.                     *)
LEMMA WaitsMove ==
  ASSUME NEW t \in Threads, \A x \in Threads \ {t} : frame'[x] = frame[x],
         frame[t].at \notin {"post", "ack"} \/ Arg(t).kind # "sync"
  PROVE  StillWaits
BY DEF StillWaits, Waits, Arg

(* The steps keep SyncInv: a frame goes on to another label;               *)
LEMMA SyncGoto ==
  ASSUME CallInv, CallInv', SyncInv, NEW t \in Threads, NEW label,
         frame[t].at \notin {"post", "ack"} \/ label \in {"post", "ack"},
         label # "exec", Goto(t, label), UNCHANGED <<highPri, events, stack>>
  PROVE  SyncInv'
<1>1. frame' \in [Threads -> SyncFrames'] /\ stack' \in [Threads -> Seq(SyncFrames')]
  <2> DEFINE f == [frame[t] EXCEPT !.at = label]
  <2>1. frame' = [frame EXCEPT ![t] = f] /\ f.at = label /\ f = frame'[t]
    BY FrameFacts DEF Goto, CallInv, Frame
  <2>2. f \in SyncFrames'
    <3>1. f \in Frame
      BY <2>1 DEF CallInv
    <3> HIDE DEF f
    <3> QED BY <2>1, <3>1 DEF SyncFrames
  <2> HIDE DEF f
  <2> QED BY <2>1, <2>2, WaitsGoto, SyncGrows, GotoIn
<1> QED BY <1>1, WaitsGoto, SyncGrows DEF SyncInv

(* a thread takes up a function;                                           *)
LEMMA SyncExecute ==
  ASSUME CallInv, CallInv', SyncInv, NEW t \in Threads, NEW e \in SyncTasks,
         frame[t].at \notin {"post", "ack"}, Execute(t, e), stack' = stack
  PROVE  /\ StillWaits
         /\ frame' \in [Threads -> SyncFrames']
         /\ stack' \in [Threads -> Seq(SyncFrames')]
<1> DEFINE f == [frame[t] EXCEPT !.at = "exec", !.arg = e]
<1>1. /\ frame' = [frame EXCEPT ![t] = f] /\ f.at = "exec" /\ f.arg = e
      /\ f = frame'[t] /\ \A x \in Threads \ {t} : frame'[x] = frame[x]
  BY FrameFacts DEF Execute, CallInv, Frame
<1> HIDE DEF f
<1>2. StillWaits
  BY <1>1, WaitsMove
<1>3. f \in SyncFrames'
  BY <1>1, <1>2, SyncGrows DEF SyncFrames, CallInv
<1> QED BY <1>1, <1>2, <1>3, SyncGrows, GotoIn

(* a call;                                                                 *)
LEMMA SyncCall ==
  ASSUME CallInv, CallInv', SyncInv, NEW t \in Threads, NEW f \in Frame, f.at # "exec",
         NEW below \in Seq(Frame),
         \A i \in 1 .. Len(below) : below[i].at = "exec" => below[i] = frame[t],
         frame[t].at \notin {"post", "ack"}, CallOver(t, below, f),
         UNCHANGED <<highPri, events>>
  PROVE  SyncInv'
<1>1. StillWaits
  BY WaitsMove DEF CallOver, CallInv
<1>2. f \in SyncFrames'
  BY DEF SyncFrames
<1>3. below \in Seq(SyncFrames')
  <2>1. \A i \in 1 .. Len(below) : below[i] \in Frame
    BY ElementOfSeq
  <2>2. \A i \in 1 .. Len(below) : below[i] \in SyncFrames'
    BY <1>1, <2>1, SyncGrows DEF SyncFrames
  <2>3. below \in [1 .. Len(below) -> SyncFrames'] /\ Len(below) \in Nat
    BY <2>2, LenProperties
  <2> QED BY <2>3, SeqDef
<1>4. frame' \in [Threads -> SyncFrames'] /\ stack' \in [Threads -> Seq(SyncFrames')]
  BY <1>1, <1>2, <1>3, SyncGrows, CallIn
<1> QED BY <1>1, <1>4, SyncGrows DEF SyncInv

(* a return other than that of workSync.                                   *)
LEMMA SyncReturn ==
  ASSUME CallInv, CallInv', SyncInv, NEW t \in Threads, stack[t] # <<>>, Return(t),
         frame[t].at \notin {"post", "ack"} \/ Arg(t).kind # "sync",
         UNCHANGED <<highPri, events>>
  PROVE  SyncInv'
<1>1. StillWaits
  BY WaitsMove DEF Return, CallInv
<1>2. frame' \in [Threads -> SyncFrames'] /\ stack' \in [Threads -> Seq(SyncFrames')]
  BY <1>1, SyncGrows, ReturnIn
<1> QED BY <1>1, <1>2, SyncGrows DEF SyncInv

(* workSync returns: its function is nowhere any more.                     *)
LEMMA SyncAck ==
  ASSUME TypeOK, CallInv, CallInv', OnceInv, SyncInv, NEW t \in Threads, Ack(t)
  PROVE  SyncInv'
<1> DEFINE w == Arg(t).id
<1>1. PICK loc \in [Works -> Places] : Located(loc)
  BY DEF OnceInv
<1>2. /\ w \in Works /\ loc[w] = Nowhere /\ stack[t] # <<>> /\ Return(t)
      /\ UNCHANGED <<highPri, events>>
  BY <1>1, FrameFacts
     DEF Ack, At, BaseLabels, Located, UnseenAt, TypeOK, DataOK, queueVars
<1>3. \A x \in Threads \ {t} : frame'[x] = frame[x]
  BY <1>2 DEF Return, CallInv
<1> HIDE DEF w
<1>4. \A e \in SyncTasks : e.id # w => e \in SyncTasks'
  BY <1>3 DEF SyncTasks, Waits, Arg, w
<1>5. \A f \in SyncFrames : (f.at = "exec" => f.arg.id # w) => f \in SyncFrames'
  BY <1>4 DEF SyncFrames
<1>6. ASSUME NEW s \in Seq(SyncTasks), NEW p, p # Nowhere, s \in Seq(TasksAt(loc, p))
      PROVE  s \in Seq(SyncTasks')
  <2>1. Len(s) \in Nat /\ s \in [1 .. Len(s) -> SyncTasks]
    BY LenProperties
  <2>2. \A i \in 1 .. Len(s) : s[i] \in SyncTasks /\ s[i] \in TasksAt(loc, p)
    BY <1>6, <2>1, ElementOfSeq
  <2>3. \A i \in 1 .. Len(s) : s[i] \in SyncTasks'
    BY <1>2, <1>4, <1>6, <2>2 DEF TasksAt
  <2>4. s \in [1 .. Len(s) -> SyncTasks']
    BY <2>1, <2>3
  <2> QED BY <2>1, <2>4, SeqDef
<1>7. \A l \in Loops : highPri'[l] \in Seq(SyncTasks') /\ events'[l] \in Seq(SyncTasks')
  <2>1. ASSUME NEW l \in Loops
        PROVE  highPri[l] \in Seq(SyncTasks') /\ events[l] \in Seq(SyncTasks')
    BY <1>1, <1>6, PlaceFacts DEF SyncInv, Located, QueuesAt
  <2> QED BY <1>2, <2>1
<1> DEFINE S == {f \in SyncFrames : f.at = "exec" => f.arg.id # w}
<1>8. frame \in [Threads -> S] /\ stack \in [Threads -> Seq(S)]
  <2>1. ASSUME NEW x \in Threads, NEW f \in SyncFrames, NEW i, FrameAt(loc, x, f, i)
        PROVE  f \in S
    BY <1>2, <2>1, PlaceFacts DEF FrameAt, PlaceLabels
  <2>2. ASSUME NEW x \in Threads PROVE frame[x] \in S
    BY <1>1, <2>1 DEF SyncInv, Located, FramesAt
  <2>3. ASSUME NEW x \in Threads PROVE stack[x] \in Seq(S)
    <3>1. stack[x] \in Seq(SyncFrames)
      BY DEF SyncInv
    <3>2. Len(stack[x]) \in Nat /\ DOMAIN stack[x] = 1 .. Len(stack[x])
          /\ \A i \in 1 .. Len(stack[x]) : stack[x][i] \in SyncFrames
      BY <3>1, ElementOfSeq, LenProperties
    <3>3. \A i \in 1 .. Len(stack[x]) : FrameAt(loc, x, stack[x][i], i)
      BY <1>1, <3>2 DEF Located, FramesAt
    <3> HIDE DEF S
    <3>4. \A i \in 1 .. Len(stack[x]) : stack[x][i] \in S
      BY <2>1, <3>2, <3>3
    <3>5. stack[x] \in [1 .. Len(stack[x]) -> S]
      BY <3>1, <3>4, LenProperties
    <3> QED BY <3>2, <3>5, SeqDef
  <2> HIDE DEF S
  <2> QED BY <2>2, <2>3 DEF SyncInv
<1>9. S \subseteq SyncFrames'
  BY <1>5
<1> HIDE DEF S
<1>10. frame' \in [Threads -> S] /\ stack' \in [Threads -> Seq(S)]
  BY <1>2, <1>8, ReturnIn
<1>11. Seq(S) \subseteq Seq(SyncFrames')
  BY <1>9, SeqMonotonic
<1>12. frame' \in [Threads -> SyncFrames'] /\ stack' \in [Threads -> Seq(SyncFrames')]
  BY <1>9, <1>10, <1>11
<1>13. highPri' \in [Loops -> Seq(SyncTasks')] /\ events' \in [Loops -> Seq(SyncTasks')]
  BY <1>2, <1>7 DEF SyncInv
<1> QED BY <1>12, <1>13 DEF SyncInv

(* The function of workSync comes into a queue while its caller goes on to *)
(* post the loop's semaphore.                                              *)
LEMMA SyncPush ==
  ASSUME TypeOK, CallInv, CallInv', SyncInv, NEW t \in Threads, Push(t)
  PROVE  SyncInv'
<1>1. PICK e \in Task : e = Arg(t)
  BY FrameFacts
<1>2. PICK l \in Loops : l = On(t)
  BY FrameFacts
<1>3. /\ Goto(t, "post") /\ stack' = stack
      /\ PushHigh(l, e) \/ PushLow(l, e)
      /\ At(t, "push")
  BY <1>1, <1>2 DEF Push
<1>4. StillWaits
  BY <1>3, WaitsGoto DEF At
<1>5. frame'[t].at = "post" /\ frame'[t].arg = e
  BY <1>1, <1>3, FrameFacts DEF Goto, CallInv, Frame, Arg
<1>6. e \in SyncTasks'
  BY <1>5 DEF SyncTasks, Waits, Arg
<1> DEFINE S == SyncTasks'
<1>7. highPri \in [Loops -> Seq(S)] /\ events \in [Loops -> Seq(S)]
  BY <1>4, SyncGrows
<1>8. highPri' \in [Loops -> Seq(S)] /\ events' \in [Loops -> Seq(S)]
  <2> HIDE DEF S
  <2>0. e \in S
    BY <1>6 DEF S
  <2>1. CASE PushHigh(l, e)
    <3>1. Append(highPri[l], e) \in Seq(S)
      BY <1>7, <2>0, AppendProperties
    <3> QED BY <1>7, <2>1, <3>1 DEF PushHigh
  <2>2. CASE PushLow(l, e)
    <3>1. PICK k \in 0 .. Len(events[l]) :
            events' = [events EXCEPT ![l] = Emplace(events[l], k, e)]
      BY <2>2 DEF PushLow
    <3>2. Emplace(events[l], k, e) \in Seq(S)
      BY <1>7, <2>0, EmplaceType
    <3>3. highPri' = highPri
      BY <2>2 DEF PushLow
    <3> QED BY <1>7, <3>1, <3>2, <3>3
  <2> QED BY <1>3, <2>1, <2>2
<1>9. frame' \in [Threads -> SyncFrames'] /\ stack' \in [Threads -> Seq(SyncFrames')]
  <2> DEFINE f == [frame[t] EXCEPT !.at = "post"]
  <2>1. frame' = [frame EXCEPT ![t] = f] /\ f.at = "post" /\ f = frame'[t]
    BY <1>3, FrameFacts DEF Goto, CallInv, Frame
  <2>2. f \in SyncFrames'
    <3>1. f \in Frame
      BY <2>1 DEF CallInv
    <3> HIDE DEF f
    <3> QED BY <2>1, <3>1 DEF SyncFrames
  <2> HIDE DEF f
  <2> QED BY <1>3, <1>4, <2>1, <2>2, SyncGrows, GotoIn
<1> QED BY <1>8, <1>9 DEF SyncInv

(* The loop's thread takes a function from a queue.                        *)
LEMMA SyncTake ==
  ASSUME CallInv, CallInv', SyncInv, NEW t \in Threads, NEW l \in Loops,
         NEW s \in Seq(SyncTasks), s # <<>>,
         frame[t].at \notin {"post", "ack"}, Execute(t, Head(s)), stack' = stack,
         \/ highPri' = [highPri EXCEPT ![l] = Tail(s)] /\ UNCHANGED events
         \/ events' = [events EXCEPT ![l] = Tail(s)] /\ UNCHANGED highPri
  PROVE  SyncInv'
<1>1. PICK e \in SyncTasks : e = Head(s)
  BY HeadTailProperties
<1>2. /\ StillWaits
      /\ frame' \in [Threads -> SyncFrames'] /\ stack' \in [Threads -> Seq(SyncFrames')]
  BY <1>1, SyncExecute
<1>3. PICK u \in Seq(SyncTasks) : u = Tail(s)
  BY HeadTailProperties
<1>4. u \in Seq(SyncTasks')
  BY <1>2, SyncGrows, SeqMonotonic
<1>5. highPri' \in [Loops -> Seq(SyncTasks')] /\ events' \in [Loops -> Seq(SyncTasks')]
  <2>1. /\ highPri \in [Loops -> Seq(SyncTasks')]
        /\ events \in [Loops -> Seq(SyncTasks')]
    BY <1>2, SyncGrows
  <2> QED BY <1>3, <1>4, <2>1
<1> QED BY <1>2, <1>5 DEF SyncInv

(* disconnectFun hands over a removal, which is no workSync.               *)
LEMMA SyncDisconnect ==
  ASSUME CallInv, CallInv', SyncInv, NEW t \in Threads, NEW l \in Loops,
         NEW r \in Connects, frame[t].at \notin {"post", "ack"},
         DisconnectFun(t, l, r), UNCHANGED <<highPri, events>>
  PROVE  SyncInv'
<1> DEFINE g == FrameOf("remove", l, TaskOf(r, "unbind"))
           below == <<frame[t], g>>
<1>1. PICK s \in Loops : CallOver(t, below, FrameOf("push", s, TaskOf(r, "unbind")))
  BY DEF DisconnectFun
<1>2. g \in Frame /\ g.at = "remove"
  BY TaskFacts DEF FrameOf, Frame, Labels
<1>3. /\ FrameOf("push", s, TaskOf(r, "unbind")) \in Frame
      /\ FrameOf("push", s, TaskOf(r, "unbind")).at = "push"
  BY TaskFacts DEF FrameOf, Frame, Labels
<1>4. /\ below \in Seq(Frame) /\ Len(below) = 2
      /\ below[1] = frame[t] /\ below[2] = g
  <2> HIDE DEF g
  <2> QED BY <1>2, FrameFacts
<1> HIDE DEF g, below
<1>5. \A i \in 1 .. Len(below) : below[i].at = "exec" => below[i] = frame[t]
  BY <1>2, <1>4
<1> QED BY <1>1, <1>3, <1>4, <1>5, SyncCall

(* SyncInv is inductive.                                                   *)
LEMMA SyncNext ==
  ASSUME TypeOK, CallInv, CallInv', OnceInv, SyncInv, [Next]_vars
  PROVE  SyncInv'
<1> USE LoopAssumption DEF queueVars, userVars
<1>0. ASSUME NEW t \in Threads, NEW g \in Frame, NEW f \in Frame,
             g.at = "exec" => g = frame[t], f.at # "exec",
             frame[t].at \notin {"post", "ack"}, CallOver(t, <<g>>, f),
             UNCHANGED <<highPri, events>>
      PROVE  SyncInv'
  <2>1. /\ <<g>> \in Seq(Frame)
        /\ \A i \in 1 .. Len(<<g>>) : <<g>>[i].at = "exec" => <<g>>[i] = frame[t]
    BY <1>0
  <2> QED BY <1>0, <2>1, SyncCall
<1>1. ASSUME NEW l \in Loops, Check(l) PROVE SyncInv'
  BY <1>1, SyncGoto DEF Check, Threads, At
<1>2. ASSUME NEW l \in Loops, Wait(l) PROVE SyncInv'
  <2> DEFINE g == [frame[l] EXCEPT !.at = "check"]
  <2>1. l \in Threads /\ CallOver(l, <<g>>, Pump(l))
    BY <1>2 DEF Wait, Threads
  <2>2. g \in Frame /\ g.at = "check" /\ Pump(l) \in Frame /\ Pump(l).at = "pop"
    BY <2>1, TaskFacts, FrameFacts DEF Frame, Labels, PumpLabels, Pump, FrameOf
  <2> HIDE DEF g
  <2> QED BY <1>0, <1>2, <2>1, <2>2 DEF Wait, At
<1>3. ASSUME NEW l \in Loops, Reap(l) PROVE SyncInv'
  BY <1>3, SyncGoto DEF Reap, Threads, At
<1>4. ASSUME NEW t \in Threads, PopHigh(t) PROVE SyncInv'
  <2>1. PICK l \in Loops : l = On(t)
    BY FrameFacts
  <2>2. highPri[l] \in Seq(SyncTasks)
    BY DEF SyncInv
  <2> QED BY <1>4, <2>1, <2>2, SyncGoto, SyncTake DEF PopHigh, At
<1>5. ASSUME NEW t \in Threads, PopLow(t) PROVE SyncInv'
  <2>1. PICK l \in Loops : l = On(t)
    BY FrameFacts
  <2>2. events[l] \in Seq(SyncTasks)
    BY DEF SyncInv
  <2> QED BY <1>5, <2>1, <2>2, FrameFacts, SyncReturn, SyncTake
       DEF PopLow, At, BaseLabels
<1>6. ASSUME NEW t \in Threads,
             Finish(t) \/ Pause(t) \/ Unbind(t) \/ BeginBody(t)
      PROVE  SyncInv'
  BY <1>6, SyncGoto DEF Finish, Pause, Unbind, BeginBody, At
<1>7. ASSUME NEW t \in Threads, NextEvent(t) PROVE SyncInv'
  BY <1>7, FrameFacts, SyncGoto, SyncReturn DEF NextEvent, At, BaseLabels
<1>8. ASSUME NEW t \in Threads, Post(t) PROVE SyncInv'
  BY <1>8, FrameFacts, SyncGoto, SyncReturn DEF Post, At, BaseLabels
<1>9. ASSUME NEW t \in Threads,
             EndBody(t) \/ AddSharedConnectBase(t) \/ RemoveSharedConnectBase(t)
      PROVE  SyncInv'
  BY <1>9, FrameFacts, SyncReturn
     DEF EndBody, AddSharedConnectBase, RemoveSharedConnectBase, At, BaseLabels
<1>10. ASSUME NEW t \in Threads, ProcessFirst(t) PROVE SyncInv'
  <2> DEFINE g == [frame[t] EXCEPT !.at = "begin"]
  <2>1. /\ \/ CallOver(t, <<g>>, Pump(On(t)))
           \/ Goto(t, "begin") /\ stack' = stack
        /\ frame[t].at = "process"
    BY <1>10 DEF ProcessFirst, At
  <2>2. /\ g \in Frame /\ g.at = "begin"
        /\ Pump(On(t)) \in Frame /\ Pump(On(t)).at = "pop"
    BY TaskFacts, FrameFacts DEF Frame, Labels, PumpLabels, Pump, FrameOf
  <2>3. UNCHANGED <<highPri, events>>
    BY <1>10 DEF ProcessFirst
  <2> HIDE DEF g
  <2> QED BY <1>0, <2>1, <2>2, <2>3, SyncGoto
<1>11. ASSUME NEW t \in Threads, ManualWake(t) PROVE SyncInv'
  BY <1>11, FrameFacts, SyncGoto, SyncReturn DEF ManualWake, At, BaseLabels
<1>12. ASSUME NEW t \in Threads, Register(t) PROVE SyncInv'
  <2> DEFINE g == [frame[t] EXCEPT !.at = "next"]
  <2>1. PICK l \in Loops : CallOver(t, <<g>>, FrameOf("add", l, Arg(t)))
    BY <1>12 DEF Register
  <2>2. /\ g \in Frame /\ g.at = "next"
        /\ FrameOf("add", l, Arg(t)) \in Frame /\ FrameOf("add", l, Arg(t)).at = "add"
    BY <1>12, FrameFacts DEF Register, Frame, Labels, PumpLabels, FrameOf
  <2>3. UNCHANGED <<highPri, events>> /\ frame[t].at = "exec"
    BY <1>12 DEF Register, At
  <2> HIDE DEF g
  <2> QED BY <1>0, <2>1, <2>2, <2>3
<1>13. ASSUME NEW t \in Threads,
              DelLock(t) \/ DelAlive(t) \/ DelTerminate(t) \/ DelRun(t)
       PROVE  SyncInv'
  BY <1>13, SyncGoto DEF DelLock, DelAlive, DelTerminate, DelRun, At
<1>14. ASSUME NEW t \in Threads, DelConnects(t) PROVE SyncInv'
  <2>1. CASE connects[On(t)] \cap connAlive # {}
    <3>1. PICK r \in connects[On(t)] : DisconnectFun(t, On(t), r)
      BY <1>14, <2>1 DEF DelConnects
    <3>2. r \in Connects /\ On(t) \in Loops
      BY FrameFacts DEF TypeOK, DataOK
    <3> QED BY <1>14, <3>1, <3>2, SyncDisconnect DEF DelConnects, At
  <2>2. CASE ~(connects[On(t)] \cap connAlive # {})
    BY <1>14, <2>2, SyncGoto DEF DelConnects, At
  <2> QED BY <2>1, <2>2
<1>15. ASSUME NEW t \in Threads, UserCall(t) PROVE SyncInv'
  <2>0. SyncInv' \/ frame[t].at \notin {"post", "ack"}
    <3>1. ASSUME UNCHANGED <<highPri, events, frame, stack>> PROVE SyncInv'
      BY <3>1 DEF SyncInv, SyncFrames, SyncTasks, Waits, Arg
    <3>2. ASSUME InUserCode(t) PROVE frame[t].at \notin {"post", "ack"}
      BY <3>2 DEF InUserCode, At
    <3> QED BY <1>15, <3>2
         DEF UserCall, Work, WorkSync, WorkSyncOwn, SetRunFalse, SetRunTrue,
             Process, DeleteLater, ManualWait, Hold, Drop, Connect, Disconnect,
             May
  <2>1. ASSUME NEW label \in Labels \ {"add", "remove", "exec"}, NEW l \in Loops,
               NEW e \in Task, frame[t].at \notin {"post", "ack"},
               Call(t, FrameOf(label, l, e)), UNCHANGED <<highPri, events>>
        PROVE  SyncInv'
    <3>1. FrameOf(label, l, e) \in Frame /\ FrameOf(label, l, e).at # "exec"
      BY <2>1 DEF FrameOf, Frame
    <3> QED BY <1>0, <2>1, <3>1, FrameFacts DEF Call
  <2>2. ASSUME NEW l \in Loops, NEW w \in Works, NEW p \in Priorities,
               Work(t, l, w, p) \/ WorkSync(t, l, w, p)
        PROVE  SyncInv'
    BY <2>0, <2>1, <2>2, TaskFacts DEF Work, WorkSync, Submit, Labels
  <2>3. ASSUME NEW l \in Loops, NEW w \in Works,
               WorkSyncOwn(t, l, w) \/ SetRunFalse(t, l, w)
        PROVE  SyncInv'
    BY <2>0, <2>1, <2>3, TaskFacts DEF WorkSyncOwn, SetRunFalse, Submit, Labels
  <2>4. ASSUME NEW l \in Loops, Process(t, l) PROVE SyncInv'
    BY <2>0, <2>1, <2>4, TaskFacts DEF Process, Pump, Labels, PumpLabels
  <2>5. ASSUME NEW l \in Loops, DeleteLater(t, l) PROVE SyncInv'
    BY <2>0, <2>1, <2>5, TaskFacts DEF DeleteLater, Labels, DeleteLabels
  <2>6. ASSUME NEW l \in Loops, NEW op \in {"waitProcess", "waitEvent"},
               ManualWait(t, l, op)
        PROVE  SyncInv'
    BY <2>0, <2>1, <2>6, TaskFacts DEF ManualWait, Labels
  <2>7. ASSUME NEW r \in Connects, Connect(t, r) PROVE SyncInv'
    <3>1. TaskOf(r, "register") \in Task /\ CurrentLoop(t) \in Loops
      BY TaskFacts DEF CurrentLoop
    <3>2. FrameOf("add", CurrentLoop(t), TaskOf(r, "register")) \in Frame
      BY <3>1, TaskFacts DEF FrameOf, Frame, Labels
    <3>3. \A s \in Loops : FrameOf("push", s, TaskOf(r, "register")) \in Frame
      BY <3>1 DEF FrameOf, Frame, Labels
    <3>4. PICK f \in Frame : f.at # "exec" /\ Call(t, f)
      BY <2>7, <3>2, <3>3 DEF Connect, FrameOf
    <3> QED BY <1>0, <2>0, <2>7, <3>4, FrameFacts DEF Call, Connect
  <2>8. ASSUME NEW l \in Loops, NEW r \in Connects, Disconnect(t, l, r)
        PROVE  SyncInv'
    BY <2>0, <2>8, SyncDisconnect DEF Disconnect
  <2>9. ASSUME UNCHANGED <<highPri, events, frame, stack>> PROVE SyncInv'
    BY <2>9 DEF SyncInv, SyncFrames, SyncTasks, Waits, Arg
  <2>10. ASSUME NEW l \in Loops, SetRunTrue(t, l) PROVE SyncInv'
    BY <2>9, <2>10 DEF SetRunTrue, callVars
  <2>11. ASSUME NEW o \in Objects, Hold(t, o) PROVE SyncInv'
    BY <2>9, <2>11 DEF Hold, callVars
  <2>12. ASSUME NEW l \in Loops, NEW r \in Refs, Drop(t, l, r) PROVE SyncInv'
    BY <2>9, <2>12 DEF Drop, callVars
  <2> QED BY <1>15, <2>2, <2>3, <2>4, <2>5, <2>6, <2>7, <2>8, <2>10, <2>11,
             <2>12 DEF UserCall
<1>16. CASE UNCHANGED vars
  BY <1>16 DEF vars, callVars, SyncInv, SyncFrames, SyncTasks, Waits, Arg
<1> QED
  BY <1>1, <1>2, <1>3, <1>4, <1>5, <1>6, <1>7, <1>8, <1>9, <1>10, <1>11,
     <1>12, <1>13, <1>14, <1>15, <1>16, SyncPush, SyncAck
     DEF Next, RunStep, ThreadStep

(* Every function handed over is in at most one place: in one queue once,  *)
(* or in one frame, and nowhere before work and after workSync.            *)
LEMMA OnceInvariant == Spec => []OnceInv
<1>1. Init => OnceInv
  <2> SUFFICES ASSUME Init PROVE OnceInv
    OBVIOUS
  <2> USE LoopAssumption
  <2> DEFINE loc == [w \in Works |-> Nowhere]
  <2>1. loc \in [Works -> Places] /\ UnseenAt(loc)
    BY PlaceFacts DEF Init, UnseenAt
  <2>2. ASSUME NEW l \in Loops
        PROVE  /\ highPri[l] \in Seq(TasksAt(loc, <<"high", l, 0>>)) /\ Once(highPri[l])
               /\ events[l] \in Seq(TasksAt(loc, <<"low", l, 0>>)) /\ Once(events[l])
    <3>1. highPri[l] = <<>> /\ events[l] = <<>>
      BY DEF Init
    <3>2. \A S : <<>> \in Seq(S)
      BY EmptySeq
    <3>3. Once(<<>>)
      BY DEF Once
    <3> QED BY <3>1, <3>2, <3>3
  <2>3. FramesAt(loc)
    <3>1. ASSUME NEW t \in Threads
          PROVE  stack[t] = <<>> /\ frame[t].at \in {"check", "user"}
      BY DEF Init, FrameOf
    <3> QED BY <3>1 DEF FramesAt, FrameAt, PlaceLabels, DeleteLabels
  <2> HIDE DEF loc
  <2> QED BY <2>1, <2>2, <2>3 DEF OnceInv, Located, QueuesAt
<1>2. TypeOK /\ CallInv /\ OnceInv /\ [Next]_vars => OnceInv'
  BY OnceNext
<1> QED BY <1>1, <1>2, TypeCorrect, PTL DEF Spec

(* As long as the function workSync wraps around a function is queued or   *)
(* executing, the caller of workSync is inside the call: the local         *)
(* semaphore the function posts is there, whatever users do.               *)
THEOREM SyncSemaphoreOutlives == Spec => []SyncCallerWaits
<1>1. Init => SyncInv
  <2> SUFFICES ASSUME Init PROVE SyncInv
    OBVIOUS
  <2>1. ASSUME NEW t \in Threads
        PROVE  frame[t] \in SyncFrames /\ stack[t] \in Seq(SyncFrames)
    <3>1. frame[t] \in Frame
      BY InitOK DEF TypeOK
    <3>2. frame[t].at \in {"check", "user"} /\ stack[t] = <<>>
      BY DEF Init, FrameOf
    <3> QED BY <3>1, <3>2, EmptySeq DEF SyncFrames
  <2>2. \A l \in Loops : highPri[l] \in Seq(SyncTasks) /\ events[l] \in Seq(SyncTasks)
    BY EmptySeq DEF Init
  <2> QED BY <2>1, <2>2, InitOK DEF SyncInv, TypeOK, DataOK
<1>2. TypeOK /\ CallInv /\ CallInv' /\ OnceInv /\ SyncInv /\ [Next]_vars => SyncInv'
  BY SyncNext
<1>3. SyncInv => SyncCallerWaits
  <2> SUFFICES ASSUME SyncInv, NEW w \in Works, Outstanding(w) PROVE Waits(w)
    BY DEF SyncCallerWaits, Waits
  <2>1. ASSUME NEW e \in SyncTasks, e.id = w, e.kind = "sync" PROVE Waits(w)
    BY <2>1 DEF SyncTasks
  <2>2. ASSUME NEW l \in Loops, NEW s \in Seq(SyncTasks), NEW i \in DOMAIN s,
               s[i].id = w, s[i].kind = "sync"
        PROVE  Waits(w)
    <3>1. s[i] \in SyncTasks
      BY LenProperties, ElementOfSeq
    <3> QED BY <2>1, <2>2, <3>1
  <2>3. ASSUME NEW t \in Threads, NEW i \in DOMAIN Frames(t),
               Frames(t)[i].at = "exec", Frames(t)[i].arg.id = w,
               Frames(t)[i].arg.kind = "sync"
        PROVE  Waits(w)
    <3>1. Frames(t) \in Seq(SyncFrames)
      BY AppendProperties DEF Frames, SyncInv
    <3>2. Frames(t)[i] \in SyncFrames
      BY <3>1, LenProperties, ElementOfSeq
    <3> QED BY <2>1, <2>3, <3>2 DEF SyncFrames
  <2>4. \A l \in Loops : highPri[l] \in Seq(SyncTasks) /\ events[l] \in Seq(SyncTasks)
    BY DEF SyncInv
  <2> QED BY <2>2, <2>3, <2>4 DEF Outstanding
<1>4. Spec => []OnceInv
  BY OnceInvariant
<1> QED BY <1>1, <1>2, <1>3, <1>4, TypeCorrect, PTL DEF Spec
=============================================================================
