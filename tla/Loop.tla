-------------------------------- MODULE Loop --------------------------------
(***************************************************************************)
(* The event loop of the library: SpaE::Loop (inc/SpaE/loop.h,             *)
(* src/loop.cc) with the counting semaphores it blocks on                  *)
(* (inc/SpaE/semaphore.h), the spin mutex of its queue                     *)
(* (inc/SpaE/spin_mutex.h) and its part in the connections without a       *)
(* receiver (inc/SpaE/connector.h).                                        *)
(*                                                                         *)
(* Several loops and the threads that call them.  A thread is an active    *)
(* frame and a stack of suspended frames; a frame says at which point of   *)
(* which member function the thread is, on which loop, with which          *)
(* argument.  Code the library does not contain (the body of a posted      *)
(* function, a thread that runs no loop) may make any call of Calls.       *)
(*                                                                         *)
(* The high priority ring is a FIFO queue here: module RingList shows that *)
(* it is one for one reader.  Threads that run no loop may read the ring   *)
(* of the default one beside its thread (OneReader); what the ring then    *)
(* does is not modelled.                                                   *)
(***************************************************************************)
EXTENDS Integers, Sequences, FiniteSets

CONSTANTS
  Loops,       \* the loops; the thread a loop creates has the loop's name
  Clients,     \* the threads that run no loop
  Default,     \* the loop that Loop::getInstance returns
  Works,       \* functions handed to work and workSync, each at most once
  Priorities,  \* the priorities they are given
  Objects,     \* SpaE::Objects: each holds a SharedLoopAlive of its loop
  Connects,    \* connections without a receiver: each holds one too
  Sender,      \* the object each connection has its signal in
  Calls,       \* <<thread, member function, loop>>: the calls users make
  MaxResume,   \* bound on the pending posts of a run-state semaphore
  Nil

Threads == Loops \cup Clients
Refs    == Objects \cup Connects
HighPriority == 0

Ops == {"work", "workSync", "pause", "resume", "process", "waitProcess",
        "waitEvent", "hold", "drop", "connect", "disconnect", "deleteLater"}

ASSUME LoopAssumption ==
  /\ Default \in Loops
  /\ Loops \cap Clients = {}
  /\ Nil \notin Threads \cup Works \cup Connects
  /\ Works \cap Connects = {} /\ Objects \cap Connects = {}
  /\ Sender \in [Connects -> Objects]
  /\ Priorities \subseteq Nat /\ HighPriority \in Priorities
  /\ Calls \subseteq Threads \X Ops \X Loops
  /\ MaxResume \in Nat

VARIABLES
  highPri,       \* m_highPriWorkTable: functions of priority 0
  events,        \* m_eventsMap: the others, in the order of the multimap
  runSem,        \* m_runSem: one post per queued function
  runStaSem,     \* m_runStaSem: posts of setRun(true)
  deleteSem,     \* m_deleteSem: posted by the last owner of m_sharedAlive
  operateMutex,  \* m_operateMutex: the thread that holds it, or Nil
  terminate,     \* m_terminate
  deleting,      \* the loops deleteLater has been called on
  sharedAlive,   \* m_sharedAlive is not null
  freed,         \* delete this has run
  holders,       \* who else owns a copy of m_sharedAlive
  bare,          \* who refers to the loop without one: it was null by then
  connects,      \* m_sharedConnectBaseSet
  connAlive,     \* the connections whose ConnectBase::alive is true
  bound,         \* the connections registered with their sender's signal
  frame,         \* the active frame of each thread
  stack,         \* its suspended frames
  used,          \* functions handed over so far
  posted         \* workSync calls whose local semaphore has been posted

queueVars == <<highPri, events>>
lifeVars  == <<deleteSem, terminate, deleting, sharedAlive, freed>>
ownVars   == <<holders, bare>>
refVars   == <<ownVars, connects, connAlive, bound>>
callVars  == <<frame, stack>>
userVars  == <<used, posted>>
vars == <<queueVars, runSem, runStaSem, operateMutex, lifeVars, refVars,
          callVars, userVars>>
-----------------------------------------------------------------------------
(* Functions and frames.                                                   *)

(* What a function does once its body has run: nothing more, post the      *)
(* semaphore of workSync, wait for setRun(true); or it is one of the       *)
(* library's own: none at all, one that enters or removes a connection.    *)
Kinds == {"plain", "sync", "pause", "null", "register", "unbind"}
Task  ==
  {e \in [id : Works \cup Connects \cup {Nil}, kind : Kinds, pri : Priorities] :
     /\ e.kind \in {"plain", "sync", "pause"} => e.id \in Works
     /\ e.kind \in {"register", "unbind"} => e.id \in Connects}

TaskOf(x, k) == [id |-> x, kind |-> k, pri |-> HighPriority]
NullTask == TaskOf(Nil, "null")

PumpLabels   == {"pop", "low", "exec", "next"}
DeleteLabels == {"delLock", "delConnects", "delAlive", "delTerminate",
                 "delRun"}
Labels == PumpLabels \cup DeleteLabels \cup
          {"user", "check", "wait", "reap", "gone", "push", "post", "ack",
           "process", "begin", "body", "waitProcess", "waitEvent", "add",
           "remove"}

Frame ==
  {f \in [at : Labels, loop : Loops, arg : Task] :
     f.at \in {"add", "remove"} => f.arg.kind \in {"register", "unbind"}}

FrameOf(label, l, e) == [at |-> label, loop |-> l, arg |-> e]
Pump(l) == FrameOf("pop", l, NullTask)

At(t, label) == frame[t].at = label
On(t) == frame[t].loop
Arg(t) == frame[t].arg

Goto(t, label) == frame' = [frame EXCEPT ![t].at = label]

(* t enters f; it resumes the frames `below' afterwards, the last first.   *)
CallOver(t, below, f) ==
  /\ stack' = [stack EXCEPT ![t] = @ \o below]
  /\ frame' = [frame EXCEPT ![t] = f]

Call(t, f) == CallOver(t, <<frame[t]>>, f)

Return(t) ==
  /\ frame' = [frame EXCEPT ![t] = stack[t][Len(stack[t])]]
  /\ stack' = [stack EXCEPT ![t] = SubSeq(@, 1, Len(@) - 1)]

(* Loop::getCurrentLoop: a thread that runs no loop gets the default one.  *)
CurrentLoop(t) == IF t \in Loops THEN t ELSE Default

(* The thread executes code the library does not contain.                  *)
InUserCode(t) ==
  \/ At(t, "user") \/ At(t, "body")
  \/ At(t, "exec") /\ Arg(t).kind \in {"plain", "sync"}

(* The Objects and connections that have l's address.                      *)
Referrers(l) == holders[l] \cup bare[l]

(* Users call a loop only in its own thread, or while they or the library  *)
(* own it.                                                                 *)
May(t, op, l) ==
  /\ <<t, op, l>> \in Calls
  /\ InUserCode(t)
  /\ t = l \/ sharedAlive[l] \/ holders[l] # {}

Init ==
  /\ highPri = [l \in Loops |-> <<>>]
  /\ events = [l \in Loops |-> <<>>]
  /\ runSem = [l \in Loops |-> 0]
  /\ runStaSem = [l \in Loops |-> 0]
  /\ deleteSem = [l \in Loops |-> 0]
  /\ operateMutex = [l \in Loops |-> Nil]
  /\ terminate = [l \in Loops |-> FALSE]
  /\ deleting = {}
  /\ sharedAlive = [l \in Loops |-> TRUE]
  /\ freed = [l \in Loops |-> FALSE]
  /\ holders = [l \in Loops |-> {}]
  /\ bare = [l \in Loops |-> {}]
  /\ connects = [l \in Loops |-> {}]
  /\ connAlive = {}
  /\ bound = {}
  /\ frame = [t \in Threads |->
                FrameOf(IF t \in Loops THEN "check" ELSE "user",
                        CurrentLoop(t), NullTask)]
  /\ stack = [t \in Threads |-> <<>>]
  /\ used = {}
  /\ posted = {}
-----------------------------------------------------------------------------
(* Loop::run.                                                              *)

Check(l) ==
  /\ At(l, "check")
  /\ Goto(l, IF terminate[l] THEN "reap" ELSE "wait")
  /\ UNCHANGED <<queueVars, runSem, runStaSem, operateMutex, lifeVars, refVars,
                 stack, userVars>>

(* Mutant: the wait takes every post, as of a binary semaphore.            *)
WaitTakesAll(l) ==
  /\ At(l, "wait")
  /\ runSem[l] > 0
  /\ runSem' = [runSem EXCEPT ![l] = 0]
  /\ CallOver(l, <<[frame[l] EXCEPT !.at = "check"]>>, Pump(l))
  /\ UNCHANGED <<queueVars, runStaSem, operateMutex, lifeVars, refVars,
                 userVars>>

Wait(l) ==
  /\ At(l, "wait")
  /\ runSem[l] > 0
  /\ runSem' = [runSem EXCEPT ![l] = @ - 1]
  /\ CallOver(l, <<[frame[l] EXCEPT !.at = "check"]>>, Pump(l))
  /\ UNCHANGED <<queueVars, runStaSem, operateMutex, lifeVars, refVars,
                 userVars>>

Reap(l) ==
  /\ At(l, "reap")
  /\ deleteSem[l] > 0
  /\ deleteSem' = [deleteSem EXCEPT ![l] = @ - 1]
  /\ freed' = [freed EXCEPT ![l] = TRUE]
  /\ Goto(l, "gone")
  /\ UNCHANGED <<queueVars, runSem, runStaSem, operateMutex, terminate,
                 deleting, sharedAlive, refVars, stack, userVars>>
-----------------------------------------------------------------------------
(* Loop::processData.  At "pop" and "low" the thread has taken a post of   *)
(* the run semaphore and not yet the function that goes with it.           *)

Execute(t, e) == frame' = [frame EXCEPT ![t].at = "exec", ![t].arg = e]

PopHigh(t) ==
  LET l == On(t) IN
  /\ At(t, "pop")
  /\ IF highPri[l] # <<>>
       THEN /\ Execute(t, Head(highPri[l]))
            /\ highPri' = [highPri EXCEPT ![l] = Tail(@)]
       ELSE Goto(t, "low") /\ UNCHANGED highPri
  /\ UNCHANGED <<events, runSem, runStaSem, operateMutex, lifeVars, refVars,
                 stack, userVars>>

PopLow(t) ==
  LET l == On(t) IN
  /\ At(t, "low")
  /\ operateMutex[l] = Nil
  /\ IF events[l] # <<>>
       THEN /\ Execute(t, Head(events[l]))
            /\ events' = [events EXCEPT ![l] = Tail(@)]
            /\ UNCHANGED stack
       ELSE Return(t) /\ UNCHANGED events
  /\ UNCHANGED <<highPri, runSem, runStaSem, operateMutex, lifeVars, refVars,
                 userVars>>

(* Mutant: the wrapped function forgets the semaphore of workSync.         *)
FinishNoPost(t) ==
  /\ At(t, "exec")
  /\ Arg(t).kind \in {"plain", "sync", "null"}
  /\ Goto(t, "next")
  /\ UNCHANGED <<queueVars, runSem, runStaSem, operateMutex, lifeVars, refVars,
                 stack, userVars>>

(* The body ends; the function workSync wraps it in posts the semaphore.   *)
Finish(t) ==
  /\ At(t, "exec")
  /\ Arg(t).kind \in {"plain", "sync", "null"}
  /\ posted' = IF Arg(t).kind = "sync" THEN posted \cup {Arg(t).id} ELSE posted
  /\ Goto(t, "next")
  /\ UNCHANGED <<queueVars, runSem, runStaSem, operateMutex, lifeVars, refVars,
                 stack, used>>

(* The function setRun(false) posts.                                       *)
Pause(t) ==
  LET l == On(t) IN
  /\ At(t, "exec")
  /\ Arg(t).kind = "pause"
  /\ runStaSem[l] > 0
  /\ runStaSem' = [runStaSem EXCEPT ![l] = @ - 1]
  /\ Goto(t, "next")
  /\ UNCHANGED <<queueVars, runSem, operateMutex, lifeVars, refVars, stack,
                 userVars>>

(* Mutant: tryWait does not look at the value.                             *)
NextEventUnguarded(t) ==
  /\ At(t, "next")
  /\ runSem' = [runSem EXCEPT ![On(t)] = @ - 1]
  /\ Goto(t, "pop")
  /\ UNCHANGED <<queueVars, runStaSem, operateMutex, lifeVars, refVars, stack,
                 userVars>>

NextEvent(t) ==
  LET l == On(t) IN
  /\ At(t, "next")
  /\ IF runSem[l] > 0
       THEN /\ runSem' = [runSem EXCEPT ![l] = @ - 1]
            /\ Goto(t, "pop")
            /\ UNCHANGED stack
       ELSE Return(t) /\ UNCHANGED runSem
  /\ UNCHANGED <<queueVars, runStaSem, operateMutex, lifeVars, refVars,
                 userVars>>
-----------------------------------------------------------------------------
(* Loop::work and Loop::workSync: workHelper under m_operateMutex.  The    *)
(* multimap puts an element after the last one whose key is not larger.    *)

(* Mutant: in front of the elements with the same key.                     *)
IsLowerBound(s, k, p) ==
  /\ \A i \in 1 .. k : s[i].pri < p
  /\ \A i \in k + 1 .. Len(s) : s[i].pri >= p

IsUpperBound(s, k, p) ==
  /\ \A i \in 1 .. k : s[i].pri <= p
  /\ \A i \in k + 1 .. Len(s) : s[i].pri > p

Emplace(s, k, e) == SubSeq(s, 1, k) \o <<e>> \o SubSeq(s, k + 1, Len(s))

PushHigh(l, e) ==
  /\ e.pri = HighPriority
  /\ highPri' = [highPri EXCEPT ![l] = Append(@, e)]
  /\ UNCHANGED events

PushLow(l, e) ==
  /\ e.pri # HighPriority
  /\ \E k \in 0 .. Len(events[l]) :
       /\ IsUpperBound(events[l], k, e.pri)
       /\ events' = [events EXCEPT ![l] = Emplace(@, k, e)]
  /\ UNCHANGED highPri

Push(t) ==
  LET l == On(t) IN
  /\ At(t, "push")
  /\ operateMutex[l] = Nil
  /\ operateMutex' = [operateMutex EXCEPT ![l] = t]
  /\ PushHigh(l, Arg(t)) \/ PushLow(l, Arg(t))
  /\ Goto(t, "post")
  /\ UNCHANGED <<runSem, runStaSem, lifeVars, refVars, stack, userVars>>

(* Mutant: post only when the loop has nothing to do.                      *)
PostIfIdle(t) ==
  LET l == On(t) IN
  /\ At(t, "post")
  /\ runSem' = [runSem EXCEPT ![l] = IF @ = 0 THEN 1 ELSE @]
  /\ operateMutex' = [operateMutex EXCEPT ![l] = Nil]
  /\ IF Arg(t).kind = "sync"
       THEN Goto(t, "ack") /\ UNCHANGED stack
       ELSE Return(t)
  /\ UNCHANGED <<queueVars, runStaSem, lifeVars, refVars, userVars>>

Post(t) ==
  LET l == On(t) IN
  /\ At(t, "post")
  /\ runSem' = [runSem EXCEPT ![l] = @ + 1]
  /\ operateMutex' = [operateMutex EXCEPT ![l] = Nil]
  /\ IF Arg(t).kind = "sync"
       THEN Goto(t, "ack") /\ UNCHANGED stack
       ELSE Return(t)
  /\ UNCHANGED <<queueVars, runStaSem, lifeVars, refVars, userVars>>

(* Mutant: workSync does not wait.                                         *)
AckAtOnce(t) ==
  /\ At(t, "ack")
  /\ Return(t)
  /\ UNCHANGED <<queueVars, runSem, runStaSem, operateMutex, lifeVars, refVars,
                 userVars>>

(* workSync returns.                                                       *)
Ack(t) ==
  /\ At(t, "ack")
  /\ Arg(t).id \in posted
  /\ Return(t)
  /\ UNCHANGED <<queueVars, runSem, runStaSem, operateMutex, lifeVars, refVars,
                 userVars>>

Submit(t, label, l, e) ==
  /\ e.id \notin used
  /\ used' = used \cup {e.id}
  /\ Call(t, FrameOf(label, l, e))
  /\ UNCHANGED <<queueVars, runSem, runStaSem, operateMutex, lifeVars, refVars,
                 posted>>

Work(t, l, w, p) ==
  /\ May(t, "work", l)
  /\ Submit(t, "push", l, [TaskOf(w, "plain") EXCEPT !.pri = p])

WorkSync(t, l, w, p) ==
  /\ May(t, "workSync", l)
  /\ CurrentLoop(t) # l
  /\ Submit(t, "push", l, [TaskOf(w, "sync") EXCEPT !.pri = p])

(* workSync on the caller's own loop: process(), then the body.            *)
WorkSyncOwn(t, l, w) ==
  /\ May(t, "workSync", l)
  /\ CurrentLoop(t) = l
  /\ Submit(t, "process", l, TaskOf(w, "plain"))

ProcessFirst(t) ==
  LET l == On(t) IN
  /\ At(t, "process")
  /\ IF runSem[l] > 0
       THEN /\ runSem' = [runSem EXCEPT ![l] = @ - 1]
            /\ CallOver(t, <<[frame[t] EXCEPT !.at = "begin"]>>, Pump(l))
       ELSE Goto(t, "begin") /\ UNCHANGED <<runSem, stack>>
  /\ UNCHANGED <<queueVars, runStaSem, operateMutex, lifeVars, refVars,
                 userVars>>

BeginBody(t) ==
  /\ At(t, "begin")
  /\ Goto(t, "body")
  /\ UNCHANGED <<queueVars, runSem, runStaSem, operateMutex, lifeVars, refVars,
                 stack, userVars>>

EndBody(t) ==
  /\ At(t, "body")
  /\ Return(t)
  /\ UNCHANGED <<queueVars, runSem, runStaSem, operateMutex, lifeVars, refVars,
                 userVars>>

-----------------------------------------------------------------------------
(* Loop::setRun.                                                           *)

SetRunFalse(t, l, w) ==
  May(t, "pause", l) /\ Submit(t, "push", l, TaskOf(w, "pause"))

SetRunTrue(t, l) ==
  /\ May(t, "resume", l)
  /\ runStaSem[l] < MaxResume
  /\ runStaSem' = [runStaSem EXCEPT ![l] = @ + 1]
  /\ UNCHANGED <<queueVars, runSem, operateMutex, lifeVars, refVars, callVars,
                 userVars>>
-----------------------------------------------------------------------------
(* Loop::process, waitProcess and waitEvent.  On another thread's loop     *)
(* they throw; process() without a post returns at once.                   *)

Process(t, l) ==
  /\ May(t, "process", l)
  /\ CurrentLoop(t) = l
  /\ runSem[l] > 0
  /\ runSem' = [runSem EXCEPT ![l] = @ - 1]
  /\ Call(t, Pump(l))
  /\ UNCHANGED <<queueVars, runStaSem, operateMutex, lifeVars, refVars,
                 userVars>>

(* Mutant: without the throw.                                              *)
ManualWaitAnyLoop(t, l, op) ==
  /\ May(t, op, l)
  /\ Call(t, FrameOf(op, l, NullTask))
  /\ UNCHANGED <<queueVars, runSem, runStaSem, operateMutex, lifeVars, refVars,
                 userVars>>

ManualWait(t, l, op) ==
  /\ May(t, op, l)
  /\ CurrentLoop(t) = l
  /\ Call(t, FrameOf(op, l, NullTask))
  /\ UNCHANGED <<queueVars, runSem, runStaSem, operateMutex, lifeVars, refVars,
                 userVars>>

ManualWake(t) ==
  LET l == On(t) IN
  /\ runSem[l] > 0
  /\ runSem' = [runSem EXCEPT ![l] = @ - 1]
  /\ \/ At(t, "waitProcess") /\ Goto(t, "pop") /\ UNCHANGED stack
     \/ At(t, "waitEvent") /\ Return(t)
  /\ UNCHANGED <<queueVars, runStaSem, operateMutex, lifeVars, refVars,
                 userVars>>
-----------------------------------------------------------------------------
(* Owners of m_sharedAlive: an Object or a receiverless Connect takes a    *)
(* copy of its thread's current loop; the last owner to go posts           *)
(* m_deleteSem (LoopAlive::onDelete).  After deleteLater getSharedAlive    *)
(* returns null: r refers to the loop by its address alone, which nothing  *)
(* keeps alive.                                                            *)

Acquire(l, r) ==
  IF sharedAlive[l]
    THEN holders' = [holders EXCEPT ![l] = @ \cup {r}] /\ UNCHANGED bare
    ELSE bare' = [bare EXCEPT ![l] = @ \cup {r}] /\ UNCHANGED holders

(* Mutants: the library's own copy, a connection's copy is not counted.    *)
PostIfUnheld(l, others, own) ==
  deleteSem' = IF others = {}
                 THEN [deleteSem EXCEPT ![l] = @ + 1] ELSE deleteSem

PostIfNoObject(l, others, own) ==
  deleteSem' = IF others \subseteq Connects /\ ~own
                 THEN [deleteSem EXCEPT ![l] = @ + 1] ELSE deleteSem

PostIfLast(l, others, own) ==
  deleteSem' = IF others = {} /\ ~own
                 THEN [deleteSem EXCEPT ![l] = @ + 1] ELSE deleteSem

Hold(t, o) ==
  LET l == CurrentLoop(t) IN
  /\ May(t, "hold", l)
  /\ \A m \in Loops : o \notin Referrers(m)
  /\ Acquire(l, o)
  /\ UNCHANGED <<queueVars, runSem, runStaSem, operateMutex, lifeVars, connects,
                 connAlive, bound, callVars, userVars>>

InFrames(r) ==
  \E t \in Threads : \/ Arg(t).id = r
                     \/ \E i \in DOMAIN stack[t] : stack[t][i].arg.id = r

InQueues(r) ==
  \E l \in Loops : \E i \in DOMAIN highPri[l] : highPri[l][i].id = r

(* Nothing refers to r any more.  A sender outlives its connections here.  *)
Unreferenced(r) ==
  /\ \A l \in Loops : r \notin connects[l]
  /\ r \notin bound /\ ~InFrames(r) /\ ~InQueues(r)
  /\ \A c \in Connects : Sender[c] = r => \A l \in Loops : c \notin Referrers(l)

Drop(t, l, r) ==
  /\ May(t, "drop", l)
  /\ Unreferenced(r)
  /\ \/ /\ r \in holders[l]
        /\ holders' = [holders EXCEPT ![l] = @ \ {r}]
        /\ PostIfLast(l, holders[l] \ {r}, sharedAlive[l])
        /\ UNCHANGED bare
     \/ /\ r \in bare[l]
        /\ bare' = [bare EXCEPT ![l] = @ \ {r}]
        /\ UNCHANGED <<holders, deleteSem>>
  /\ UNCHANGED <<queueVars, runSem, runStaSem, operateMutex, terminate,
                 deleting, sharedAlive, freed, connects, connAlive, bound,
                 callVars, userVars>>
-----------------------------------------------------------------------------
(* SpaE::connect without a receiver, and ConnectBase::disconnectFun.  The  *)
(* sender's loop enters the connection with the sender, its signal and the *)
(* receiver's loop: at once when the caller is on it, in a posted function *)
(* otherwise.                                                              *)

Connect(t, r) ==
  LET l == CurrentLoop(t) IN
  /\ May(t, "connect", l)
  /\ r \notin used
  /\ used' = used \cup {r}
  /\ Acquire(l, r)
  /\ connAlive' = connAlive \cup {r}
  /\ \E s \in Loops :
       /\ Sender[r] \in Referrers(s)
       /\ IF s = l
            THEN /\ bound' = bound \cup {r}
                 /\ Call(t, FrameOf("add", l, TaskOf(r, "register")))
            ELSE /\ UNCHANGED bound
                 /\ Call(t, FrameOf("push", s, TaskOf(r, "register")))
  /\ UNCHANGED <<queueVars, runSem, runStaSem, operateMutex, lifeVars, connects,
                 posted>>

(* The posted function: m_asSenderConnectSet and m_connects, then the loop *)
Register(t) ==
  LET r == Arg(t).id IN
  /\ At(t, "exec")
  /\ Arg(t).kind = "register"
  /\ bound' = bound \cup {r}
  /\ \E l \in Loops :
       /\ r \in Referrers(l)
       /\ CallOver(t, <<[frame[t] EXCEPT !.at = "next"]>>,
                   FrameOf("add", l, Arg(t)))
  /\ UNCHANGED <<queueVars, runSem, runStaSem, operateMutex, lifeVars, ownVars,
                 connects, connAlive, userVars>>

AddSharedConnectBase(t) ==
  LET l == On(t) IN
  /\ At(t, "add")
  /\ operateMutex[l] = Nil
  /\ connects' = [connects EXCEPT ![l] = @ \cup {Arg(t).id}]
  /\ Return(t)
  /\ UNCHANGED <<queueVars, runSem, runStaSem, operateMutex, lifeVars, ownVars,
                 connAlive, bound, userVars>>

(* Mark it dead, post its removal to the sender's loop, then unregister it *)
(* from the receiver's loop l.                                             *)
DisconnectFun(t, l, r) ==
  /\ r \in connAlive
  /\ connAlive' = connAlive \ {r}
  /\ \E s \in Loops :
       /\ Sender[r] \in Referrers(s)
       /\ CallOver(t, <<frame[t], FrameOf("remove", l, TaskOf(r, "unbind"))>>,
                   FrameOf("push", s, TaskOf(r, "unbind")))

Disconnect(t, l, r) ==
  /\ May(t, "disconnect", l)
  /\ r \in Referrers(l)
  /\ ~InFrames(r)
  /\ DisconnectFun(t, l, r)
  /\ UNCHANGED <<queueVars, runSem, runStaSem, operateMutex, lifeVars, ownVars,
                 connects, bound, userVars>>

Unbind(t) ==
  /\ At(t, "exec")
  /\ Arg(t).kind = "unbind"
  /\ bound' = bound \ {Arg(t).id}
  /\ Goto(t, "next")
  /\ UNCHANGED <<queueVars, runSem, runStaSem, operateMutex, lifeVars, ownVars,
                 connects, connAlive, stack, userVars>>

RemoveSharedConnectBase(t) ==
  LET l == On(t) IN
  /\ At(t, "remove")
  /\ operateMutex[l] = Nil
  /\ connects' = [connects EXCEPT ![l] = @ \ {Arg(t).id}]
  /\ Return(t)
  /\ UNCHANGED <<queueVars, runSem, runStaSem, operateMutex, lifeVars, ownVars,
                 connAlive, bound, userVars>>
-----------------------------------------------------------------------------
(* Loop::deleteLater, called once per loop.                                *)

DeleteLater(t, l) ==
  /\ May(t, "deleteLater", l)
  /\ l \notin deleting
  /\ deleting' = deleting \cup {l}
  /\ Call(t, FrameOf("delLock", l, NullTask))
  /\ UNCHANGED <<queueVars, runSem, runStaSem, operateMutex, deleteSem,
                 terminate, sharedAlive, freed, refVars, userVars>>

DelLock(t) ==
  LET l == On(t) IN
  /\ At(t, "delLock")
  /\ operateMutex[l] = Nil
  /\ operateMutex' = [operateMutex EXCEPT ![l] = t]
  /\ Goto(t, "delConnects")
  /\ UNCHANGED <<queueVars, runSem, runStaSem, lifeVars, refVars, stack,
                 userVars>>

DelConnects(t) ==
  LET l == On(t) IN
  /\ At(t, "delConnects")
  /\ IF connects[l] \cap connAlive # {}
       THEN /\ \E r \in connects[l] : DisconnectFun(t, l, r)
            /\ UNCHANGED <<operateMutex, connects>>
       ELSE /\ connects' = [connects EXCEPT ![l] = {}]
            /\ operateMutex' = [operateMutex EXCEPT ![l] = Nil]
            /\ Goto(t, "delAlive")
            /\ UNCHANGED <<connAlive, stack>>
  /\ UNCHANGED <<queueVars, runSem, runStaSem, lifeVars, ownVars, bound,
                 userVars>>

DelAlive(t) ==
  LET l == On(t) IN
  /\ At(t, "delAlive")
  /\ sharedAlive' = [sharedAlive EXCEPT ![l] = FALSE]
  /\ PostIfLast(l, holders[l], FALSE)
  /\ Goto(t, "delTerminate")
  /\ UNCHANGED <<queueVars, runSem, runStaSem, operateMutex, terminate,
                 deleting, freed, refVars, stack, userVars>>

DelTerminate(t) ==
  /\ At(t, "delTerminate")
  /\ terminate' = [terminate EXCEPT ![On(t)] = TRUE]
  /\ Goto(t, "delRun")
  /\ UNCHANGED <<queueVars, runSem, runStaSem, operateMutex, deleteSem,
                 deleting, sharedAlive, freed, refVars, stack, userVars>>

(* Mutant: deleteLater leaves a paused loop paused.                        *)
DelRunPaused(t) ==
  /\ At(t, "delRun")
  /\ Goto(t, "push")
  /\ UNCHANGED <<queueVars, runSem, runStaSem, operateMutex, lifeVars, refVars,
                 stack, userVars>>

(* setRun(true), then work(nullptr).                                       *)
DelRun(t) ==
  /\ At(t, "delRun")
  /\ runStaSem' = [runStaSem EXCEPT ![On(t)] = @ + 1]
  /\ Goto(t, "push")
  /\ UNCHANGED <<queueVars, runSem, operateMutex, lifeVars, refVars, stack,
                 userVars>>
-----------------------------------------------------------------------------
UserCall(t) ==
  \/ \E l \in Loops, w \in Works, p \in Priorities :
       Work(t, l, w, p) \/ WorkSync(t, l, w, p)
  \/ \E l \in Loops, w \in Works : WorkSyncOwn(t, l, w) \/ SetRunFalse(t, l, w)
  \/ \E l \in Loops : SetRunTrue(t, l) \/ Process(t, l) \/ DeleteLater(t, l)
  \/ \E l \in Loops, op \in {"waitProcess", "waitEvent"} : ManualWait(t, l, op)
  \/ \E o \in Objects : Hold(t, o)
  \/ \E l \in Loops, r \in Refs : Drop(t, l, r)
  \/ \E r \in Connects : Connect(t, r) \/ \E l \in Loops : Disconnect(t, l, r)

ThreadStep(t) ==
  \/ PopHigh(t) \/ PopLow(t) \/ Finish(t) \/ Pause(t) \/ NextEvent(t)
  \/ Push(t) \/ Post(t) \/ Ack(t)
  \/ ProcessFirst(t) \/ BeginBody(t) \/ EndBody(t) \/ ManualWake(t)
  \/ Register(t) \/ AddSharedConnectBase(t)
  \/ Unbind(t) \/ RemoveSharedConnectBase(t)
  \/ DelLock(t) \/ DelConnects(t) \/ DelAlive(t) \/ DelTerminate(t)
  \/ DelRun(t)

RunStep(l) == Check(l) \/ Wait(l) \/ Reap(l)

Next ==
  \/ \E l \in Loops : RunStep(l)
  \/ \E t \in Threads : ThreadStep(t) \/ UserCall(t)

Spec == Init /\ [][Next]_vars

(* The operating system runs every thread that is not blocked, and posted  *)
(* functions return; users need not make any call.                         *)
Fairness ==
  /\ \A l \in Loops : WF_vars(RunStep(l))
  /\ \A t \in Threads : WF_vars(ThreadStep(t))

FairSpec == Spec /\ Fairness
=============================================================================
