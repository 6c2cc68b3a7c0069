------------------------------ MODULE Coroutine -----------------------------
(***************************************************************************)
(* The coroutines of the library (src/coroutine.cc, inc/SpaE/coroutine.h): *)
(* contexts that run one at a time in the thread of a loop and switch back *)
(* to Coroutine::run, which is itself a function of that loop and runs the *)
(* functions posted to it; and the tables that tell a thread which         *)
(* coroutine and which loop it runs (src/loop.cc).                         *)
(*                                                                         *)
(* The user's code in a context makes any call of Calls and then returns.  *)
(* The steps of a context up to the next switch that no other thread can   *)
(* see in between are one action.  A step that is undefined, ends the      *)
(* program or blocks for ever with a mutex held sets fault, and the model  *)
(* does not go on from there.                                              *)
(***************************************************************************)
EXTENDS Integers, Sequences, FiniteSets

CONSTANTS
  Coroutines,
  Contexts,  \* each is handed to a coroutine once
  Threads,   \* the other threads that call, which run no loop
  Ids,       \* std::thread::id: an id is free again when its thread has ended
  Calls,     \* <<context or thread, function, argument>>: the calls users make
  MaxCalls,  \* bound on the calls users make
  Watch,     \* a connection to signalCompelte whose slot is for another loop
  Nil

Callers == Contexts \cup Threads

ASSUME CoroutineAssumption ==
  /\ Contexts \cap Threads = {} /\ MaxCalls \in Nat
  /\ \A call \in Calls : call[1] \in Callers
  /\ Watch \notin Contexts
  /\ Nil \notin Coroutines \cup Callers \cup Ids

VARIABLES
  queue,      \* the functions handed to each coroutine's loop
  at,         \* where each coroutine's thread is
  ready,      \* m_runningContextMap: all contexts have the priority 0
  members,    \* m_sharedContextSet
  current,    \* m_currentContext
  terminate,  \* the coroutines whose m_terminate is true
  threadId,   \* the id of each coroutine's thread
  coMap,      \* g_coPoolMap
  loopMap,    \* g_loopPoolMap, a loop by its coroutine
  home,       \* the coroutine a context was handed to
  pc,         \* where each context and each other thread is
  begun,      \* the contexts whose firstRun is false
  dead,       \* those whose alive is false
  running,    \* those whose running is true
  waiters,    \* the connections of each signalCompelte, by their receiver
  todo,       \* those the emission has still to go through
  target,     \* the context a context or thread joins, the coroutine it deletes
  timers,     \* how many timers of yieldFor each context has
  told,       \* the contexts whose Watch was handed to the other loop
  calls,      \* how many calls users have made
  fault       \* what went wrong for good

coVars   == <<at, ready, members, current, terminate>>
idVars   == <<threadId, coMap, loopMap>>
joinVars == <<waiters, todo, target>>
vars == <<queue, coVars, idVars, home, pc, begun, dead, running, joinVars,
          timers, told, calls, fault>>

Functions == {"start", "ready", "resume", "register", "slot", "timeout", "null", "unload"}
Labels == {"none", "top", "wait", "drain", "poll", "context", "loop", "ending",
           "gone"}
CallerLabels == {"new", "user", "yield", "emit", "emitYield", "done", "test",
                 "wait", "asleep", "terminate", "run", "post", "fill",
                 "filling", "choose", "connect", "grow", "growing"}
Faults == {"none", "freed", "ended", "foreign", "signal", "deadlock", "pool"}

(* A posted function, the context it is about, and the connection.         *)
Function(do, x, who) == [do |-> do, ctx |-> x, who |-> who]

Init ==
  /\ queue = [c \in Coroutines |-> <<>>]
  /\ at = [c \in Coroutines |-> "none"]
  /\ ready = [c \in Coroutines |-> <<>>]
  /\ members = [c \in Coroutines |-> {}]
  /\ current = [c \in Coroutines |-> Nil]
  /\ terminate = {}
  /\ threadId = [c \in Coroutines |-> Nil]
  /\ coMap = [i \in Ids |-> Nil] /\ loopMap = [i \in Ids |-> Nil]
  /\ home = [x \in Contexts |-> Nil]
  /\ pc = [u \in Callers |-> IF u \in Contexts THEN "new" ELSE "user"]
  /\ begun = {} /\ dead = {} /\ running = {}
  /\ waiters = [x \in Contexts |-> {}] /\ todo = [x \in Contexts |-> {}]
  /\ target = [u \in Callers |-> Nil]
  /\ timers = [x \in Contexts |-> 0] /\ told = <<>> /\ calls = 0
  /\ fault = "none"
-----------------------------------------------------------------------------
(* Helpers.                                                                *)

Post(c, f) == queue' = [queue EXCEPT ![c] = Append(@, f)]
Goto(u, label) == pc' = [pc EXCEPT ![u] = label]
CoGoto(c, label) == at' = [at EXCEPT ![c] = label]

(* x is what its coroutine's thread executes.                              *)
Executes(x) ==
  home[x] # Nil /\ at[home[x]] = "context" /\ current[home[x]] = x

(* The user's code of u makes a call.                                      *)
May(u, op, arg) ==
  /\ pc[u] = "user" /\ (u \in Contexts => Executes(u))
  /\ <<u, op, arg>> \in Calls
  /\ calls < MaxCalls /\ calls' = calls + 1

(* The coroutine exists, and no user has called its deleteLater.           *)
Usable(c) ==
  /\ at[c] \notin {"none", "loop", "ending", "gone"} /\ c \notin terminate
  /\ \A t \in Threads : target[t] # c

(* The loop is the receiver of a connection, by join or by the timer of    *)
(* yieldFor, which lives until its slots have run: its deleteLater would   *)
(* wait for the mutex it holds itself (NoSelfDeadlock of LoopProperties).  *)
Connected(c) ==
  \/ \E x \in Contexts : \E j \in waiters[x] \ {Watch} : home[j] = c
  \/ \E x \in Contexts : home[x] = c /\ timers[x] > 0
  \/ \E i \in DOMAIN queue[c] : queue[c][i].do = "timeout"

KeepsRunning(x) == UNCHANGED running

StopsRunning(x) == running' = running \ {x}

(* The jump back to run, and what run does with the context.               *)
SwitchBack(c) ==
  LET x == current[c] IN
  /\ StopsRunning(x)
  /\ members' = [members EXCEPT ![c] = @ \ (dead \cap {x})]
  /\ current' = [current EXCEPT ![c] = Nil]
  /\ CoGoto(c, "top")
  /\ UNCHANGED <<ready, terminate>>
-----------------------------------------------------------------------------
(* A coroutine: its construction, run, and the functions of its loop.      *)

(* newInstance.  The constructor posts run, which is the first function    *)
(* that the new loop gets to.                                              *)
Create(cs, ids) ==
  /\ at' = [c \in Coroutines |-> IF c \in cs THEN "top" ELSE at[c]]
  /\ threadId' = [c \in Coroutines |-> IF c \in cs THEN ids[c] ELSE threadId[c]]
  /\ coMap' = [i \in Ids |-> IF \E c \in cs : ids[c] = i /\ coMap[i] = Nil
                             THEN CHOOSE c \in cs : ids[c] = i ELSE coMap[i]]
  /\ loopMap' = [i \in Ids |-> IF \E c \in cs : ids[c] = i /\ loopMap[i] = Nil
                               THEN CHOOSE c \in cs : ids[c] = i ELSE loopMap[i]]
  /\ UNCHANGED <<queue, ready, members, current, terminate>>

FreeIds == Ids \ {threadId[c] : c \in {d \in Coroutines : at[d] # "gone"}}

NewInstance(t, c) ==
  /\ May(t, "new", c) /\ at[c] = "none"
  /\ \E i \in FreeIds : Create({c}, [d \in {c} |-> i])
  /\ UNCHANGED <<home, pc, begun, dead, running, joinVars, timers, told, fault>>

WaitFirst(c) == "wait"

(* run waits for a function if no context is ready, else it runs those     *)
(* that are there.                                                         *)
NextStep(c) == IF ready[c] = <<>> THEN "wait" ELSE "poll"

(* waitProcess and process throw in a thread which g_loopPoolMap knows as  *)
(* another loop's, and nothing catches.                                    *)
Top(c) ==
  /\ at[c] = "top" /\ c \notin terminate
  /\ IF loopMap[threadId[c]] # c
     THEN fault' = "foreign" /\ UNCHANGED at
     ELSE CoGoto(c, NextStep(c)) /\ UNCHANGED fault
  /\ UNCHANGED <<queue, ready, members, current, terminate, idVars, home, pc,
                 begun, dead, running, joinVars, timers, told, calls>>

ForgetNothing(c) == UNCHANGED coMap

ForgetThread(c) == coMap' = [coMap EXCEPT ![threadId[c]] = Nil]

(* run ends in delete this: the loop goes on with what it still has.       *)
Delete(c) ==
  /\ at[c] = "top" /\ c \in terminate
  /\ CoGoto(c, "loop")
  /\ ready' = [ready EXCEPT ![c] = <<>>]
  /\ members' = [members EXCEPT ![c] = {}]
  /\ Post(c, Function("null", Nil, Nil))
  /\ ForgetThread(c)
  /\ fault' = IF Connected(c) THEN "deadlock" ELSE fault
  /\ UNCHANGED <<current, terminate, threadId, loopMap, home, pc, begun, dead,
                 running, joinVars, timers, told, calls>>

ResumableTwice(c, x) == x \in members[c] /\ x \notin dead

Resumable(c, x) == x \in members[c] /\ x \notin dead /\ x \notin running

(* What a function posts to its own loop.  The slots of a timer are run in *)
(* the order of their connections' addresses: if the one that deletes the  *)
(* timer is first, the one that resumes is not called.                     *)
Posts(f) ==
  LET resume == <<Function("resume", f.ctx, Nil)>> IN
  CASE f.do = "slot" -> {resume}
    [] f.do = "timeout" -> {resume, <<>>}
    [] OTHER -> {<<>>}

(* waitProcess or process runs a function, and goes on with the next.      *)
RunFunction(c) ==
  LET f == Head(queue[c])
      x == f.ctx
      Readies == f.do \in {"start", "ready"} \/ (f.do = "resume" /\ Resumable(c, x))
  IN
  /\ at[c] \in {"wait", "drain", "poll", "loop"} /\ queue[c] # <<>>
  /\ f.do # "unload"
  /\ CoGoto(c, IF at[c] = "wait" THEN "drain" ELSE at[c])
  /\ \E fs \in Posts(f) : queue' = [queue EXCEPT ![c] = Tail(@) \o fs]
  /\ ready' = IF Readies THEN [ready EXCEPT ![c] = Append(@, x)] ELSE ready
  /\ members' = IF f.do = "start" THEN [members EXCEPT ![c] = @ \cup {x}] ELSE members
  /\ running' = IF f.do = "resume" /\ Readies THEN running \cup {x} ELSE running
  /\ waiters' = IF f.do = "register" THEN [waiters EXCEPT ![x] = @ \cup {f.who}] ELSE waiters
  /\ fault' = IF at[c] = "loop" /\ f.do \notin {"null", "register"} THEN "freed" ELSE fault
  /\ UNCHANGED <<current, terminate, idVars, home, pc, begun, dead, todo,
                 target, timers, told, calls>>

Drained(c) ==
  /\ queue[c] = <<>>
  /\ \/ at[c] = "drain" /\ CoGoto(c, "top")
     \/ at[c] = "loop" /\ CoGoto(c, "ending")
  /\ UNCHANGED <<queue, ready, members, current, terminate, idVars, home, pc,
                 begun, dead, running, joinVars, timers, told, calls, fault>>

BeginsAgain(x) == UNCHANGED begun

Begins(x) == begun' = begun \cup {x}

(* The jump to the first ready context: what it waited for has come.       *)
Switch(c) ==
  LET x == Head(ready[c]) IN
  /\ at[c] = "poll" /\ queue[c] = <<>>
  /\ CoGoto(c, "context")
  /\ ready' = [ready EXCEPT ![c] = Tail(@)]
  /\ current' = [current EXCEPT ![c] = x]
  /\ Begins(x)
  /\ pc' = IF x \in begun THEN pc ELSE [pc EXCEPT ![x] = "user"]
  /\ target' = [target EXCEPT ![x] = Nil]
  /\ fault' = IF pc[x] = "done" THEN "ended" ELSE fault
  /\ UNCHANGED <<queue, members, terminate, idVars, home, dead, running,
                 waiters, todo, timers, told, calls>>

(* Loop::run waits for the owners of m_sharedAlive.  A context that has    *)
(* begun is one for ever: its own stack holds a reference to it.           *)
EndThread(c) ==
  /\ at[c] = "ending" /\ \A x \in begun : home[x] # c
  /\ CoGoto(c, "gone")
  /\ UNCHANGED <<queue, ready, members, current, terminate, idVars, home, pc,
                 begun, dead, running, joinVars, timers, told, calls, fault>>
-----------------------------------------------------------------------------
(* The member functions, as contexts and other threads call them.          *)

(* work: the context is new, and its coroutine's loop makes it ready.      *)
Hand(c, x) ==
  /\ home[x] = Nil
  /\ home' = [home EXCEPT ![x] = c]
  /\ running' = running \cup {x}
  /\ Post(c, Function("start", x, Nil))

Work(u, x) ==
  /\ \E c \in Coroutines : May(u, "work", <<x, c>>) /\ Usable(c) /\ Hand(c, x)
  /\ UNCHANGED <<coVars, idVars, pc, begun, dead, joinVars, timers, told, fault>>

(* resume(x); in a context of the same coroutine a yield follows.          *)
Resume(u, x) ==
  /\ May(u, "resume", x) /\ home[x] # Nil /\ Usable(home[x])
  /\ Post(home[x], Function("resume", x, Nil))
  /\ pc' = IF u \in Contexts /\ home[u] = home[x]
           THEN [pc EXCEPT ![u] = "yield"] ELSE pc
  /\ UNCHANGED <<coVars, idVars, home, begun, dead, running, joinVars, timers,
                 told, fault>>

(* What yield does: post a function that makes x ready, and jump back.     *)
YieldBody(x) == Post(home[x], Function("ready", x, Nil)) /\ SwitchBack(home[x])

Yield(x) ==
  /\ YieldBody(x)
  /\ \/ May(x, "yield", Nil) /\ UNCHANGED pc
     \/ pc[x] = "yield" /\ Executes(x) /\ Goto(x, "user") /\ UNCHANGED calls
  /\ UNCHANGED <<idVars, home, begun, dead, joinVars, timers, told, fault>>

(* pending, and yieldFor, which sets a timer first.                        *)
Pending(x) ==
  /\ \/ May(x, "pending", Nil) /\ UNCHANGED timers
     \/ May(x, "yieldFor", Nil) /\ timers' = [timers EXCEPT ![x] = @ + 1]
  /\ SwitchBack(home[x])
  /\ UNCHANGED <<queue, idVars, home, pc, begun, dead, joinVars, told, fault>>

(* The timer's signal is dispatched in the coroutine's loop.               *)
TimerFires(x) ==
  /\ timers[x] > 0 /\ timers' = [timers EXCEPT ![x] = @ - 1]
  /\ Post(home[x], Function("timeout", x, Nil))
  /\ UNCHANGED <<coVars, idVars, home, pc, begun, dead, running, joinVars,
                 told, calls, fault>>

(* join(y) in a context: the connection is made at once when y's loop is   *)
(* this one, and by a function of y's loop otherwise.                      *)
Join(x, y) ==
  /\ May(x, "join", y) /\ home[y] # Nil /\ Usable(home[y])
  /\ IF y \in dead THEN UNCHANGED <<queue, coVars, running, waiters, target>>
     ELSE /\ SwitchBack(home[x])
          /\ target' = [target EXCEPT ![x] = y]
          /\ IF home[y] = home[x]
             THEN waiters' = [waiters EXCEPT ![y] = @ \cup {x}] /\ UNCHANGED queue
             ELSE Post(home[y], Function("register", y, x)) /\ UNCHANGED waiters
  /\ UNCHANGED <<idVars, home, pc, begun, dead, todo, timers, told, fault>>
-----------------------------------------------------------------------------
(* The end of a context, archContextFun.                                   *)

(* The work has returned: alive is cleared, threads asleep are notified,   *)
(* and the signal is emitted.  The loop of a signal nobody has connected   *)
(* to was never initialised.                                               *)
Complete(x) ==
  /\ Executes(x) /\ pc[x] = "user"
  /\ dead' = dead \cup {x}
  /\ pc' = [u \in Callers |-> IF u = x THEN "emit"
                              ELSE IF pc[u] = "asleep" /\ target[u] = x THEN "test"
                              ELSE pc[u]]
  /\ todo' = [todo EXCEPT ![x] = waiters[x]]
  /\ fault' \in (IF waiters[x] = {} THEN {fault, "signal"} ELSE {fault})
  /\ UNCHANGED <<queue, coVars, idVars, home, begun, running, waiters, target,
                 timers, told, calls>>

SlotInEmitter(j, x) == home[x]

SlotLoop(j, x) == home[j]

(* The slots, in the order of their addresses.  That of a joiner calls     *)
(* resume: in this loop now, and then the ended context yields in it.      *)
Slot(x) ==
  /\ Executes(x) /\ pc[x] = "emit"
  /\ \E j \in todo[x] :
       /\ todo' = [todo EXCEPT ![x] = @ \ {j}]
       /\ \/ /\ j = Watch
             /\ told' = Append(told, x)
             /\ UNCHANGED <<queue, pc, coVars, running>>
          \/ /\ j # Watch /\ home[j] # home[x]
             /\ Post(SlotLoop(j, x), Function("slot", j, Nil))
             /\ UNCHANGED <<told, pc, coVars, running>>
          \/ /\ j # Watch /\ home[j] = home[x]
             /\ Post(home[j], Function("resume", j, Nil))
             /\ Goto(x, "emitYield")
             /\ UNCHANGED <<told, coVars, running>>
  /\ UNCHANGED <<idVars, home, begun, dead, waiters, target, timers, calls, fault>>

EmitYield(x) ==
  /\ Executes(x) /\ pc[x] = "emitYield"
  /\ Goto(x, "emit")
  /\ YieldBody(x)
  /\ UNCHANGED <<idVars, home, begun, dead, joinVars, timers, told, calls, fault>>

Leave(x) ==
  /\ Executes(x) /\ pc[x] = "emit" /\ todo[x] = {}
  /\ Goto(x, "done")
  /\ SwitchBack(home[x])
  /\ UNCHANGED <<queue, idVars, home, begun, dead, joinVars, timers, told, calls, fault>>
-----------------------------------------------------------------------------
(* Other threads: join waits for a condition variable.                     *)

ThreadJoin(t, x) ==
  /\ May(t, "join", x) /\ home[x] # Nil
  /\ Goto(t, "test") /\ target' = [target EXCEPT ![t] = x]
  /\ UNCHANGED <<queue, coVars, idVars, home, begun, dead, running, waiters,
                 todo, timers, told, fault>>

EndedPause(x) == x \notin running

Ended(x) == x \in dead

(* The predicate is read under compeleteCvMutex, which does not keep       *)
(* Complete out between the look and the wait.                             *)
ThreadWaits(t) ==
  /\ \/ /\ pc[t] = "test" /\ Ended(target[t])
        /\ Goto(t, "user") /\ target' = [target EXCEPT ![t] = Nil]
     \/ /\ pc[t] = "test" /\ ~ Ended(target[t])
        /\ Goto(t, "wait") /\ UNCHANGED target
     \/ pc[t] = "wait" /\ Goto(t, "asleep") /\ UNCHANGED target
  /\ UNCHANGED <<queue, coVars, idVars, home, begun, dead, running, waiters,
                 todo, timers, told, calls, fault>>

(* deleteLater: first the loop's own.                                      *)
DeleteLater(t, c) ==
  /\ May(t, "delete", c) /\ Usable(c)
  /\ target' = [target EXCEPT ![t] = c] /\ Goto(t, "terminate")
  /\ Post(c, Function("null", Nil, Nil))
  /\ fault' = IF Connected(c) THEN "deadlock" ELSE fault
  /\ UNCHANGED <<coVars, idVars, home, begun, dead, running, waiters, todo,
                 timers, told>>

Terminate(t) ==
  /\ pc[t] = "terminate" /\ Goto(t, "run")
  /\ terminate' = terminate \cup {target[t]}
  /\ UNCHANGED <<queue, at, ready, members, current, idVars, home, begun, dead,
                 running, joinVars, timers, told, calls, fault>>

UseLoopNoPost(t) ==
  LET c == target[t] IN
  /\ \/ pc[t] = "run" /\ Goto(t, "post") /\ UNCHANGED target
     \/ pc[t] = "post" /\ Goto(t, "user") /\ target' = [target EXCEPT ![t] = Nil]
  /\ fault' = IF at[c] \in {"loop", "ending", "gone"} THEN "freed" ELSE fault
  /\ UNCHANGED <<queue, coVars, idVars, home, begun, dead, running, waiters,
                 todo, timers, told, calls>>

(* m_loop is read in the object which run may have deleted.                *)
UseLoop(t) ==
  LET c == target[t] IN
  /\ \/ pc[t] = "run" /\ Goto(t, "post") /\ UNCHANGED <<queue, target>>
     \/ /\ pc[t] = "post" /\ Goto(t, "user")
        /\ Post(c, Function("null", Nil, Nil))
        /\ target' = [target EXCEPT ![t] = Nil]
  /\ fault' = IF at[c] \in {"loop", "ending", "gone"} THEN "freed" ELSE fault
  /\ UNCHANGED <<coVars, idVars, home, begun, dead, running, waiters, todo,
                 timers, told, calls>>
-----------------------------------------------------------------------------
ContextStep(x) ==
  \/ Complete(x) \/ Slot(x) \/ EmitYield(x) \/ Leave(x)
  \/ pc[x] = "yield" /\ Yield(x)

CoroutineStep(c) ==
  \/ Top(c) \/ Delete(c) \/ RunFunction(c) \/ Drained(c) \/ Switch(c)
  \/ current[c] # Nil /\ ContextStep(current[c])

ThreadStep(t) == ThreadWaits(t) \/ Terminate(t) \/ UseLoop(t)

ContextCall(x) ==
  \/ pc[x] = "user" /\ Yield(x)
  \/ Pending(x)
  \/ \E y \in Contexts : Work(x, y) \/ Resume(x, y) \/ Join(x, y)

ThreadCall(t) ==
  \/ \E c \in Coroutines : NewInstance(t, c) \/ DeleteLater(t, c)
  \/ \E x \in Contexts : Work(t, x) \/ Resume(t, x) \/ ThreadJoin(t, x)

Next ==
  /\ fault = "none"
  /\ \/ \E c \in Coroutines : CoroutineStep(c) \/ EndThread(c)
     \/ \E x \in Contexts : ContextCall(x) \/ TimerFires(x)
     \/ \E t \in Threads : ThreadCall(t) \/ ThreadStep(t)

Spec == Init /\ [][Next]_vars

(* Threads go on, user's code in a context returns, and timers fire.       *)
Fairness ==
  /\ \A c \in Coroutines : WF_vars(fault = "none" /\ CoroutineStep(c))
  /\ \A x \in Contexts : WF_vars(fault = "none" /\ TimerFires(x))
  /\ \A t \in Threads : WF_vars(fault = "none" /\ ThreadStep(t))

FairSpec == Spec /\ Fairness
=============================================================================
