----------------------------- MODULE Connection -----------------------------
(***************************************************************************)
(* Objects, signals and connections (inc/SpaE/connector.h, src/object.cc): *)
(* connect, emission, disconnection and destruction, by threads that each  *)
(* run a loop.                                                             *)
(*                                                                         *)
(* Of a loop this module uses what Executor promises: the functions of the *)
(* default priority run one at a time, in order, in the loop's thread; and *)
(* workSync returns when its function has.  A thread is therefore a queue  *)
(* of functions and a stack of the calls it is in.  A thread in user code  *)
(* (no call, or a slot) may make any call of Calls.                        *)
(***************************************************************************)
EXTENDS Integers, Sequences, FiniteSets

CONSTANTS
  Loops,       \* the loops, and their threads
  Objects,
  Signals,
  Slots,       \* what the slot argument of a disconnect can name
  Conns,       \* connections, each made once
  Container,   \* the object a signal is a member of
  SignalOf, ReceiverOf, SlotOf,  \* the arguments of connect; no receiver: Nil
  SyncConns,   \* the connections of mode Sync
  Home,        \* the loop an object is constructed in
  Calls,       \* <<thread, function, argument>>: the calls users make
  MaxCalls,    \* bound on the calls users make
  Nil

Ops == {"connect", "disconnect", "destroy", "move", "emit", "emitSync", "query"}

(* A disconnect by arguments: which function, called on which object.      *)
Query == [fn : {"pair", "args", "signal", "slot", "fromSender", "toReceiver"},
          object : Objects, signal : Signals \cup {Nil},
          peer : Objects \cup {Nil}, slot : Slots \cup {Nil}]

ASSUME ConnectionAssumption ==
  /\ Container \in [Signals -> Objects] /\ Home \in [Objects -> Loops]
  /\ SignalOf \in [Conns -> Signals]
  /\ ReceiverOf \in [Conns -> Objects \cup {Nil}]
  /\ SlotOf \in [Conns -> Slots \cup {Nil}] /\ SyncConns \subseteq Conns
  /\ \A call \in Calls : /\ call[1] \in Loops /\ call[2] \in Ops
                         /\ call[2] = "query" => call[3] \in Query
  /\ MaxCalls \in Nat
  /\ Nil \notin Loops \cup Objects \cup Signals \cup Conns \cup Slots

VARIABLES
  queue,        \* the functions handed to each loop
  stack,        \* the calls each thread is in, the innermost first
  loop,         \* Object::m_loop
  alive,        \* the objects whose AliveMutex says so
  moved,        \* those moveToLoop was called for
  asSender,     \* m_asSenderConnectSet
  asReceiver,   \* m_asReceiverConnectSet
  signalLoop,   \* SignalBase::m_loop
  connects,     \* Signal::m_connectFunMap and m_connectSet
  connAlive,    \* the connections whose ConnectBase::alive is true
  receiverLoop, \* ConnectBase::receiverLoop: the thread that connected
  wired,        \* the connections whose disconnectFun is set
  entered,      \* Loop::m_sharedConnectBaseSet
  calls, emits, \* how many calls users have made, how many emissions begun
  due, ran,     \* the emissions a connection was there for, or has run for
  nested,       \* the signals emitted by a slot of their own
  undefined     \* a thread used what the code leaves undefined

loopVars == <<queue, stack>>
objVars  == <<loop, alive, moved, asSender, asReceiver>>
sigVars  == <<signalLoop, connects>>
connVars == <<connAlive, receiverLoop, wired, entered>>
emitVars == <<emits, due, ran, nested>>
logVars  == <<calls, emitVars>>
vars == <<loopVars, objVars, sigVars, connVars, logVars, undefined>>

Sender(c) == Container[SignalOf[c]]

(* A posted function; sync: the thread that waits for it in workSync.      *)
Task(do, arg, id, sync) == [do |-> do, arg |-> arg, id |-> id, sync |-> sync]

(* A call: the connections it has still to go through, and the emission.   *)
Frame(at, arg, todo, id) == [at |-> at, arg |-> arg, todo |-> todo, id |-> id]

TaskKinds == {"register", "enter", "unregister", "leave", "slot", "dispatch",
              "dispatchSync", "query"}
ConnLabels == {"enter", "wire", "test", "sender", "receiver", "call", "slot"}
SignalLabels == {"dispatch", "dispatchSync"}

Init ==
  /\ queue = [l \in Loops |-> <<>>] /\ stack = [l \in Loops |-> <<>>]
  /\ loop = Home /\ alive = Objects /\ moved = {}
  /\ asSender = [o \in Objects |-> {}] /\ asReceiver = [o \in Objects |-> {}]
  /\ signalLoop = [s \in Signals |-> Nil] /\ connects = [s \in Signals |-> {}]
  /\ connAlive = {} /\ receiverLoop = [c \in Conns |-> Nil] /\ wired = {}
  /\ entered = [l \in Loops |-> {}]
  /\ calls = 0 /\ emits = 0 /\ nested = {}
  /\ due = [c \in Conns |-> {}] /\ ran = [c \in Conns |-> {}]
  /\ undefined = FALSE
-----------------------------------------------------------------------------
(* Threads.                                                                *)

At(t, label) == stack[t] # <<>> /\ Head(stack[t]).at = label
Arg(t) == Head(stack[t]).arg
Push(t, f) == stack' = [stack EXCEPT ![t] = <<f>> \o @]
Pop(t) == stack' = [stack EXCEPT ![t] = Tail(@)]
Goto(t, label) == stack' = [stack EXCEPT ![t][1].at = label]

(* Mutant: a function goes before the others.                              *)
PostFirst(l, task) == queue' = [queue EXCEPT ![l] = <<task>> \o @]

Post(l, task) == queue' = [queue EXCEPT ![l] = Append(@, task)]

May(t, op, arg) ==
  /\ stack[t] = <<>> \/ At(t, "slot")
  /\ <<t, op, arg>> \in Calls
  /\ calls < MaxCalls /\ calls' = calls + 1

(* The next function of the loop; what it does is one of the actions Run.  *)
NextIs(t, do) == stack[t] = <<>> /\ queue[t] # <<>> /\ Head(queue[t]).do = do
NextTask(t) == Head(queue[t])
Take(t) == queue' = [queue EXCEPT ![t] = Tail(@)]
Bottom(task) == Frame("task", task.sync, {}, 0)

(* Mutant: the caller is not told.                                         *)
ReturnNoPost(t) ==
  /\ At(t, "task")
  /\ Pop(t)
  /\ UNCHANGED <<queue, objVars, sigVars, connVars, logVars, undefined>>

(* A function with calls of its own has returned, and so does the workSync *)
(* that waits for it.                                                      *)
Return(t) ==
  /\ At(t, "task")
  /\ stack' = [l \in Loops |-> IF l = t \/ l = Arg(t) THEN Tail(stack[l])
                               ELSE stack[l]]
  /\ UNCHANGED <<queue, objVars, sigVars, connVars, logVars, undefined>>
-----------------------------------------------------------------------------
(* connect.                                                                *)

(* The function for the sender's loop, which this thread runs.             *)
Register(c, r) ==
  LET s == SignalOf[c]
      o == Sender(c) IN
  IF o \in alive
    THEN /\ signalLoop' = [signalLoop EXCEPT ![s] = loop[o]]
         /\ asSender' = [asSender EXCEPT ![o] = @ \cup {c}]
         /\ connects' = [connects EXCEPT ![s] = @ \cup {c}]
         /\ entered' = [l \in Loops |->
              IF ReceiverOf[c] = Nil /\ r = l
                THEN entered[l] \cup {c} ELSE entered[l]]
    ELSE UNCHANGED <<sigVars, asSender, entered>>

(* The user has to keep both objects until connect returns.                *)
Connect(t, c) ==
  LET o == Sender(c) IN
  /\ May(t, "connect", c)
  /\ receiverLoop[c] = Nil
  /\ {o, ReceiverOf[c]} \subseteq alive \cup {Nil}
  /\ receiverLoop' = [receiverLoop EXCEPT ![c] = t]
  /\ connAlive' = connAlive \cup {c}
  /\ Push(t, Frame(IF ReceiverOf[c] = Nil THEN "wire" ELSE "enter", c, {}, 0))
  /\ IF loop[o] = t THEN Register(c, t) /\ UNCHANGED queue
     ELSE /\ Post(loop[o], Task("register", c, 0, Nil))
          /\ UNCHANGED <<sigVars, asSender, entered>>
  /\ UNCHANGED <<loop, alive, moved, asReceiver, wired, emitVars, undefined>>

RunRegister(t) ==
  /\ NextIs(t, "register")
  /\ Register(NextTask(t).arg, receiverLoop[NextTask(t).arg])
  /\ Take(t)
  /\ UNCHANGED <<stack, loop, alive, moved, asReceiver, connAlive,
                 receiverLoop, wired, logVars, undefined>>

(* Mutant: the connection is entered at the wrong end.                     *)
EnterSender(c) ==
  asReceiver' = IF ReceiverOf[c] \notin alive THEN asReceiver
                ELSE [asReceiver EXCEPT ![Sender(c)] = @ \cup {c}]

(* connectAsReceiver.                                                      *)
EnterReceiver(c) ==
  asReceiver' = IF ReceiverOf[c] \notin alive THEN asReceiver
                ELSE [asReceiver EXCEPT ![ReceiverOf[c]] = @ \cup {c}]

Enter(t) ==
  LET c == Arg(t) IN
  /\ At(t, "enter")
  /\ IF loop[ReceiverOf[c]] = t THEN EnterReceiver(c) /\ UNCHANGED queue
     ELSE /\ Post(loop[ReceiverOf[c]], Task("enter", c, 0, Nil))
          /\ UNCHANGED asReceiver
  /\ Goto(t, "wire")
  /\ UNCHANGED <<loop, alive, moved, asSender, sigVars, connVars, logVars,
                 undefined>>

RunEnter(t) ==
  /\ NextIs(t, "enter")
  /\ EnterReceiver(NextTask(t).arg)
  /\ Take(t)
  /\ UNCHANGED <<stack, loop, alive, moved, asSender, sigVars, connVars,
                 logVars, undefined>>

(* disconnectFun, set when both functions have been posted.                *)
Wire(t) ==
  /\ At(t, "wire")
  /\ wired' = wired \cup {Arg(t)}
  /\ Pop(t)
  /\ UNCHANGED <<queue, objVars, sigVars, connAlive, receiverLoop, entered,
                 logVars, undefined>>
-----------------------------------------------------------------------------
(* disconnectFun: alive, then the sender's end, then the receiver's.       *)

(* The user has the connection once connect has returned.                  *)
Disconnect(t, c) ==
  /\ May(t, "disconnect", c)
  /\ c \in wired
  /\ Push(t, Frame("test", c, {}, 0))
  /\ UNCHANGED <<queue, objVars, sigVars, connVars, emitVars, undefined>>

Test(t) ==
  /\ At(t, "test")
  /\ IF Arg(t) \in connAlive THEN Goto(t, "sender") ELSE Pop(t)
  /\ UNCHANGED <<queue, objVars, sigVars, connVars, logVars, undefined>>

LeaveSender(t) ==
  LET c == Arg(t) IN
  /\ At(t, "sender")
  /\ connAlive' = connAlive \ {c}
  /\ IF Sender(c) \in alive
       THEN Post(loop[Sender(c)], Task("unregister", c, 0, Nil))
       ELSE UNCHANGED queue
  /\ Goto(t, "receiver")
  /\ UNCHANGED <<objVars, sigVars, receiverLoop, wired, entered, logVars,
                 undefined>>

(* Mutant: only the sender's end is told.                                  *)
LeaveNoReceiver(t) ==
  /\ At(t, "receiver")
  /\ Pop(t)
  /\ UNCHANGED <<queue, objVars, sigVars, connVars, logVars, undefined>>

LeaveReceiver(t) ==
  LET c == Arg(t)
      r == ReceiverOf[c] IN
  /\ At(t, "receiver")
  /\ IF r \in alive THEN Post(loop[r], Task("leave", c, 0, Nil))
     ELSE UNCHANGED queue
  /\ entered' = IF r # Nil THEN entered
                ELSE [entered EXCEPT ![receiverLoop[c]] = @ \ {c}]
  /\ Pop(t)
  /\ UNCHANGED <<objVars, sigVars, connAlive, receiverLoop, wired, logVars,
                 undefined>>

(* removeAsSenderSharedConnect, removeConnect.                             *)
RunUnregister(t) ==
  LET c == NextTask(t).arg IN
  /\ NextIs(t, "unregister")
  /\ IF Sender(c) \in alive
       THEN /\ asSender' = [asSender EXCEPT ![Sender(c)] = @ \ {c}]
            /\ connects' = [connects EXCEPT ![SignalOf[c]] = @ \ {c}]
       ELSE UNCHANGED <<asSender, connects>>
  /\ Take(t)
  /\ UNCHANGED <<stack, loop, alive, moved, asReceiver, signalLoop, connVars,
                 logVars, undefined>>

RunLeave(t) ==
  LET c == NextTask(t).arg IN
  /\ NextIs(t, "leave")
  /\ asReceiver' = IF ReceiverOf[c] \notin alive THEN asReceiver
                   ELSE [asReceiver EXCEPT ![ReceiverOf[c]] = @ \ {c}]
  /\ Take(t)
  /\ UNCHANGED <<stack, loop, alive, moved, asSender, sigVars, connVars,
                 logVars, undefined>>
-----------------------------------------------------------------------------
(* ~Object, and the disconnects by arguments.  All of them go through a    *)
(* set of connections, which only functions of the object's loop change.   *)

(* In its own thread, and not while a connect still needs the object.      *)
Destroy(t, o) ==
  /\ May(t, "destroy", o)
  /\ o \in alive /\ loop[o] = t
  /\ \A u \in Loops : At(u, "enter") \/ At(u, "wire")
                        => o \notin {Sender(Arg(u)), ReceiverOf[Arg(u)]}
  /\ alive' = alive \ {o}
  /\ Push(t, Frame("each", o, asSender[o] \cup asReceiver[o], 0))
  /\ UNCHANGED <<queue, loop, moved, asSender, asReceiver, sigVars, connVars,
                 emitVars, undefined>>

Is(x, y) == y # Nil => x = y
IsNot(x, y) == y # Nil => x # y

(* The connections a disconnect by arguments goes for; those of "pair",    *)
(* "signal" and "slot" do not match the argument.                          *)
Chosen(q) ==
  LET o == q.object IN
  CASE q.fn = "pair" -> {c \in asSender[o] : ReceiverOf[c] # q.peer}
    [] q.fn = "args" ->
         {c \in asSender[o] :
            /\ <<q.signal, q.slot>> # <<Nil, Nil>> /\ ReceiverOf[c] = q.peer
            /\ Is(SignalOf[c], q.signal) /\ Is(SlotOf[c], q.slot)}
    [] q.fn = "signal" -> {c \in asSender[o] : IsNot(SignalOf[c], q.signal)}
    [] q.fn = "slot" -> {c \in asReceiver[o] : IsNot(SlotOf[c], q.slot)}
    [] q.fn = "fromSender" ->
         {c \in asReceiver[o] : Sender(c) = q.peer /\ Is(SignalOf[c], q.signal)}
    [] q.fn = "toReceiver" ->
         {c \in asSender[o] : ReceiverOf[c] = q.peer /\ Is(SlotOf[c], q.slot)}

(* The last two are member functions only: users call them in the loop.    *)
DisconnectQuery(t, q) ==
  /\ May(t, "query", q)
  /\ q.object \in alive
  /\ \/ /\ loop[q.object] = t
        /\ Push(t, Frame("each", q.object, Chosen(q), 0))
        /\ UNCHANGED queue
     \/ /\ loop[q.object] # t /\ q.fn \notin {"fromSender", "toReceiver"}
        /\ Post(loop[q.object], Task("query", q, 0, Nil))
        /\ UNCHANGED stack
  /\ UNCHANGED <<objVars, sigVars, connVars, emitVars, undefined>>

RunQuery(t) ==
  LET q == NextTask(t).arg IN
  /\ NextIs(t, "query")
  /\ Take(t)
  /\ IF q.object \in alive
       THEN Push(t, Frame("each", q.object, Chosen(q), 0))
       ELSE UNCHANGED stack
  /\ UNCHANGED <<objVars, sigVars, connVars, logVars, undefined>>

(* disconnectFun of the next connection, which throws when it is not set.  *)
Each(t) ==
  LET f == Head(stack[t]) IN
  /\ At(t, "each")
  /\ \/ f.todo = {} /\ Pop(t) /\ UNCHANGED undefined
     \/ \E c \in f.todo :
          LET rest == [f EXCEPT !.todo = @ \ {c}] IN
          /\ stack' = [stack EXCEPT ![t] =
               <<Frame("test", c, {}, 0), rest>> \o Tail(@)]
          /\ undefined' = (c \notin wired)
  /\ UNCHANGED <<queue, objVars, sigVars, connVars, logVars>>

MoveToLoop(t, o, l) ==
  /\ May(t, "move", o)
  /\ o \in alive \ moved /\ loop[o] = t /\ l # t
  /\ loop' = [loop EXCEPT ![o] = l]
  /\ signalLoop' = [s \in Signals |->
       IF Container[s] = o /\ signalLoop[s] # Nil THEN l ELSE signalLoop[s]]
  /\ moved' = moved \cup {o}
  /\ UNCHANGED <<loopVars, alive, asSender, asReceiver, connects, connVars,
                 emitVars, undefined>>
-----------------------------------------------------------------------------
(* Signal::dispatch and dispatchSync.                                      *)

(* dispatchHelper goes through a copy of the connections; nested: a slot   *)
(* of this signal, further down the stack, has emitted it.                 *)
BeginDispatch(t, do, s, below) ==
  /\ emits' = emits + 1
  /\ due' = [c \in Conns |-> IF c \in connects[s] THEN due[c] \cup {emits + 1}
                             ELSE due[c]]
  /\ stack' = [stack EXCEPT ![t] =
       <<Frame(do, s, connects[s], emits + 1)>> \o below]
  /\ nested' = IF \E i \in DOMAIN below :
                    below[i].at \in SignalLabels /\ below[i].arg = s
                 THEN nested \cup {s} ELSE nested

(* m_loop is not initialised: without a connection so far, an emission     *)
(* returns, or crashes.                                                    *)
Emit(t, s, sync) ==
  LET do == IF sync THEN "dispatchSync" ELSE "dispatch" IN
  /\ May(t, IF sync THEN "emitSync" ELSE "emit", s)
  /\ Container[s] \in alive
  /\ \/ /\ signalLoop[s] = Nil
        /\ undefined' \in BOOLEAN
        /\ UNCHANGED <<loopVars, emits, due, nested>>
     \/ /\ signalLoop[s] = t
        /\ BeginDispatch(t, do, s, stack[t])
        /\ UNCHANGED <<queue, undefined>>
     \/ /\ signalLoop[s] \notin {t, Nil}
        /\ Post(signalLoop[s], Task(do, s, 0, IF sync THEN t ELSE Nil))
        /\ IF sync THEN Push(t, Frame("wait", s, {}, 0)) ELSE UNCHANGED stack
        /\ UNCHANGED <<emits, due, nested, undefined>>
  /\ UNCHANGED <<objVars, sigVars, connVars, ran>>

RunDispatch(t, do) ==
  LET task == NextTask(t) IN
  /\ NextIs(t, do)
  /\ Take(t)
  /\ IF Container[task.arg] \in alive
       THEN BeginDispatch(t, do, task.arg, <<Bottom(task)>>)
       ELSE Push(t, Bottom(task)) /\ UNCHANGED <<emits, due, nested>>
  /\ UNCHANGED <<objVars, sigVars, connVars, calls, ran, undefined>>

(* Mutant: a dead connection ends the round.                               *)
LookReturns(t, do) ==
  LET f == Head(stack[t]) IN
  /\ At(t, do)
  /\ IF f.todo = {} \/ Container[f.arg] \notin alive THEN Pop(t)
     ELSE \E c \in f.todo :
            LET rest == [f EXCEPT !.todo = @ \ {c}] IN
            stack' = [stack EXCEPT ![t] =
              (IF c \in connects[f.arg] \cap connAlive
                 THEN <<Frame("hand", c, {}, f.id), rest>> ELSE <<>>)
                \o Tail(@)]
  /\ UNCHANGED <<queue, objVars, sigVars, connVars, logVars, undefined>>

(* The next connection of connectSet: it is looked up, and its alive read. *)
(* When the last slot has deleted the container, there is no next one.     *)
Look(t, do) ==
  LET f == Head(stack[t]) IN
  /\ At(t, do)
  /\ IF f.todo = {} \/ Container[f.arg] \notin alive THEN Pop(t)
     ELSE \E c \in f.todo :
            LET rest == [f EXCEPT !.todo = @ \ {c}] IN
            stack' = [stack EXCEPT ![t] =
              (IF c \in connects[f.arg] \cap connAlive
                 THEN <<Frame("hand", c, {}, f.id), rest>> ELSE <<rest>>)
                \o Tail(@)]
  /\ UNCHANGED <<queue, objVars, sigVars, connVars, logVars, undefined>>

(* The receiver's loop: the slot runs at once or is posted.  The function  *)
(* dispatchSync posts uses a receiver, which there may not be.             *)
Hand(t) ==
  LET f == Head(stack[t])
      c == f.arg
      r == ReceiverOf[c]
      l == IF r = Nil THEN receiverLoop[c] ELSE loop[r]
      syncCall == stack[t][2].at = "dispatchSync"
      sync == syncCall \/ c \in SyncConns
  IN
  /\ At(t, "hand")
  /\ \/ r \notin alive \cup {Nil} /\ Pop(t) /\ UNCHANGED <<queue, undefined>>
     \/ /\ r \in alive \cup {Nil} /\ l = signalLoop[SignalOf[c]]
        /\ Goto(t, "call")
        /\ UNCHANGED <<queue, undefined>>
     \/ /\ r \in alive \cup {Nil} /\ l # signalLoop[SignalOf[c]]
        /\ undefined' = (syncCall /\ r = Nil)
        /\ Post(l, Task("slot", c, f.id, IF sync THEN t ELSE Nil))
        /\ IF sync THEN Goto(t, "wait") ELSE Pop(t)
  /\ UNCHANGED <<objVars, sigVars, connVars, logVars>>

(* Mutant: the receiver may have died since.                               *)
RunSlotUnchecked(t) ==
  LET task == NextTask(t) IN
  /\ NextIs(t, "slot")
  /\ Take(t)
  /\ stack' = [stack EXCEPT ![t] =
       <<Frame("call", task.arg, {}, task.id), Bottom(task)>>]
  /\ UNCHANGED <<objVars, sigVars, connVars, logVars, undefined>>

RunSlot(t) ==
  LET task == NextTask(t)
      call == IF ReceiverOf[task.arg] \in alive \cup {Nil}
                THEN <<Frame("call", task.arg, {}, task.id)>> ELSE <<>>
  IN
  /\ NextIs(t, "slot")
  /\ Take(t)
  /\ stack' = [stack EXCEPT ![t] = call \o <<Bottom(task)>>]
  /\ UNCHANGED <<objVars, sigVars, connVars, logVars, undefined>>

CallSlot(t) ==
  /\ At(t, "call")
  /\ ran' = [ran EXCEPT ![Arg(t)] = @ \cup {Head(stack[t]).id}]
  /\ Goto(t, "slot")
  /\ UNCHANGED <<queue, objVars, sigVars, connVars, calls, emits, due,
                 nested, undefined>>

EndSlot(t) ==
  /\ At(t, "slot")
  /\ Pop(t)
  /\ UNCHANGED <<queue, objVars, sigVars, connVars, logVars, undefined>>
-----------------------------------------------------------------------------
UserCall(t) ==
  \/ \E c \in Conns : Connect(t, c) \/ Disconnect(t, c)
  \/ \E o \in Objects : Destroy(t, o) \/ \E l \in Loops : MoveToLoop(t, o, l)
  \/ \E s \in Signals, sync \in BOOLEAN : Emit(t, s, sync)
  \/ \E call \in Calls : DisconnectQuery(t, call[3])

ThreadStep(t) ==
  \/ RunRegister(t) \/ RunEnter(t) \/ RunUnregister(t) \/ RunLeave(t)
  \/ RunQuery(t) \/ RunSlot(t) \/ Return(t)
  \/ Enter(t) \/ Wire(t)
  \/ Test(t) \/ LeaveSender(t) \/ LeaveReceiver(t) \/ Each(t)
  \/ \E do \in SignalLabels : RunDispatch(t, do) \/ Look(t, do)
  \/ Hand(t) \/ CallSlot(t) \/ EndSlot(t)

Next ==
  ~undefined /\ \E t \in Loops : ThreadStep(t) \/ UserCall(t)

Spec == Init /\ [][Next]_vars

(* Every loop's thread runs, and the slots users write return.             *)
FairSpec == Spec /\ \A t \in Loops : WF_vars(~undefined /\ ThreadStep(t))
=============================================================================
