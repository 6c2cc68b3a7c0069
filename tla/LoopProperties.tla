-------------------------- MODULE LoopProperties ---------------------------
(***************************************************************************)
(* What must hold of the event loop: the invariants, the refinement of     *)
(* Executor and the liveness properties of module Loop.                    *)
(***************************************************************************)
EXTENDS Loop, SeqFilter

(* The types of the loops' data.                                           *)
DataOK ==
  /\ highPri \in [Loops -> Seq(Task)]
  /\ events \in [Loops -> Seq(Task)]
  /\ runSem \in [Loops -> Nat]
  /\ runStaSem \in [Loops -> Nat]
  /\ deleteSem \in [Loops -> Nat]
  /\ operateMutex \in [Loops -> Threads \cup {Nil}]
  /\ terminate \in [Loops -> BOOLEAN]
  /\ deleting \subseteq Loops
  /\ sharedAlive \in [Loops -> BOOLEAN]
  /\ freed \in [Loops -> BOOLEAN]
  /\ holders \in [Loops -> SUBSET Refs]
  /\ bare \in [Loops -> SUBSET Refs]
  /\ connects \in [Loops -> SUBSET Connects]
  /\ connAlive \subseteq Connects
  /\ bound \subseteq Connects
  /\ used \subseteq Works \cup Connects
  /\ posted \subseteq Works

(* Every variable has its type; a queued or executing function, and the    *)
(* argument of every frame, is a function of the model.                    *)
TypeOK ==
  /\ DataOK
  /\ frame \in [Threads -> Frame]
  /\ stack \in [Threads -> Seq(Frame)]

(* A thread's frames, the active one last.                                 *)
Frames(t) == Append(stack[t], frame[t])
-----------------------------------------------------------------------------
(* Safety.                                                                 *)

ReaderLabels == PumpLabels \cup {"body"}

(* Functions are taken from a loop's queues and run only by a thread whose *)
(* getCurrentLoop is the loop, whatever nested process, waitProcess or     *)
(* workSync it is in and whatever has become of the loop since it was      *)
(* called: its own thread, or, on the default loop, any thread that runs   *)
(* none (loop.cc:76, :189, :200).                                          *)
ServedByCurrentLoop ==
  \A t \in Threads : \A i \in DOMAIN Frames(t) :
    Frames(t)[i].at \in ReaderLabels => Frames(t)[i].loop = CurrentLoop(t)

(* One thread at a time pops the ring of a loop, as ring_list.h:24 asks:   *)
(* violated, as getCurrentLoop gives every thread without a loop the       *)
(* default one (loop.cc:232), and workSync or process called by main reads *)
(* its ring beside its thread.                                             *)
OneReader ==
  \A t, u \in Threads :
    At(t, "pop") /\ At(u, "pop") /\ On(t) = On(u) => t = u

One(b) == IF b THEN 1 ELSE 0

(* The loop's thread has taken a post and not yet its function.            *)
Claiming(l) == frame[l].at \in {"pop", "low"}

(* A function is queued and not yet posted.                                *)
Posting(l) == \E t \in Threads : At(t, "post") /\ On(t) = l

(* The run semaphore counts the queued functions: every post has its       *)
(* function, so processData never comes back empty-handed, and every       *)
(* function has its post, so none is left in the queue of an idle loop.    *)
PostPerFunction ==
  \A l \in Loops :
    Len(highPri[l]) + Len(events[l])
      = runSem[l] + One(Claiming(l)) + One(Posting(l))

(* The function workSync wraps around w is queued or executing.            *)
Outstanding(w) ==
  LET Wraps(e) == e.id = w /\ e.kind = "sync" IN
  \/ \E l \in Loops : \/ \E i \in DOMAIN highPri[l] : Wraps(highPri[l][i])
                      \/ \E i \in DOMAIN events[l] : Wraps(events[l][i])
  \/ \E t \in Threads : \E i \in DOMAIN Frames(t) :
       Frames(t)[i].at = "exec" /\ Wraps(Frames(t)[i].arg)

(* As long as the wrapped function is queued or executing, the caller of   *)
(* workSync is still inside the call: the function refers to the caller's  *)
(* local semaphore (loop.cc:96, captured by reference).                    *)
SyncCallerWaits ==
  \A w \in Works : Outstanding(w) =>
    \E t \in Threads : frame[t].at \in {"post", "ack"} /\ Arg(t).id = w

(* No thread waits for a spin mutex it holds.                              *)
NoSelfDeadlock ==
  \A t \in Threads :
    frame[t].at \in {"push", "low", "add", "remove", "delLock"}
      => operateMutex[On(t)] # t

(* A loop is deleted only when nobody owns a copy of its m_sharedAlive.    *)
RefsKeepLoop ==
  \A l \in Loops : freed[l] => holders[l] = {} /\ ~sharedAlive[l]

(* deleteLater and the functions it calls never touch a deleted loop.      *)
DeleteLaterTouchesLiveLoop ==
  \A t \in Threads : frame[t].at \in DeleteLabels \cup {"push", "post"}
                       => ~freed[On(t)]

(* The functions that enter a connection in its receiver's loop, or remove *)
(* it, run in any thread and at any time: the connection keeps that loop   *)
(* by its copy of m_sharedAlive (object.cc:57).  One made in the loop's    *)
(* thread after deleteLater has no copy, and nothing keeps the loop for    *)
(* it: then connector.h:361 and :395 may use a deleted one.                *)
RegistrationTouchesLiveLoop ==
  \A t \in Threads : \A i \in DOMAIN Frames(t) :
    LET f == Frames(t)[i] IN
    f.at \in {"add", "remove"} /\ f.arg.id \notin bare[f.loop] => ~freed[f.loop]
-----------------------------------------------------------------------------
(* Refinement: the queues, the frames that execute a function of Works and *)
(* the functions that have returned are the state of Executor.             *)

WorksOf == [p \in Priorities |-> {e \in Task : e.pri = p /\ e.id \in Works}]

WorkFrames == {f \in Frame : f.at \in {"exec", "body"} /\ f.arg.id \in Works}

Waiting(l, p) ==
  LET q == Kept(highPri[l] \o events[l], WorksOf[p])
  IN [i \in DOMAIN q |-> q[i].id]

Executing(l) ==
  LET s == Kept(Frames(l), WorkFrames)
  IN [i \in DOMAIN s |-> s[i].arg.id]

InHand(w) ==
  \E t \in Threads : \E i \in DOMAIN Frames(t) :
    /\ Frames(t)[i].arg.id = w
    /\ Frames(t)[i].at \in {"push", "process", "begin", "exec", "body"}

Pending(w) ==
  \E l \in Loops, p \in Priorities :
    LET q == Waiting(l, p) IN \E i \in DOMAIN q : q[i] = w

Returned == {w \in used \cap Works : ~InHand(w) /\ ~Pending(w)}

Abstract == INSTANCE Executor WITH
  queue <- [l \in Loops |-> [p \in Priorities |-> Waiting(l, p)]],
  running <- [l \in Loops |-> Executing(l)],
  done <- Returned

(* The loops run every function handed to them as Executor says: once, in  *)
(* its loop's thread, in order.                                            *)
ImplementsExecutor == Abstract!Spec
-----------------------------------------------------------------------------
(* Liveness.                                                               *)

(* Every function handed over runs to its end.                             *)
EveryWorkRuns == \A w \in Works : (w \in used) ~> (w \in Returned)

(* Every call of workSync returns.                                         *)
SyncReturns == \A t \in Threads : At(t, "ack") ~> ~At(t, "ack")

(* The functions of setRun(false) that l has to run, and those that the    *)
(* calls of setRun(true) end, that of deleteLater included.                *)
Pauses(l) ==
    Cardinality({i \in DOMAIN highPri[l] : highPri[l][i].kind = "pause"})
  + Cardinality({t \in Threads : /\ frame[t].at \in {"push", "exec"}
                                 /\ On(t) = l /\ Arg(t).kind = "pause"})

Resumes(l) == runStaSem[l] + One(\E t \in Threads : At(t, "delRun") /\ On(t) = l)

PausesItself(l) == At(l, "push") /\ On(l) = l /\ Arg(l).kind = "pause"

(* A loop that deleteLater has told to stop and that nobody owns any more  *)
(* is deleted, whether its thread was busy, waited for a function or was   *)
(* paused (loop.cc:269).  deleteLater ends one pause: the thread waits for *)
(* ever if more of them are left, or if one of its own functions pauses it *)
(* after that.  A deleteLater that locks itself out (NoSelfDeadlock) never *)
(* gets to m_terminate.                                                    *)
DeletedLoopIsFreed ==
  \A l \in Loops :
    (terminate[l] /\ holders[l] = {} /\ Pauses(l) <= Resumes(l))
      ~> freed[l] \/ PausesItself(l)
=============================================================================
