------------------------------ MODULE Executor ------------------------------
(***************************************************************************)
(* What the loops promise whoever posts to them (the comments of           *)
(* inc/SpaE/loop.h), with no semaphore, mutex or queue in sight: every     *)
(* function handed over runs once, in the one thread of its loop, the      *)
(* functions of one priority in the order they were handed over, and among *)
(* the low priorities the smaller number first.  A running function may    *)
(* process the queue itself, so the running functions of a loop nest.      *)
(*                                                                         *)
(* A function of priority 0 may be overtaken by a low one: the loop looks  *)
(* at the two queues one after the other.                                  *)
(***************************************************************************)
EXTENDS Naturals, Sequences

CONSTANTS Loops, Works, Priorities

VARIABLES
  queue,    \* the functions that wait, for each loop and priority
  running,  \* the functions a loop is executing, the innermost last
  done      \* the functions that have returned

execVars == <<queue, running, done>>

InSeq(w, s) == \E i \in DOMAIN s : s[i] = w

Fresh(w) ==
  /\ w \notin done
  /\ \A l \in Loops : /\ ~InSeq(w, running[l])
                      /\ \A p \in Priorities : ~InSeq(w, queue[l][p])

Init ==
  /\ queue = [l \in Loops |-> [p \in Priorities |-> <<>>]]
  /\ running = [l \in Loops |-> <<>>]
  /\ done = {}

Submit(l, w, p) ==
  /\ Fresh(w)
  /\ queue' = [queue EXCEPT ![l][p] = Append(@, w)]
  /\ UNCHANGED <<running, done>>

Start(l, p) ==
  /\ queue[l][p] # <<>>
  /\ \A q \in Priorities : 0 < q /\ q < p => queue[l][q] = <<>>
  /\ running' = [running EXCEPT ![l] = Append(@, Head(queue[l][p]))]
  /\ queue' = [queue EXCEPT ![l][p] = Tail(@)]
  /\ UNCHANGED done

(* workSync in the loop's own thread.                                      *)
RunNow(l, w) ==
  /\ Fresh(w)
  /\ running' = [running EXCEPT ![l] = Append(@, w)]
  /\ UNCHANGED <<queue, done>>

Finish(l) ==
  LET k == Len(running[l]) IN
  /\ k > 0
  /\ running' = [running EXCEPT ![l] = SubSeq(@, 1, k - 1)]
  /\ done' = done \cup {running[l][k]}
  /\ UNCHANGED queue

Next ==
  \E l \in Loops :
    \/ Finish(l)
    \/ \E p \in Priorities : Start(l, p)
    \/ \E w \in Works : RunNow(l, w) \/ \E p \in Priorities : Submit(l, w, p)

Spec == Init /\ [][Next]_execVars
=============================================================================
