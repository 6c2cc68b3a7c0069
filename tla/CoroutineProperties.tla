------------------------- MODULE CoroutineProperties ------------------------
(***************************************************************************)
(* What the coroutines must satisfy.                                       *)
(***************************************************************************)
EXTENDS Coroutine

(* The values of the variables have their types (coroutine.h, loop.cc).    *)
TypeOK ==
  /\ queue \in [Coroutines -> Seq([do : Functions, ctx : Contexts \cup {Nil},
                                   who : Contexts \cup {Watch, Nil}])]
  /\ at \in [Coroutines -> Labels]
  /\ ready \in [Coroutines -> Seq(Contexts)]
  /\ members \in [Coroutines -> SUBSET Contexts]
  /\ current \in [Coroutines -> Contexts \cup {Nil}]
  /\ terminate \subseteq Coroutines
  /\ threadId \in [Coroutines -> Ids \cup {Nil}]
  /\ coMap \in [Ids -> Coroutines \cup {Nil}]
  /\ loopMap \in [Ids -> Coroutines \cup {Nil}]
  /\ home \in [Contexts -> Coroutines \cup {Nil}]
  /\ pc \in [Callers -> CallerLabels]
  /\ begun \subseteq Contexts /\ dead \subseteq begun /\ running \subseteq Contexts
  /\ waiters \in [Contexts -> SUBSET (Contexts \cup {Watch})]
  /\ todo \in [Contexts -> SUBSET (Contexts \cup {Watch})]
  /\ target \in [Callers -> Contexts \cup Coroutines \cup {Nil}]
  /\ timers \in [Contexts -> Nat] /\ told \in Seq(Contexts)
  /\ calls \in 0..MaxCalls /\ fault \in Faults
-----------------------------------------------------------------------------
(* What the calls of an instance say of a context.                         *)

ResumedByUsers(x) == \E u \in Callers : <<u, "resume", x>> \in Calls

(* The end of a context somebody of the same coroutine joins yields too.   *)
Yields(x) ==
  \/ \E call \in Calls : call[1] = x /\ call[2] \in {"yield", "resume"}
  \/ \E j \in waiters[x] \ {Watch} : home[j] = home[x]

(* How often x waits for its turn, or has it.                              *)
Turns(x) ==
  LET c == home[x] IN
    Cardinality({i \in DOMAIN ready[c] : ready[c][i] = x})
  + Cardinality({i \in DOMAIN queue[c] : queue[c][i].do = "ready" /\ queue[c][i].ctx = x})
  + IF Executes(x) THEN 1 ELSE 0

(* A coroutine somebody is deleting, or that can do nothing more.          *)
Stopped(c) == c \in terminate \/ \E t \in Threads : target[t] = c
-----------------------------------------------------------------------------
(* Safety.                                                                 *)

(* A context that nobody resumes, or that never yields, waits for its turn *)
(* at most once, and a context that is done not at all: run would jump     *)
(* into a stack that has ended (coroutine.cc:250, :300, :431).  One that   *)
(* both yields and is resumed can be ready twice: yield leaves running     *)
(* false.                                                                  *)
OneTurn ==
  \A x \in Contexts :
    home[x] # Nil /\ fault = "none" /\ ~ (ResumedByUsers(x) /\ Yields(x))
      => Turns(x) <= IF pc[x] = "done" THEN 0 ELSE 1

(* A coroutine's thread is known as its own in g_coPoolMap, and no         *)
(* function and no context of it runs in a thread that g_loopPoolMap       *)
(* takes for another loop's, as getCurrentLoop says (coroutine.cc:152,     *)
(* loop.cc:60, :64).  Before that run may find the entry of a deleted loop *)
(* whose thread had the same id: ~Loop erases none, and process throws.    *)
OwnTables ==
  \A c \in Coroutines :
    /\ at[c] \in {"top", "wait", "drain", "poll", "context"} => coMap[threadId[c]] = c
    /\ at[c] \in {"wait", "drain", "poll", "context"} => loopMap[threadId[c]] = c

(* A join returns only when the context is at its end: a thread never      *)
(* earlier, a context unless a user resumes it (coroutine.cc:203).         *)
JoinMeansEnd ==
  [][\A u \in Callers :
       (/\ target[u] \in Contexts /\ target'[u] # target[u]
        /\ pc[u] \in {"user", "test", "wait", "asleep"} /\ ~ ResumedByUsers(u))
       => target[u] \in dead]_vars
-----------------------------------------------------------------------------
(* Liveness, under FairSpec.                                               *)

(* A context handed to a coroutine that is not deleted begins.             *)
HandedBegins ==
  \A x \in Contexts :
    home[x] # Nil ~> x \in begun \/ Stopped(home[x]) \/ fault # "none"

(* A resume that meets its context in pending gives it its turn            *)
(* (coroutine.cc:238).                                                     *)
ResumeWakes ==
  \A x \in Contexts :
    (/\ x \in begun \ dead /\ Turns(x) = 0
     /\ \E i \in DOMAIN queue[home[x]] :
          queue[home[x]][i].do = "resume" /\ queue[home[x]][i].ctx = x)
    ~> Executes(x) \/ Stopped(home[x]) \/ fault # "none"

(* The join of a context that was connected when its target ended returns, *)
(* whatever the ended context's emission has still to do and whoever else  *)
(* joins (coroutine.cc:227).                                               *)
ConnectedJoinReturns ==
  \A x, j \in Contexts :
    j \in todo[x] ~>
      target[j] # x \/ Stopped(home[j]) \/ Stopped(home[x]) \/ fault # "none"

(* Every join of a context that ends returns, as test/testCoroutine.cc     *)
(* expects: violated, as a thread may miss the notification and a          *)
(* connection may be made after the emission.                              *)
JoinReturns ==
  \A u \in Callers, x \in Contexts :
    target[u] = x /\ x \in dead ~>
      target[u] # x \/ Stopped(home[x]) \/ fault # "none"

(* deleteLater ends run, and the loop empties its queue, from whatever     *)
(* place the thread is at: waitProcess in run needs the last post          *)
(* (coroutine.cc:367).  Not when run or the caller meets a fault: its loop *)
(* is the receiver of a connection or of a timer that is not over          *)
(* ("deadlock"), the caller uses the coroutine run has deleted, or the     *)
(* loop runs a function about it ("freed").                                *)
DeletedEnds ==
  \A c \in Coroutines :
    c \in terminate ~> at[c] \in {"ending", "gone"} \/ fault # "none"
=============================================================================
