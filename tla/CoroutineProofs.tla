--------------------------- MODULE CoroutineProofs --------------------------
(***************************************************************************)
(* Proofs about the coroutines, for any coroutines, contexts, threads,     *)
(* thread ids and calls: types (CoroutineTypeCorrect), that a thread finds *)
(* itself in the tables by thread id (ThreadsOwnTables), that a context    *)
(* has one turn at most (ContextsTakeOneTurn), and that a join returns     *)
(* only at the end of what it joins (JoinsMeanEnd).                        *)
(*                                                                         *)
(* The last two rest on TurnInv.  A context that nobody resumes is at one  *)
(* place (OneWake): it executes, or is ready, or one function leads to its *)
(* turn, or its timer does, or one emission, or it joins a context that    *)
(* has not ended.  A context that never yields may be resumed at any time, *)
(* and is guarded by running (OneRun).  Each step is about one context at  *)
(* most (Goes) and leaves the others where they are (Unmoved).             *)
(***************************************************************************)
EXTENDS CoroutineProperties, TLAPS, SequenceTheorems, FiniteSetTheorems

(* The functions the code posts, the pool's included (PoolProofs): a       *)
(* registration names the context that joins or the pool's connection, a   *)
(* null function and one of the pool nothing.                              *)
Posted ==
  [do : {"start", "ready", "resume", "slot", "timeout"}, ctx : Contexts, who : {Nil}]
    \cup [do : {"register"}, ctx : Contexts, who : Contexts \cup {Watch}]
    \cup [do : {"null", "unload"}, ctx : {Nil}, who : {Nil}]

QueueType == queue \in [Coroutines -> Seq(Posted)]

(* What the types do not say of where coroutines, contexts and threads are.*)
AtWork ==
  /\ \A c \in Coroutines : at[c] = "poll" => ready[c] # <<>>
  /\ \A c \in Coroutines : current[c] # Nil => current[c] \in begun
  /\ \A t \in Threads :
       /\ pc[t] \in {"terminate", "run", "post"} => target[t] \in Coroutines
       /\ pc[t] = "user" => target[t] = Nil
  /\ \A x \in Contexts :
       /\ x \in dead <=> pc[x] \in {"emit", "emitYield", "done"}
       /\ Executes(x) => target[x] = Nil
       /\ target[x] # Nil => home[x] # Nil

TypeInv == TypeOK /\ QueueType /\ AtWork
-----------------------------------------------------------------------------
(* The functions posted, and the queues.                                   *)

LEMMA PostedOf ==
  /\ \A x \in Contexts, do \in {"start", "ready", "resume", "slot", "timeout"} :
       Function(do, x, Nil) \in Posted
  /\ \A x \in Contexts, y \in Contexts \cup {Watch} : Function("register", x, y) \in Posted
  /\ Function("null", Nil, Nil) \in Posted /\ Function("unload", Nil, Nil) \in Posted
BY DEF Posted, Function

LEMMA PostedIs ==
  ASSUME NEW f \in Posted
  PROVE  /\ f \in [do : Functions, ctx : Contexts \cup {Nil}, who : Contexts \cup {Watch, Nil}]
         /\ f.do \in {"start", "ready", "resume", "slot", "timeout", "register", "null", "unload"}
         /\ f.do \notin {"null", "unload"} => f.ctx \in Contexts
         /\ f.do = "register" => f.who \in Contexts \cup {Watch}
         /\ f = Function(f.do, f.ctx, f.who)
BY DEF Posted, Functions, Function

LEMMA PostType ==
  ASSUME QueueType, NEW c, NEW f \in Posted, Post(c, f)
  PROVE  QueueType'
<1>1. queue' = [queue EXCEPT ![c] = Append(queue[c], f)]
  BY DEF Post
<1>2. c \in Coroutines => Append(queue[c], f) \in Seq(Posted)
  BY AppendProperties DEF QueueType
<1> QED BY <1>1, <1>2 DEF QueueType

LEMMA QueueIs ==
  ASSUME QueueType, NEW c \in Coroutines
  PROVE  /\ queue[c] \in Seq(Posted)
         /\ \A i \in DOMAIN queue[c] : queue[c][i] \in Posted
         /\ queue[c] # <<>> => /\ Head(queue[c]) \in Posted
                               /\ Tail(queue[c]) \in Seq(Posted)
<1>1. queue[c] \in Seq(Posted)
  BY DEF QueueType
<1>2. \A i \in DOMAIN queue[c] : queue[c][i] \in Posted
  BY <1>1, LenProperties, ElementOfSeq
<1>3. queue[c] # <<>> => Head(queue[c]) \in Posted /\ Tail(queue[c]) \in Seq(Posted)
  BY <1>1, HeadTailProperties
<1> QED BY <1>1, <1>2, <1>3

LEMMA PostedSeq ==
  Seq(Posted) \subseteq Seq([do : Functions, ctx : Contexts \cup {Nil},
                             who : Contexts \cup {Watch, Nil}])
<1>1. Posted \subseteq [do : Functions, ctx : Contexts \cup {Nil},
                        who : Contexts \cup {Watch, Nil}]
  BY PostedIs
<1> QED BY <1>1, SeqMonotonic

LEMMA QueueGives ==
  ASSUME queue' \in [Coroutines -> Seq(Posted)]
  PROVE  queue' \in [Coroutines -> Seq([do : Functions, ctx : Contexts \cup {Nil},
                                        who : Contexts \cup {Watch, Nil}])]
BY PostedSeq

LEMMA Different ==
  /\ \A x \in Contexts : x \notin Threads /\ x # Nil
  /\ Nil \notin Coroutines /\ Nil \notin Ids
BY CoroutineAssumption DEF Callers

LEMMA ExecutesIs ==
  ASSUME TypeOK, NEW x \in Contexts, Executes(x)
  PROVE  /\ home[x] \in Coroutines /\ at[home[x]] = "context"
         /\ current[home[x]] = x
BY DEF TypeOK, Executes

LEMMA SwitchBackType ==
  ASSUME TypeOK, NEW x \in Contexts, Executes(x), SwitchBack(home[x])
  PROVE  /\ at' \in [Coroutines -> Labels]
         /\ ready' = ready /\ terminate' = terminate
         /\ members' \in [Coroutines -> SUBSET Contexts]
         /\ current' \in [Coroutines -> Contexts \cup {Nil}]
         /\ running' = running \ {x}
         /\ \A c \in Coroutines : at'[c] = IF c = home[x] THEN "top" ELSE at[c]
         /\ \A c \in Coroutines : current'[c] = IF c = home[x] THEN Nil ELSE current[c]
<1>1. home[x] \in Coroutines /\ current[home[x]] = x
  BY ExecutesIs
<1>2. at' = [at EXCEPT ![home[x]] = "top"] /\ current' = [current EXCEPT ![home[x]] = Nil]
  BY DEF SwitchBack, CoGoto
<1>3. members' = [members EXCEPT ![home[x]] = @ \ (dead \cap {x})]
  BY <1>1 DEF SwitchBack
<1>4. ready' = ready /\ terminate' = terminate /\ running' = running \ {x}
  BY <1>1 DEF SwitchBack, StopsRunning
<1>5. at' \in [Coroutines -> Labels]
  BY <1>2 DEF TypeOK, Labels
<1>6. members' \in [Coroutines -> SUBSET Contexts]
  BY <1>3 DEF TypeOK
<1>7. current' \in [Coroutines -> Contexts \cup {Nil}]
  BY <1>2 DEF TypeOK
<1>8. /\ \A c \in Coroutines : at'[c] = IF c = home[x] THEN "top" ELSE at[c]
      /\ \A c \in Coroutines : current'[c] = IF c = home[x] THEN Nil ELSE current[c]
  BY <1>2 DEF TypeOK
<1> QED BY <1>4, <1>5, <1>6, <1>7, <1>8

LEMMA MayIs ==
  ASSUME NEW u, NEW op, NEW arg, TypeOK, May(u, op, arg)
  PROVE  /\ pc[u] = "user" /\ (u \in Contexts => Executes(u))
         /\ <<u, op, arg>> \in Calls /\ calls' \in 0 .. MaxCalls
<1>1. calls \in 0 .. MaxCalls /\ MaxCalls \in Nat
  BY CoroutineAssumption DEF TypeOK
<1>2. calls < MaxCalls /\ calls' = calls + 1
  BY DEF May
<1>3. calls' \in 0 .. MaxCalls
  BY <1>1, <1>2
<1> QED BY <1>3 DEF May
-----------------------------------------------------------------------------
(* TypeOK, and AtWork.                                                     *)

LEMMA TypeInit == ASSUME Init PROVE TypeInv
<1>1. queue \in [Coroutines -> Seq(Posted)]
  BY DEF Init
<1>2. QueueType
  BY <1>1 DEF QueueType
<1>3. /\ at \in [Coroutines -> Labels] /\ pc \in [Callers -> CallerLabels]
      /\ fault \in Faults
  BY DEF Init, Labels, CallerLabels, Faults
<1>4. /\ members \in [Coroutines -> SUBSET Contexts]
      /\ waiters \in [Contexts -> SUBSET (Contexts \cup {Watch})]
      /\ todo \in [Contexts -> SUBSET (Contexts \cup {Watch})]
  BY DEF Init
<1>5. ready \in [Coroutines -> Seq(Contexts)] /\ told \in Seq(Contexts)
  BY DEF Init
<1>6. calls \in 0 .. MaxCalls
  BY CoroutineAssumption DEF Init
<1>7. TypeOK
  BY <1>1, <1>3, <1>4, <1>5, <1>6, PostedSeq DEF Init, TypeOK
<1>8. AtWork
  BY Different DEF Init, AtWork, Executes, Callers
<1> QED BY <1>2, <1>7, <1>8 DEF TypeInv

LEMMA CreateType ==
  ASSUME TypeInv, NEW c \in Coroutines, NEW i \in FreeIds, Create({c}, [d \in {c} |-> i]),
         UNCHANGED <<home, pc, begun, dead, running, joinVars, timers, told, fault>>,
         calls' \in 0 .. MaxCalls
  PROVE  TypeInv'
<1> USE DEF TypeInv
<1>1. i \in Ids
  BY DEF FreeIds
<1>2. /\ at' = [d \in Coroutines |-> IF d = c THEN "top" ELSE at[d]]
      /\ threadId' = [d \in Coroutines |-> IF d = c THEN i ELSE threadId[d]]
      /\ UNCHANGED <<queue, ready, members, current, terminate>>
  BY DEF Create
<1>3. coMap' \in [Ids -> Coroutines \cup {Nil}] /\ loopMap' \in [Ids -> Coroutines \cup {Nil}]
  BY DEF Create, TypeOK
<1>4. at' \in [Coroutines -> Labels] /\ threadId' \in [Coroutines -> Ids \cup {Nil}]
  BY <1>1, <1>2 DEF TypeOK, Labels
<1>5. TypeOK' /\ QueueType'
  BY <1>2, <1>3, <1>4 DEF TypeOK, QueueType, joinVars
<1>6. AtWork'
  <2>1. \A x \in Contexts : Executes(x)' => Executes(x)
    BY <1>2 DEF Executes, TypeOK
  <2>2. UNCHANGED <<pc, begun, dead, home, target, ready, current>>
    BY <1>2 DEF joinVars
  <2>3. \A d \in Coroutines : at'[d] = "poll" => at[d] = "poll"
    BY <1>2
  <2> QED BY <2>1, <2>2, <2>3 DEF AtWork
<1> QED BY <1>5, <1>6

LEMMA NewInstanceType ==
  ASSUME TypeInv, NEW t \in Threads, NEW c \in Coroutines, NewInstance(t, c)
  PROVE  TypeInv'
<1>1. calls' \in 0 .. MaxCalls
  BY MayIs DEF NewInstance, TypeInv
<1> QED BY <1>1, CreateType DEF NewInstance

LEMMA TopType ==
  ASSUME TypeInv, NEW c \in Coroutines, Top(c) PROVE TypeInv'
<1> USE DEF TypeInv
<1>1. at' \in [Coroutines -> Labels] /\ fault' \in Faults
  BY DEF Top, CoGoto, NextStep, TypeOK, Labels, Faults
<1>2. TypeOK' /\ QueueType'
  BY <1>1 DEF Top, TypeOK, QueueType, idVars, joinVars
<1>3. \A d \in Coroutines : at'[d] = "poll" => at[d] = "poll" \/ ready[d] # <<>>
  BY DEF Top, CoGoto, NextStep, TypeOK
<1>4. \A x \in Contexts : Executes(x)' => Executes(x)
  BY DEF Executes, Top, CoGoto, NextStep, TypeOK
<1>5. AtWork'
  BY <1>3, <1>4 DEF AtWork, Top, joinVars
<1> QED BY <1>2, <1>5

LEMMA DeleteType ==
  ASSUME TypeInv, NEW c \in Coroutines, Delete(c) PROVE TypeInv'
<1> USE DEF TypeInv
<1>1. /\ at' = [at EXCEPT ![c] = "loop"]
      /\ ready' = [ready EXCEPT ![c] = <<>>]
      /\ members' = [members EXCEPT ![c] = {}]
      /\ coMap' = [coMap EXCEPT ![threadId[c]] = Nil]
  BY DEF Delete, CoGoto, ForgetThread
<1>2. /\ at' \in [Coroutines -> Labels] /\ fault' \in Faults
      /\ ready' \in [Coroutines -> Seq(Contexts)]
      /\ members' \in [Coroutines -> SUBSET Contexts]
  BY <1>1 DEF Delete, TypeOK, Labels, Faults
<1>3. coMap' \in [Ids -> Coroutines \cup {Nil}]
  BY <1>1 DEF TypeOK
<1>4. QueueType'
  BY PostType, PostedOf DEF Delete
<1>5. TypeOK'
  BY <1>2, <1>3, <1>4, QueueGives DEF Delete, TypeOK, joinVars, QueueType
<1>6. \A d \in Coroutines : at'[d] = "poll" => at[d] = "poll" /\ ready'[d] = ready[d]
  BY <1>1 DEF TypeOK
<1>7. \A x \in Contexts : Executes(x)' => Executes(x)
  BY <1>1 DEF Executes, Delete, TypeOK
<1>8. AtWork'
  BY <1>6, <1>7 DEF AtWork, Delete, joinVars
<1> QED BY <1>4, <1>5, <1>8

(* What a function that is run does to the state.                          *)
Resuming == {"slot", "timeout"}

Resumption(f) == Function("resume", f.ctx, Nil)

Readies(c, f) ==
  f.do \in {"start", "ready"} \/ (f.do = "resume" /\ Resumable(c, f.ctx))

Runs(c, f) ==
  /\ queue[c] \in Seq(Posted) /\ queue[c] # <<>> /\ f = Head(queue[c])
  /\ Tail(queue[c]) \in Seq(Posted)
  /\ \/ f.do \in Resuming /\ queue' = [queue EXCEPT ![c] = Append(Tail(queue[c]), Resumption(f))]
     \/ f.do # "slot" /\ queue' = [queue EXCEPT ![c] = Tail(queue[c])]
  /\ \/ Readies(c, f) /\ f.ctx \in Contexts /\ ready' = [ready EXCEPT ![c] = Append(ready[c], f.ctx)]
     \/ ~ Readies(c, f) /\ ready' = ready
  /\ \/ f.do = "start" /\ f.ctx \in Contexts /\ members' = [members EXCEPT ![c] = members[c] \cup {f.ctx}]
     \/ f.do # "start" /\ members' = members
  /\ \/ f.do = "resume" /\ Readies(c, f) /\ running' = running \cup {f.ctx}
     \/ ~ (f.do = "resume" /\ Readies(c, f)) /\ running' = running
  /\ \/ /\ f.do = "register" /\ f.ctx \in Contexts /\ f.who \in Contexts \cup {Watch}
        /\ waiters' = [waiters EXCEPT ![f.ctx] = waiters[f.ctx] \cup {f.who}]
     \/ f.do # "register" /\ waiters' = waiters

LEMMA RunIs ==
  ASSUME TypeInv, NEW c \in Coroutines, RunFunction(c)
  PROVE  \E f \in Posted : Runs(c, f)
<1> USE DEF TypeInv
<1>1. queue[c] # <<>>
  BY DEF RunFunction
<1>2. PICK f \in Posted : f = Head(queue[c])
  BY <1>1, QueueIs
<1>3. queue[c] \in Seq(Posted) /\ Tail(queue[c]) \in Seq(Posted)
  BY <1>1, QueueIs
<1>4. /\ f.do \notin {"null", "unload"} => f.ctx \in Contexts
      /\ f.do = "register" => f.who \in Contexts \cup {Watch}
  BY PostedIs
<1>5. \/ f.do \in Resuming /\ queue' = [queue EXCEPT ![c] = Append(Tail(queue[c]), Resumption(f))]
      \/ f.do # "slot" /\ queue' = [queue EXCEPT ![c] = Tail(queue[c])]
  <2>1. PICK fs \in Posts(f) : queue' = [queue EXCEPT ![c] = Tail(queue[c]) \o fs]
    BY <1>2 DEF RunFunction
  <2>2. \/ f.do \in Resuming /\ fs = <<Resumption(f)>>
        \/ f.do # "slot" /\ fs = <<>>
    BY <2>1 DEF Posts, Resuming, Resumption
  <2>3. CASE f.do \in Resuming /\ fs = <<Resumption(f)>>
    <3>1. Resumption(f) \in Posted
      BY <1>4, <2>3, PostedOf DEF Resuming, Resumption
    <3>2. Tail(queue[c]) \o <<Resumption(f)>> = Append(Tail(queue[c]), Resumption(f))
      BY <1>3, <3>1, AppendIsConcat
    <3> QED BY <2>1, <2>3, <3>2
  <2>4. CASE f.do # "slot" /\ fs = <<>>
    <3>1. Tail(queue[c]) \o <<>> = Tail(queue[c])
      BY <1>3, ConcatEmptySeq
    <3> QED BY <2>1, <2>4, <3>1
  <2> QED BY <2>2, <2>3, <2>4
<1>6. \/ Readies(c, f) /\ f.ctx \in Contexts /\ ready' = [ready EXCEPT ![c] = Append(ready[c], f.ctx)]
      \/ ~ Readies(c, f) /\ ready' = ready
  BY <1>2, <1>4 DEF RunFunction, Readies
<1>7. \/ f.do = "start" /\ f.ctx \in Contexts /\ members' = [members EXCEPT ![c] = members[c] \cup {f.ctx}]
      \/ f.do # "start" /\ members' = members
  BY <1>2, <1>4 DEF RunFunction
<1>8. \/ f.do = "resume" /\ Readies(c, f) /\ running' = running \cup {f.ctx}
      \/ ~ (f.do = "resume" /\ Readies(c, f)) /\ running' = running
  BY <1>2 DEF RunFunction, Readies
<1>9. \/ /\ f.do = "register" /\ f.ctx \in Contexts /\ f.who \in Contexts \cup {Watch}
         /\ waiters' = [waiters EXCEPT ![f.ctx] = waiters[f.ctx] \cup {f.who}]
      \/ f.do # "register" /\ waiters' = waiters
  BY <1>2, <1>4 DEF RunFunction
<1> QED BY <1>1, <1>2, <1>3, <1>5, <1>6, <1>7, <1>8, <1>9 DEF Runs

LEMMA RunType ==
  ASSUME TypeInv, NEW c \in Coroutines, RunFunction(c) PROVE TypeInv'
<1> USE DEF TypeInv
<1>1. PICK f \in Posted : Runs(c, f)
  BY RunIs
<1>2. QueueType'
  <2>1. f.do \in Resuming => Append(Tail(queue[c]), Resumption(f)) \in Seq(Posted)
    <3>1. f.do \in Resuming => Resumption(f) \in Posted
      BY PostedIs, PostedOf DEF Resuming, Resumption
    <3> QED BY <1>1, <3>1, AppendProperties DEF Runs
  <2> QED BY <1>1, <2>1 DEF QueueType, Runs
<1>3. at' \in [Coroutines -> Labels] /\ fault' \in Faults
  BY DEF RunFunction, CoGoto, TypeOK, Labels, Faults
<1>4. ready' \in [Coroutines -> Seq(Contexts)] /\ \A d \in Coroutines : ready[d] # <<>> => ready'[d] # <<>>
  <2>1. ready[c] \in Seq(Contexts)
    BY DEF TypeOK
  <2>2. f.ctx \in Contexts => Append(ready[c], f.ctx) \in Seq(Contexts) /\ Append(ready[c], f.ctx) # <<>>
    BY <2>1, AppendProperties
  <2> QED BY <1>1, <2>2 DEF TypeOK, Runs
<1>5. members' \in [Coroutines -> SUBSET Contexts]
  <2>1. CASE f.do = "start"
    <3>1. f.ctx \in Contexts /\ members' = [members EXCEPT ![c] = members[c] \cup {f.ctx}]
      BY <1>1, <2>1 DEF Runs
    <3> QED BY <3>1 DEF TypeOK
  <2>2. CASE f.do # "start"
    BY <1>1, <2>2 DEF TypeOK, Runs
  <2> QED BY <2>1, <2>2
<1>6. running' \subseteq Contexts
  <2>1. f.do = "resume" => f.ctx \in Contexts
    BY PostedIs
  <2> QED BY <1>1, <2>1 DEF TypeOK, Runs
<1>7. waiters' \in [Contexts -> SUBSET (Contexts \cup {Watch})]
  <2>1. CASE f.do = "register"
    <3>1. /\ f.ctx \in Contexts /\ f.who \in Contexts \cup {Watch}
          /\ waiters' = [waiters EXCEPT ![f.ctx] = waiters[f.ctx] \cup {f.who}]
      BY <1>1, <2>1 DEF Runs
    <3> QED BY <3>1 DEF TypeOK
  <2>2. CASE f.do # "register"
    BY <1>1, <2>2 DEF TypeOK, Runs
  <2> QED BY <2>1, <2>2
<1>8. UNCHANGED <<current, terminate, idVars, home, pc, begun, dead, todo,
                  target, timers, told, calls>>
  BY DEF RunFunction
<1>9. TypeOK'
  BY <1>2, <1>3, <1>4, <1>5, <1>6, <1>7, <1>8, QueueGives DEF TypeOK, idVars, QueueType
<1>10. \A d \in Coroutines : /\ at'[d] = "poll" => at[d] = "poll"
                             /\ at'[d] = "context" => at[d] = "context"
  BY DEF RunFunction, CoGoto, TypeOK
<1>11. \A x \in Contexts : Executes(x)' => Executes(x)
  BY <1>8, <1>10 DEF Executes, TypeOK
<1>12. AtWork'
  BY <1>4, <1>8, <1>10, <1>11 DEF AtWork
<1> QED BY <1>2, <1>9, <1>12

LEMMA DrainedType ==
  ASSUME TypeInv, NEW c \in Coroutines, Drained(c) \/ EndThread(c) PROVE TypeInv'
<1> USE DEF TypeInv
<1>1. at' \in [Coroutines -> Labels]
  BY DEF Drained, EndThread, CoGoto, TypeOK, Labels
<1>2. UNCHANGED <<queue, ready, members, current, terminate, idVars, home, pc,
                  begun, dead, running, joinVars, timers, told, calls, fault>>
  BY DEF Drained, EndThread
<1>3. TypeOK' /\ QueueType'
  BY <1>1, <1>2 DEF TypeOK, QueueType, idVars, joinVars
<1>4. \A d \in Coroutines : at'[d] \in {"poll", "context"} => at'[d] = at[d]
  BY DEF Drained, EndThread, CoGoto, TypeOK
<1>5. \A x \in Contexts : Executes(x)' => Executes(x)
  BY <1>2, <1>4 DEF Executes, TypeOK
<1>6. AtWork'
  BY <1>2, <1>4, <1>5 DEF AtWork, joinVars
<1> QED BY <1>3, <1>6

Switches(c, x) ==
  /\ ready[c] \in Seq(Contexts) /\ ready[c] # <<>> /\ x = Head(ready[c])
  /\ Tail(ready[c]) \in Seq(Contexts)
  /\ ready' = [ready EXCEPT ![c] = Tail(ready[c])]
  /\ at' = [at EXCEPT ![c] = "context"]
  /\ current' = [current EXCEPT ![c] = x]
  /\ begun' = begun \cup {x}
  /\ pc' = IF x \in begun THEN pc ELSE [pc EXCEPT ![x] = "user"]
  /\ target' = [target EXCEPT ![x] = Nil]

LEMMA SwitchIs ==
  ASSUME TypeInv, NEW c \in Coroutines, Switch(c)
  PROVE  \E x \in Contexts : Switches(c, x)
<1> USE DEF TypeInv
<1>1. ready[c] # <<>> /\ ready[c] \in Seq(Contexts)
  BY DEF Switch, AtWork, TypeOK
<1>2. Head(ready[c]) \in Contexts /\ Tail(ready[c]) \in Seq(Contexts)
  BY <1>1, HeadTailProperties
<1> QED BY <1>1, <1>2 DEF Switch, CoGoto, Begins, Switches

LEMMA SwitchType ==
  ASSUME TypeInv, NEW c \in Coroutines, Switch(c) PROVE TypeInv'
<1> USE DEF TypeInv
<1>1. PICK x \in Contexts : Switches(c, x)
  BY SwitchIs
<1>2. UNCHANGED <<queue, members, terminate, idVars, home, dead, running,
                  waiters, todo, timers, told, calls>>
  BY DEF Switch
<1>3. ready' \in [Coroutines -> Seq(Contexts)] /\ at' \in [Coroutines -> Labels]
  BY <1>1 DEF Switches, TypeOK, Labels
<1>4. current' \in [Coroutines -> Contexts \cup {Nil}] /\ begun' \subseteq Contexts /\ dead' \subseteq begun'
  BY <1>1, <1>2 DEF Switches, TypeOK
<1>5. pc' \in [Callers -> CallerLabels] /\ target' \in [Callers -> Contexts \cup Coroutines \cup {Nil}]
  BY <1>1 DEF Switches, TypeOK, CallerLabels
<1>6. fault' \in Faults
  BY DEF Switch, TypeOK, Faults
<1>7. TypeOK' /\ QueueType'
  BY <1>2, <1>3, <1>4, <1>5, <1>6 DEF TypeOK, QueueType, idVars
<1>8. AtWork'
  <2>1. \A d \in Coroutines : at'[d] = "poll" => ready'[d] # <<>>
    BY <1>1 DEF Switches, AtWork, TypeOK
  <2>2. \A d \in Coroutines : current'[d] # Nil => current'[d] \in begun'
    BY <1>1 DEF Switches, AtWork, TypeOK
  <2>3. \A t \in Threads : pc'[t] = pc[t] /\ target'[t] = target[t]
    BY <1>1, Different DEF Switches, TypeOK, Callers
  <2>4. \A y \in Contexts : y \in dead' <=> pc'[y] \in {"emit", "emitYield", "done"}
    BY <1>1, <1>2 DEF Switches, AtWork, TypeOK, Callers
  <2>5. \A y \in Contexts : Executes(y)' => Executes(y) \/ y = x
    BY <1>1, <1>2 DEF Switches, Executes, TypeOK
  <2>6. \A y \in Contexts : target'[y] = IF y = x THEN Nil ELSE target[y]
    BY <1>1 DEF Switches, TypeOK, Callers
  <2>7. home' = home
    BY <1>2
  <2> QED BY <2>1, <2>2, <2>3, <2>4, <2>5, <2>6, <2>7 DEF AtWork
<1> QED BY <1>7, <1>8

LEMMA WorkType ==
  ASSUME TypeInv, NEW u \in Callers, NEW x \in Contexts, Work(u, x) PROVE TypeInv'
<1> USE DEF TypeInv
<1>1. PICK c \in Coroutines : May(u, "work", <<x, c>>) /\ Usable(c) /\ Hand(c, x)
  BY DEF Work
<1>2. QueueType'
  BY <1>1, PostType, PostedOf DEF Hand
<1>3. calls' \in 0 .. MaxCalls
  BY <1>1, MayIs
<1>4. home' \in [Contexts -> Coroutines \cup {Nil}] /\ running' \subseteq Contexts
  BY <1>1 DEF Hand, TypeOK
<1>5. UNCHANGED <<coVars, idVars, pc, begun, dead, joinVars, timers, told, fault>>
  BY DEF Work
<1>6. TypeOK'
  BY <1>2, <1>3, <1>4, <1>5, QueueGives DEF TypeOK, coVars, idVars, joinVars, QueueType
<1>7. AtWork'
  <2>1. home[x] = Nil /\ \A y \in Contexts : home'[y] = IF y = x THEN c ELSE home[y]
    BY <1>1 DEF Hand, TypeOK
  <2>2. \A y \in Contexts : Executes(y)' => Executes(y) \/ y = x
    BY <1>5, <2>1 DEF Executes, coVars
  <2>3. target[x] = Nil
    BY <2>1 DEF AtWork
  <2> QED BY <1>5, <2>1, <2>2, <2>3, Different DEF AtWork, coVars, joinVars
<1> QED BY <1>2, <1>6, <1>7

LEMMA ResumeType ==
  ASSUME TypeInv, NEW u \in Callers, NEW x \in Contexts, Resume(u, x) PROVE TypeInv'
<1> USE DEF TypeInv
<1>1. May(u, "resume", x)
  BY DEF Resume
<1>2. QueueType'
  BY PostType, PostedOf DEF Resume
<1>3. calls' \in 0 .. MaxCalls /\ pc[u] = "user" /\ (u \in Contexts => Executes(u))
  BY <1>1, MayIs
<1>4. pc' \in [Callers -> CallerLabels]
  BY DEF Resume, TypeOK, CallerLabels
<1>5. UNCHANGED <<coVars, idVars, home, begun, dead, running, joinVars, timers,
                  told, fault>>
  BY DEF Resume
<1>6. TypeOK'
  BY <1>2, <1>3, <1>4, <1>5, QueueGives DEF TypeOK, coVars, idVars, joinVars, QueueType
<1>7. \A y \in Contexts : Executes(y)' <=> Executes(y)
  BY <1>5 DEF Executes, coVars
<1>8. \A v \in Callers : pc'[v] = pc[v] \/ (v \in Contexts /\ pc[v] = "user" /\ pc'[v] = "yield")
  BY <1>3 DEF Resume, TypeOK
<1>9. AtWork'
  BY <1>5, <1>7, <1>8, Different DEF AtWork, coVars, joinVars, Callers
<1> QED BY <1>2, <1>6, <1>9

LEMMA SwitchBackAtWork ==
  ASSUME TypeInv, NEW x \in Contexts, Executes(x), SwitchBack(home[x]),
         home' = home, begun' = begun
  PROVE  /\ \A c \in Coroutines : at'[c] = "poll" => ready'[c] # <<>>
         /\ \A c \in Coroutines : current'[c] # Nil => current'[c] \in begun'
         /\ \A y \in Contexts : Executes(y)' <=> Executes(y) /\ y # x
<1> USE DEF TypeInv
<1>1. /\ ready' = ready
      /\ \A c \in Coroutines : at'[c] = IF c = home[x] THEN "top" ELSE at[c]
      /\ \A c \in Coroutines : current'[c] = IF c = home[x] THEN Nil ELSE current[c]
  BY SwitchBackType
<1>2. \A y \in Contexts : home[y] # Nil => home[y] \in Coroutines
  BY DEF TypeOK
<1>3. home[x] \in Coroutines /\ current[home[x]] = x
  BY ExecutesIs
<1>4. \A y \in Contexts : Executes(y)' <=> Executes(y) /\ y # x
  BY <1>1, <1>2, <1>3 DEF Executes
<1>5. \A c \in Coroutines : at'[c] = "poll" => ready'[c] # <<>>
  BY <1>1 DEF AtWork
<1>6. \A c \in Coroutines : current'[c] # Nil => current'[c] \in begun'
  BY <1>1 DEF AtWork
<1> QED BY <1>4, <1>5, <1>6

LEMMA YieldType ==
  ASSUME TypeInv, NEW x \in Contexts, Yield(x) \/ EmitYield(x) PROVE TypeInv'
<1> USE DEF TypeInv
<1>1. Executes(x) /\ YieldBody(x)
  BY MayIs DEF Yield, EmitYield
<1>2. QueueType'
  BY <1>1, PostType, PostedOf DEF YieldBody
<1>3. SwitchBack(home[x])
  BY <1>1 DEF YieldBody
<1>4. /\ at' \in [Coroutines -> Labels]
      /\ ready' = ready /\ terminate' = terminate
      /\ members' \in [Coroutines -> SUBSET Contexts]
      /\ current' \in [Coroutines -> Contexts \cup {Nil}]
      /\ running' = running \ {x}
  BY <1>1, <1>3, SwitchBackType
<1>5. UNCHANGED <<idVars, home, begun, dead, joinVars, timers, told, fault>>
  BY DEF Yield, EmitYield
<1>6. calls' \in 0 .. MaxCalls
  BY MayIs DEF Yield, EmitYield, TypeOK
<1>7. /\ pc' \in [Callers -> CallerLabels]
      /\ \A v \in Callers : \/ pc'[v] = pc[v]
                            \/ v = x /\ pc[v] = "yield" /\ pc'[v] = "user"
                            \/ v = x /\ pc[v] = "emitYield" /\ pc'[v] = "emit"
  BY DEF Yield, EmitYield, Goto, TypeOK, CallerLabels
<1>8. TypeOK'
  BY <1>2, <1>4, <1>5, <1>6, <1>7, QueueGives DEF TypeOK, idVars, joinVars, QueueType
<1>9. AtWork'
  BY <1>1, <1>3, <1>5, <1>7, SwitchBackAtWork, Different DEF AtWork, joinVars, Callers
<1> QED BY <1>2, <1>8, <1>9

LEMMA PendingType ==
  ASSUME TypeInv, NEW x \in Contexts, Pending(x) PROVE TypeInv'
<1> USE DEF TypeInv
<1>1. Executes(x) /\ SwitchBack(home[x])
  BY MayIs DEF Pending
<1>2. /\ at' \in [Coroutines -> Labels]
      /\ ready' = ready /\ terminate' = terminate
      /\ members' \in [Coroutines -> SUBSET Contexts]
      /\ current' \in [Coroutines -> Contexts \cup {Nil}]
      /\ running' = running \ {x}
  BY <1>1, SwitchBackType
<1>3. UNCHANGED <<queue, idVars, home, pc, begun, dead, joinVars, told, fault>>
  BY DEF Pending
<1>4. calls' \in 0 .. MaxCalls /\ timers' \in [Contexts -> Nat]
  <2>1. timers' = timers \/ timers' = [timers EXCEPT ![x] = timers[x] + 1]
    BY DEF Pending
  <2>2. timers \in [Contexts -> Nat]
    BY DEF TypeOK
  <2>3. timers' \in [Contexts -> Nat]
    BY <2>1, <2>2
  <2>4. calls' \in 0 .. MaxCalls
    BY MayIs DEF Pending
  <2> QED BY <2>3, <2>4
<1>5. TypeOK' /\ QueueType'
  BY <1>2, <1>3, <1>4 DEF TypeOK, idVars, joinVars, QueueType
<1>6. AtWork'
  BY <1>1, <1>3, SwitchBackAtWork, Different DEF AtWork, joinVars
<1> QED BY <1>5, <1>6

LEMMA FiresType ==
  ASSUME TypeInv, NEW x \in Contexts, TimerFires(x) PROVE TypeInv'
<1> USE DEF TypeInv
<1>1. QueueType'
  BY PostType, PostedOf DEF TimerFires
<1>2. UNCHANGED <<coVars, idVars, home, pc, begun, dead, running, joinVars,
                  told, calls, fault>>
  BY DEF TimerFires
<1>3. timers' \in [Contexts -> Nat]
  BY DEF TimerFires, TypeOK
<1>4. TypeOK'
  BY <1>1, <1>2, <1>3, QueueGives DEF TypeOK, coVars, idVars, joinVars, QueueType
<1>5. \A y \in Contexts : Executes(y)' <=> Executes(y)
  BY <1>2 DEF Executes, coVars
<1>6. AtWork'
  BY <1>2, <1>5 DEF AtWork, coVars, joinVars
<1> QED BY <1>1, <1>4, <1>6

LEMMA JoinType ==
  ASSUME TypeInv, NEW x \in Contexts, NEW y \in Contexts, Join(x, y) PROVE TypeInv'
<1> USE DEF TypeInv
<1>1. Executes(x) /\ calls' \in 0 .. MaxCalls /\ home[y] # Nil
  BY MayIs DEF Join
<1>2. UNCHANGED <<idVars, home, pc, begun, dead, todo, timers, told, fault>>
  BY DEF Join
<1>3. CASE y \in dead
  <2>1. UNCHANGED <<queue, coVars, running, waiters, target>>
    BY <1>3 DEF Join
  <2>2. TypeOK' /\ QueueType'
    BY <1>1, <1>2, <2>1 DEF TypeOK, QueueType, coVars, idVars
  <2>3. \A z \in Contexts : Executes(z)' <=> Executes(z)
    BY <1>2, <2>1 DEF Executes, coVars
  <2>4. AtWork'
    BY <1>2, <2>1, <2>3 DEF AtWork, coVars
  <2> QED BY <2>2, <2>4
<1>4. CASE y \notin dead
  <2>1. SwitchBack(home[x]) /\ target' = [target EXCEPT ![x] = y]
    BY <1>4 DEF Join
  <2>2. /\ at' \in [Coroutines -> Labels]
        /\ ready' = ready /\ terminate' = terminate
        /\ members' \in [Coroutines -> SUBSET Contexts]
        /\ current' \in [Coroutines -> Contexts \cup {Nil}]
        /\ running' = running \ {x}
    BY <1>1, <2>1, SwitchBackType
  <2>3. \/ waiters' = [waiters EXCEPT ![y] = waiters[y] \cup {x}] /\ queue' = queue
        \/ waiters' = waiters /\ Post(home[y], Function("register", y, x))
    BY <1>4 DEF Join
  <2>4. QueueType'
    BY <2>3, PostType, PostedOf DEF QueueType
  <2>5. waiters' \in [Contexts -> SUBSET (Contexts \cup {Watch})]
    <3>1. waiters \in [Contexts -> SUBSET (Contexts \cup {Watch})]
      BY DEF TypeOK
    <3> QED BY <2>3, <3>1
  <2>6. target' \in [Callers -> Contexts \cup Coroutines \cup {Nil}]
    <3>1. target \in [Callers -> Contexts \cup Coroutines \cup {Nil}]
      BY DEF TypeOK
    <3> QED BY <2>1, <3>1
  <2>7. TypeOK'
    BY <1>1, <1>2, <2>2, <2>4, <2>5, <2>6, QueueGives DEF TypeOK, idVars, QueueType
  <2>8. home[x] # Nil /\ \A v \in Callers : v # x => target'[v] = target[v]
    BY <1>1, <2>1 DEF TypeOK, Executes
  <2>9. AtWork'
    BY <1>1, <1>2, <2>1, <2>8, SwitchBackAtWork, Different DEF AtWork, Callers
  <2> QED BY <2>4, <2>7, <2>9
<1> QED BY <1>3, <1>4

LEMMA CompleteType ==
  ASSUME TypeInv, NEW x \in Contexts, Complete(x) PROVE TypeInv'
<1> USE DEF TypeInv
<1>1. UNCHANGED <<queue, coVars, idVars, home, begun, running, waiters, target,
                  timers, told, calls>>
  BY DEF Complete
<1>2. x \in begun
  <2>1. current[home[x]] = x /\ home[x] \in Coroutines
    BY ExecutesIs DEF Complete
  <2> QED BY <2>1, Different DEF AtWork
<1>3. dead' = dead \cup {x}
  BY DEF Complete
<1>4. pc' = [u \in Callers |-> IF u = x THEN "emit"
                               ELSE IF pc[u] = "asleep" /\ target[u] = x THEN "test"
                               ELSE pc[u]]
  BY DEF Complete
<1>5. pc' \in [Callers -> CallerLabels]
  BY <1>4 DEF TypeOK, CallerLabels
<1>6. todo' \in [Contexts -> SUBSET (Contexts \cup {Watch})] /\ fault' \in Faults
  BY DEF Complete, TypeOK, Faults
<1>7. TypeOK' /\ QueueType'
  BY <1>1, <1>2, <1>3, <1>5, <1>6 DEF TypeOK, QueueType, coVars, idVars
<1>8. \A y \in Contexts : Executes(y)' <=> Executes(y)
  BY <1>1 DEF Executes, coVars
<1>9. \A u \in Callers : \/ pc'[u] = pc[u] /\ u # x
                         \/ u = x /\ pc'[u] = "emit"
                         \/ pc[u] = "asleep" /\ pc'[u] = "test" /\ u # x
  BY <1>4
<1>10. AtWork'
  BY <1>1, <1>3, <1>8, <1>9, Different DEF AtWork, coVars, Callers
<1> QED BY <1>7, <1>10

LEMMA SlotType ==
  ASSUME TypeInv, NEW x \in Contexts, Slot(x) PROVE TypeInv'
<1> USE DEF TypeInv
<1>1. PICK j \in todo[x] :
       /\ todo' = [todo EXCEPT ![x] = @ \ {j}]
       /\ \/ /\ j = Watch
             /\ told' = Append(told, x)
             /\ UNCHANGED <<queue, pc, coVars, running>>
          \/ /\ j # Watch /\ home[j] # home[x]
             /\ Post(SlotLoop(j, x), Function("slot", j, Nil))
             /\ UNCHANGED <<told, pc, coVars, running>>
          \/ /\ j # Watch /\ home[j] = home[x]
             /\ Post(home[j], Function("resume", j, Nil))
             /\ Goto(x, "emitYield")
             /\ UNCHANGED <<told, coVars, running>>
  BY DEF Slot
<1>2. UNCHANGED <<idVars, home, begun, dead, waiters, target, timers, calls, fault>>
  BY DEF Slot
<1>3. j # Watch => j \in Contexts
  BY DEF TypeOK
<1>4. QueueType'
  BY <1>1, <1>3, PostType, PostedOf DEF QueueType
<1>5. UNCHANGED <<coVars, running>>
  BY <1>1
<1>6. told' \in Seq(Contexts)
  <2>1. told \in Seq(Contexts) /\ Append(told, x) \in Seq(Contexts)
    BY AppendProperties DEF TypeOK
  <2> QED BY <1>1, <2>1
<1>7. todo' \in [Contexts -> SUBSET (Contexts \cup {Watch})]
  BY <1>1 DEF TypeOK
<1>8. /\ pc' \in [Callers -> CallerLabels]
      /\ \A v \in Callers : pc'[v] = pc[v] \/ (v = x /\ pc[v] = "emit" /\ pc'[v] = "emitYield")
  BY <1>1 DEF Slot, Goto, TypeOK, CallerLabels
<1>9. TypeOK'
  BY <1>2, <1>4, <1>5, <1>6, <1>7, <1>8, QueueGives DEF TypeOK, coVars, idVars, QueueType
<1>10. \A y \in Contexts : Executes(y)' <=> Executes(y)
  BY <1>2, <1>5 DEF Executes, coVars
<1>11. AtWork'
  BY <1>2, <1>5, <1>8, <1>10, Different DEF AtWork, coVars, Callers
<1> QED BY <1>4, <1>9, <1>11

LEMMA LeaveType ==
  ASSUME TypeInv, NEW x \in Contexts, Leave(x) PROVE TypeInv'
<1> USE DEF TypeInv
<1>1. Executes(x) /\ SwitchBack(home[x]) /\ pc[x] = "emit"
  BY DEF Leave
<1>2. /\ at' \in [Coroutines -> Labels]
      /\ ready' = ready /\ terminate' = terminate
      /\ members' \in [Coroutines -> SUBSET Contexts]
      /\ current' \in [Coroutines -> Contexts \cup {Nil}]
      /\ running' = running \ {x}
  BY <1>1, SwitchBackType
<1>3. UNCHANGED <<queue, idVars, home, begun, dead, joinVars, timers, told, calls, fault>>
  BY DEF Leave
<1>4. /\ pc' \in [Callers -> CallerLabels]
      /\ \A v \in Callers : pc'[v] = pc[v] \/ (v = x /\ pc'[v] = "done")
  BY DEF Leave, Goto, TypeOK, CallerLabels
<1>5. TypeOK' /\ QueueType'
  BY <1>2, <1>3, <1>4 DEF TypeOK, idVars, joinVars, QueueType
<1>6. AtWork'
  BY <1>1, <1>3, <1>4, SwitchBackAtWork, Different DEF AtWork, joinVars, Callers
<1> QED BY <1>5, <1>6

LEMMA ThreadType ==
  ASSUME TypeInv, NEW t \in Threads,
         ThreadStep(t) \/ (\E x \in Contexts : ThreadJoin(t, x))
           \/ (\E c \in Coroutines : DeleteLater(t, c))
  PROVE  TypeInv'
<1> USE DEF TypeInv
<1>1. /\ UNCHANGED <<at, ready, members, current, idVars, home, begun, dead,
                     running, waiters, todo, timers, told>>
      /\ QueueType' /\ calls' \in 0 .. MaxCalls
      /\ fault' \in Faults /\ terminate' \subseteq Coroutines
      /\ pc' \in [Callers -> CallerLabels]
      /\ target' \in [Callers -> Contexts \cup Coroutines \cup {Nil}]
      /\ \A v \in Callers : v # t => pc'[v] = pc[v] /\ target'[v] = target[v]
      /\ pc'[t] \in {"terminate", "run", "post"} => target'[t] \in Coroutines
      /\ pc'[t] = "user" => target'[t] = Nil
  <2>1. CASE ThreadWaits(t)
    <3>1. /\ pc' \in [Callers -> CallerLabels]
          /\ target' \in [Callers -> Contexts \cup Coroutines \cup {Nil}]
      BY <2>1 DEF ThreadWaits, Goto, TypeOK, CallerLabels
    <3>2. /\ \A v \in Callers : v # t => pc'[v] = pc[v] /\ target'[v] = target[v]
          /\ pc'[t] \in {"user", "wait", "asleep"}
          /\ pc'[t] = "user" => target'[t] = Nil
      BY <2>1 DEF ThreadWaits, Goto, TypeOK, Callers
    <3> QED BY <2>1, <3>1, <3>2 DEF ThreadWaits, TypeOK, QueueType, coVars
  <2>2. CASE Terminate(t)
    <3>1. target[t] \in Coroutines
      BY <2>2 DEF Terminate, AtWork
    <3>2. /\ pc' \in [Callers -> CallerLabels] /\ target' = target
          /\ \A v \in Callers : v # t => pc'[v] = pc[v]
          /\ pc'[t] = "run"
      BY <2>2 DEF Terminate, Goto, TypeOK, CallerLabels, Callers, joinVars
    <3> QED BY <2>2, <3>1, <3>2 DEF Terminate, TypeOK, QueueType, joinVars
  <2>3. CASE UseLoop(t)
    <3>1. target[t] \in Coroutines
      BY <2>3 DEF UseLoop, AtWork
    <3>2. /\ pc' \in [Callers -> CallerLabels]
          /\ target' \in [Callers -> Contexts \cup Coroutines \cup {Nil}]
          /\ fault' \in Faults
      BY <2>3 DEF UseLoop, Goto, TypeOK, CallerLabels, Faults
    <3>3. /\ \A v \in Callers : v # t => pc'[v] = pc[v] /\ target'[v] = target[v]
          /\ \/ pc'[t] = "post" /\ target'[t] = target[t]
             \/ pc'[t] = "user" /\ target'[t] = Nil
      <4>1. CASE pc[t] = "run"
        BY <2>3, <4>1 DEF UseLoop, Goto, TypeOK, Callers
      <4>2. CASE pc[t] = "post"
        BY <2>3, <4>2 DEF UseLoop, Goto, TypeOK, Callers
      <4> QED BY <2>3, <4>1, <4>2 DEF UseLoop
    <3>4. QueueType'
      BY <2>3, PostType, PostedOf DEF UseLoop, QueueType
    <3> QED BY <2>3, <3>1, <3>2, <3>3, <3>4 DEF UseLoop, TypeOK, coVars
  <2>4. CASE \E x \in Contexts : ThreadJoin(t, x)
    <3>1. PICK x \in Contexts : ThreadJoin(t, x)
      BY <2>4
    <3>2. /\ pc' \in [Callers -> CallerLabels]
          /\ target' \in [Callers -> Contexts \cup Coroutines \cup {Nil}]
          /\ calls' \in 0 .. MaxCalls
      BY <3>1, MayIs DEF ThreadJoin, Goto, TypeOK, CallerLabels
    <3>3. /\ \A v \in Callers : v # t => pc'[v] = pc[v] /\ target'[v] = target[v]
          /\ pc'[t] = "test"
      BY <3>1 DEF ThreadJoin, Goto, TypeOK, Callers
    <3> QED BY <3>1, <3>2, <3>3 DEF ThreadJoin, TypeOK, QueueType, coVars
  <2>5. CASE \E c \in Coroutines : DeleteLater(t, c)
    <3>1. PICK c \in Coroutines : DeleteLater(t, c)
      BY <2>5
    <3>2. /\ pc' \in [Callers -> CallerLabels]
          /\ target' \in [Callers -> Contexts \cup Coroutines \cup {Nil}]
          /\ calls' \in 0 .. MaxCalls /\ fault' \in Faults
      BY <3>1, MayIs DEF DeleteLater, Goto, TypeOK, CallerLabels, Faults
    <3>3. /\ \A v \in Callers : v # t => pc'[v] = pc[v] /\ target'[v] = target[v]
          /\ pc'[t] = "terminate" /\ target'[t] = c
      BY <3>1 DEF DeleteLater, Goto, TypeOK, Callers
    <3>4. QueueType'
      BY <3>1, PostType, PostedOf DEF DeleteLater
    <3> QED BY <3>1, <3>2, <3>3, <3>4 DEF DeleteLater, TypeOK, coVars
  <2> QED BY <2>1, <2>2, <2>3, <2>4, <2>5 DEF ThreadStep
<1>2. TypeOK'
  BY <1>1, QueueGives DEF TypeOK, idVars, QueueType
<1>3. \A y \in Contexts : Executes(y)' <=> Executes(y)
  BY <1>1 DEF Executes
<1>4. AtWork'
  BY <1>1, <1>3, Different DEF AtWork, Callers
<1> QED BY <1>1, <1>2, <1>4

(* A step is one of these.                                                 *)
LEMMA StepCases ==
  ASSUME TypeInv, [Next]_vars
  PROVE  \/ \E t \in Threads, c \in Coroutines : NewInstance(t, c)
         \/ \E c \in Coroutines : Delete(c)
         \/ \E c \in Coroutines :
              Top(c) \/ RunFunction(c) \/ Drained(c) \/ Switch(c) \/ EndThread(c)
         \/ \E x \in Contexts :
              \/ Complete(x) \/ Slot(x) \/ EmitYield(x) \/ Leave(x) \/ Yield(x)
              \/ Pending(x) \/ TimerFires(x) \/ (\E y \in Contexts : Join(x, y))
         \/ \E t \in Threads :
              \/ ThreadStep(t) \/ (\E x \in Contexts : ThreadJoin(t, x))
              \/ (\E c \in Coroutines : DeleteLater(t, c))
         \/ \E u \in Callers, x \in Contexts : Work(u, x) \/ Resume(u, x)
         \/ UNCHANGED vars
<1>1. CASE \E c \in Coroutines : CoroutineStep(c) \/ EndThread(c)
  <2>1. PICK c \in Coroutines : CoroutineStep(c) \/ EndThread(c)
    BY <1>1
  <2>2. CASE current[c] # Nil /\ ContextStep(current[c])
    <3>1. current[c] \in Contexts
      BY <2>2 DEF TypeInv, TypeOK
    <3> QED BY <2>2, <3>1 DEF ContextStep
  <2> QED BY <2>1, <2>2 DEF CoroutineStep
<1>2. CASE \E x \in Contexts : ContextCall(x) \/ TimerFires(x)
  BY <1>2 DEF ContextCall, Callers
<1>3. CASE \E t \in Threads : ThreadCall(t) \/ ThreadStep(t)
  BY <1>3 DEF ThreadCall, Callers
<1> QED BY <1>1, <1>2, <1>3 DEF Next

LEMMA TypeStep == ASSUME TypeInv, [Next]_vars PROVE TypeInv'
<1>1. CASE UNCHANGED vars
  <2>1. TypeOK' /\ QueueType'
    BY <1>1 DEF TypeInv, TypeOK, QueueType, vars, coVars, idVars, joinVars
  <2>2. \A y \in Contexts : Executes(y)' <=> Executes(y)
    BY <1>1 DEF Executes, vars, coVars
  <2>3. AtWork'
    BY <1>1, <2>2 DEF TypeInv, AtWork, vars, coVars, joinVars
  <2> QED BY <2>1, <2>3 DEF TypeInv
<1> QED
  BY <1>1, StepCases, NewInstanceType, DeleteType, TopType, RunType, DrainedType, SwitchType,
     CompleteType, SlotType, YieldType, LeaveType, PendingType, FiresType, JoinType,
     ThreadType, WorkType, ResumeType

LEMMA TypeInvariant == Spec => []TypeInv
<1>1. Init => TypeInv BY TypeInit
<1>2. TypeInv /\ [Next]_vars => TypeInv' BY TypeStep
<1> QED BY <1>1, <1>2, PTL DEF Spec

(* The values of the variables of the coroutines have their types,         *)
(* whatever their number, the calls their users make and the ids of the    *)
(* threads (coroutine.h, loop.cc).                                         *)
THEOREM CoroutineTypeCorrect == Spec => []TypeOK
<1>1. TypeInv => TypeOK BY DEF TypeInv
<1> QED BY <1>1, TypeInvariant, PTL
-----------------------------------------------------------------------------
(* OwnTables: the threads of coroutines that have not ended have ids of    *)
(* their own, and the tables map an id to a coroutine that had it.         *)

Alive(c) == at[c] \in {"top", "wait", "drain", "poll", "context"}

Tables ==
  /\ \A c \in Coroutines :
       /\ at[c] # "none" => threadId[c] \in Ids
       /\ Alive(c) => loopMap[threadId[c]] # Nil
  /\ \A c, d \in Coroutines :
       /\ at[c] \notin {"none", "gone"} /\ at[d] \notin {"none", "gone"}
       /\ threadId[c] = threadId[d]
       => c = d
  /\ \A i \in Ids :
       /\ coMap[i] # Nil => threadId[coMap[i]] = i /\ Alive(coMap[i])
       /\ loopMap[i] # Nil => threadId[loopMap[i]] = i /\ at[loopMap[i]] # "none"
  /\ OwnTables

LEMMA TablesInit == ASSUME Init PROVE Tables
BY DEF Init, Tables, OwnTables, Alive

LEMMA TablesKept ==
  ASSUME TypeOK, Tables, UNCHANGED idVars,
         \A c \in Coroutines :
           \/ at'[c] = at[c]
           \/ /\ Alive(c) /\ Alive(c)'
              /\ at[c] = "top" => loopMap[threadId[c]] = c
           \/ at[c] \in {"loop", "ending"} /\ at'[c] \in {"ending", "gone"}
  PROVE  Tables'
<1>1. UNCHANGED <<threadId, coMap, loopMap>>
  BY DEF idVars
<1>2. \A c \in Coroutines :
         /\ at'[c] # "none" => threadId'[c] \in Ids
         /\ Alive(c)' => loopMap'[threadId'[c]] # Nil
  BY <1>1 DEF Tables, Alive
<1>3. \A c, d \in Coroutines :
         /\ at'[c] \notin {"none", "gone"} /\ at'[d] \notin {"none", "gone"}
         /\ threadId'[c] = threadId'[d]
         => c = d
  BY <1>1 DEF Tables, Alive
<1>4. \A i \in Ids : /\ coMap[i] # Nil => coMap[i] \in Coroutines
                     /\ loopMap[i] # Nil => loopMap[i] \in Coroutines
  BY DEF TypeOK
<1>5. \A i \in Ids :
         /\ coMap'[i] # Nil => threadId'[coMap'[i]] = i /\ Alive(coMap[i])'
         /\ loopMap'[i] # Nil => threadId'[loopMap'[i]] = i /\ at'[loopMap'[i]] # "none"
  BY <1>1, <1>4 DEF Tables, Alive
<1>6. OwnTables'
  <2>1. SUFFICES ASSUME NEW c \in Coroutines, Alive(c)'
                 PROVE  /\ coMap'[threadId'[c]] = c
                        /\ at'[c] # "top" => loopMap'[threadId'[c]] = c
    BY DEF OwnTables, Alive
  <2>2. Alive(c)
    BY <2>1 DEF Alive
  <2>3. coMap[threadId[c]] = c /\ (at[c] # "top" => loopMap[threadId[c]] = c)
    BY <2>2 DEF Tables, OwnTables, Alive
  <2>4. at'[c] = at[c] \/ (at[c] = "top" => loopMap[threadId[c]] = c)
    BY <2>1 DEF Alive
  <2> QED BY <1>1, <2>3, <2>4
<1> QED BY <1>2, <1>3, <1>5, <1>6 DEF Tables

LEMMA TablesNew ==
  ASSUME TypeInv, Tables, NEW t \in Threads, NEW c \in Coroutines, NewInstance(t, c)
  PROVE  Tables'
<1> USE DEF TypeInv
<1>1. PICK i \in FreeIds : Create({c}, [d \in {c} |-> i])
  BY DEF NewInstance
<1>2. i \in Ids /\ \A d \in Coroutines : at[d] # "gone" => threadId[d] # i
  BY <1>1 DEF FreeIds
<1>3. /\ at[c] = "none"
      /\ \A d \in Coroutines : at'[d] = IF d = c THEN "top" ELSE at[d]
      /\ \A d \in Coroutines : threadId'[d] = IF d = c THEN i ELSE threadId[d]
  BY <1>1 DEF Create, NewInstance
<1>4. /\ coMap' = [j \in Ids |-> IF j = i /\ coMap[j] = Nil THEN c ELSE coMap[j]]
      /\ loopMap' = [j \in Ids |-> IF j = i /\ loopMap[j] = Nil THEN c ELSE loopMap[j]]
  <2>1. (CHOOSE d \in {c} : TRUE) = c
    OBVIOUS
  <2>2. \A j \in Ids : /\ (\E d \in {c} : [e \in {c} |-> i][d] = j /\ coMap[j] = Nil) <=> (j = i /\ coMap[j] = Nil)
                       /\ (\E d \in {c} : [e \in {c} |-> i][d] = j /\ loopMap[j] = Nil) <=> (j = i /\ loopMap[j] = Nil)
    OBVIOUS
  <2>3. (CHOOSE d \in {c} : [e \in {c} |-> i][d] = i) = c
    OBVIOUS
  <2> QED BY <1>1, <2>2, <2>3 DEF Create
<1>5. \A j \in Ids : /\ coMap[j] # Nil => coMap[j] \in Coroutines
                     /\ loopMap[j] # Nil => loopMap[j] \in Coroutines
  BY DEF TypeOK
<1>6. coMap[i] = Nil
  BY <1>2, <1>5 DEF Tables, Alive
<1>7. loopMap[i] # Nil => at[loopMap[i]] = "gone"
  BY <1>2, <1>5 DEF Tables
<1>8. c # Nil
  BY Different
<1>9. \A d \in Coroutines :
         /\ at'[d] # "none" => threadId'[d] \in Ids
         /\ Alive(d)' => loopMap'[threadId'[d]] # Nil
  BY <1>2, <1>3, <1>4, <1>8 DEF Tables, Alive
<1>10. \A d, e \in Coroutines :
         /\ at'[d] \notin {"none", "gone"} /\ at'[e] \notin {"none", "gone"}
         /\ threadId'[d] = threadId'[e]
         => d = e
  BY <1>2, <1>3 DEF Tables
<1>11. \A j \in Ids :
         /\ coMap'[j] # Nil => threadId'[coMap'[j]] = j /\ Alive(coMap[j])'
         /\ loopMap'[j] # Nil => threadId'[loopMap'[j]] = j /\ at'[loopMap'[j]] # "none"
  BY <1>3, <1>4, <1>5 DEF Tables, Alive
<1>12. \A d \in Coroutines :
         Alive(d)' => /\ coMap'[threadId'[d]] = d
                      /\ at'[d] # "top" => loopMap'[threadId'[d]] = d
  <2>1. ASSUME NEW d \in Coroutines, Alive(d)', d = c
        PROVE  coMap'[threadId'[d]] = d /\ at'[d] = "top"
    BY <1>2, <1>3, <1>4, <1>6, <2>1
  <2>2. ASSUME NEW d \in Coroutines, Alive(d)', d # c
        PROVE  /\ coMap'[threadId'[d]] = d
               /\ at'[d] # "top" => loopMap'[threadId'[d]] = d
    <3>1. Alive(d) /\ threadId'[d] = threadId[d] /\ at'[d] = at[d] /\ threadId[d] \in Ids
      BY <1>3, <2>2 DEF Alive, Tables
    <3>2. threadId[d] # i
      BY <1>2, <3>1 DEF Alive
    <3>3. coMap'[threadId[d]] = coMap[threadId[d]] /\ loopMap'[threadId[d]] = loopMap[threadId[d]]
      BY <1>4, <3>1, <3>2
    <3> QED BY <3>1, <3>3 DEF Tables, OwnTables, Alive
  <2> QED BY <2>1, <2>2
<1>13. OwnTables'
  BY <1>12 DEF OwnTables, Alive
<1> QED BY <1>9, <1>10, <1>11, <1>13 DEF Tables

LEMMA TablesDelete ==
  ASSUME TypeInv, Tables, NEW c \in Coroutines, Delete(c)
  PROVE  Tables'
<1> USE DEF TypeInv
<1>1. /\ at[c] = "top"
      /\ \A d \in Coroutines : at'[d] = IF d = c THEN "loop" ELSE at[d]
      /\ threadId' = threadId /\ loopMap' = loopMap
      /\ \A i \in Ids : coMap'[i] = IF i = threadId[c] THEN Nil ELSE coMap[i]
  BY DEF Delete, CoGoto, ForgetThread, TypeOK
<1>2. \A j \in Ids : /\ coMap[j] # Nil => coMap[j] \in Coroutines
                     /\ loopMap[j] # Nil => loopMap[j] \in Coroutines
  BY DEF TypeOK
<1>3. \A d \in Coroutines :
         /\ at'[d] # "none" => threadId'[d] \in Ids
         /\ Alive(d)' => loopMap'[threadId'[d]] # Nil
  BY <1>1 DEF Tables, Alive
<1>4. \A d, e \in Coroutines :
         /\ at'[d] \notin {"none", "gone"} /\ at'[e] \notin {"none", "gone"}
         /\ threadId'[d] = threadId'[e]
         => d = e
  BY <1>1 DEF Tables
<1>5. \A j \in Ids :
         /\ coMap'[j] # Nil => threadId'[coMap'[j]] = j /\ Alive(coMap[j])'
         /\ loopMap'[j] # Nil => threadId'[loopMap'[j]] = j /\ at'[loopMap'[j]] # "none"
  BY <1>1, <1>2 DEF Tables, Alive
<1>6. \A d \in Coroutines :
         Alive(d)' => /\ coMap'[threadId'[d]] = d
                      /\ at'[d] # "top" => loopMap'[threadId'[d]] = d
  <2>1. SUFFICES ASSUME NEW d \in Coroutines, Alive(d)'
        PROVE  /\ coMap'[threadId'[d]] = d
               /\ at'[d] # "top" => loopMap'[threadId'[d]] = d
    OBVIOUS
  <2>2. d # c /\ Alive(d) /\ at'[d] = at[d] /\ threadId[d] \in Ids
    BY <1>1, <2>1 DEF Alive, Tables
  <2>3. threadId[d] # threadId[c]
    BY <1>1, <2>2 DEF Tables, Alive
  <2> QED BY <1>1, <2>2, <2>3 DEF Tables, OwnTables, Alive
<1>7. OwnTables'
  BY <1>6 DEF OwnTables, Alive
<1> QED BY <1>3, <1>4, <1>5, <1>7 DEF Tables

LEMMA TablesStep == ASSUME TypeInv, Tables, [Next]_vars PROVE Tables'
<1>1. TypeOK
  BY DEF TypeInv
<1>2. ASSUME NEW t \in Threads, NEW c \in Coroutines, NewInstance(t, c) PROVE Tables'
  BY <1>2, TablesNew
<1>3. ASSUME NEW c \in Coroutines, Delete(c) PROVE Tables'
  BY <1>3, TablesDelete
<1>4. ASSUME NEW c \in Coroutines,
             Top(c) \/ RunFunction(c) \/ Drained(c) \/ Switch(c) \/ EndThread(c)
      PROVE  Tables'
  <2>1. UNCHANGED idVars
    BY <1>4 DEF Top, RunFunction, Drained, Switch, EndThread
  <2>2. \A d \in Coroutines : d # c => at'[d] = at[d]
    BY <1>1, <1>4 DEF Top, RunFunction, Drained, Switch, EndThread, CoGoto, TypeOK
  <2>3. \/ at'[c] = at[c]
        \/ at[c] = "top" => loopMap[threadId[c]] = c
    BY <1>4 DEF Top, RunFunction, Drained, Switch, EndThread
  <2>4. \/ at'[c] = at[c]
        \/ Alive(c) /\ Alive(c)'
        \/ at[c] \in {"loop", "ending"} /\ at'[c] \in {"ending", "gone"}
    <3>1. CASE Top(c)
      BY <1>1, <3>1 DEF Top, CoGoto, TypeOK, Alive, NextStep
    <3>2. CASE RunFunction(c)
      <4>1. /\ at[c] \in {"wait", "drain", "poll", "loop"}
            /\ at' = [at EXCEPT ![c] = IF at[c] = "wait" THEN "drain" ELSE at[c]]
        BY <3>2 DEF RunFunction, CoGoto
      <4> QED BY <1>1, <4>1 DEF TypeOK, Alive
    <3>3. CASE Drained(c) \/ Switch(c) \/ EndThread(c)
      BY <1>1, <3>3 DEF Drained, Switch, EndThread, CoGoto, TypeOK, Alive
    <3> QED BY <1>4, <3>1, <3>2, <3>3
  <2> QED BY <1>1, <2>1, <2>2, <2>3, <2>4, TablesKept
<1>5. ASSUME NEW x \in Contexts,
             Complete(x) \/ Slot(x) \/ EmitYield(x) \/ Leave(x) \/ Yield(x)
               \/ Pending(x) \/ TimerFires(x) \/ (\E y \in Contexts : Join(x, y))
      PROVE  Tables'
  <2>1. UNCHANGED idVars
    BY <1>5 DEF Complete, Slot, EmitYield, Leave, Yield, Pending, TimerFires, Join
  <2>2. at' = at \/ (Executes(x) /\ SwitchBack(home[x]))
    BY <1>1, <1>5, MayIs DEF Complete, Slot, EmitYield, Leave, Yield, Pending, TimerFires, Join,
                   YieldBody, coVars
  <2>3. \A d \in Coroutines : at'[d] = at[d] \/ (at[d] = "context" /\ at'[d] = "top")
    BY <1>1, <2>2, SwitchBackType, ExecutesIs
  <2> QED BY <1>1, <2>1, <2>3, TablesKept DEF Alive
<1>6. ASSUME NEW t \in Threads,
             ThreadStep(t) \/ (\E x \in Contexts : ThreadJoin(t, x))
               \/ (\E c \in Coroutines : DeleteLater(t, c))
      PROVE  Tables'
  <2>1. UNCHANGED <<idVars, at>>
    BY <1>6 DEF ThreadStep, ThreadWaits, Terminate, UseLoop, ThreadJoin, DeleteLater, coVars
  <2> QED BY <1>1, <2>1, TablesKept
<1>7. ASSUME NEW u \in Callers, NEW x \in Contexts, Work(u, x) \/ Resume(u, x) PROVE Tables'
  <2>1. UNCHANGED <<idVars, at>>
    BY <1>7 DEF Work, Resume, coVars
  <2> QED BY <1>1, <2>1, TablesKept
<1>8. CASE UNCHANGED vars
  <2>1. UNCHANGED <<idVars, at>>
    BY <1>8 DEF vars, coVars
  <2> QED BY <1>1, <2>1, TablesKept
<1> QED BY <1>2, <1>3, <1>4, <1>5, <1>6, <1>7, <1>8, StepCases

LEMMA TablesInvariant == Spec => [](TypeInv /\ Tables)
<1>1. Init => TypeInv /\ Tables BY TypeInit, TablesInit
<1>2. TypeInv /\ Tables /\ [Next]_vars => TypeInv' /\ Tables' BY TypeStep, TablesStep
<1> QED BY <1>1, <1>2, PTL DEF Spec

(* A coroutine's thread finds its own coroutine in g_coPoolMap and, in     *)
(* g_loopPoolMap, its own loop or one that ended in an earlier thread of   *)
(* that id, however many threads come, go and reuse ids (loop.cc:64).      *)
THEOREM ThreadsOwnTables == Spec => []OwnTables
<1>1. Tables => OwnTables BY DEF Tables
<1> QED BY <1>1, TablesInvariant, PTL
-----------------------------------------------------------------------------
(* Where an element of a set F is in the sequences of the coroutines: q is *)
(* the queues of functions, or the contexts that are ready.                *)

None(q, F) == \A c \in Coroutines : \A i \in DOMAIN q[c] : q[c][i] \notin F

One(q, F) ==
  \A c, d \in Coroutines : \A i \in DOMAIN q[c], j \in DOMAIN q[d] :
    q[c][i] \in F /\ q[d][j] \in F => c = d /\ i = j

(* From q to r no element of F comes, or is doubled.                       *)
Kept(q, r, F) == (None(q, F) => None(r, F)) /\ (One(q, F) => One(r, F))

LEMMA NoneIsOne == ASSUME NEW q, NEW F, None(q, F) PROVE One(q, F)
BY DEF None, One

LEMMA KeptAll == ASSUME NEW q, NEW F PROVE Kept(q, q, F)
BY DEF Kept

LEMMA PutKeeps ==
  ASSUME NEW S, NEW q \in [Coroutines -> Seq(S)], NEW c, NEW e \in S, NEW F, e \notin F,
         NEW r, r = [q EXCEPT ![c] = Append(q[c], e)]
  PROVE  Kept(q, r, F)
<1>1. \A d \in Coroutines : \A i \in DOMAIN r[d] :
         (i \in DOMAIN q[d] /\ r[d][i] = q[d][i]) \/ r[d][i] = e
  <2>1. TAKE d \in Coroutines
  <2>2. CASE d = c
    <3>1. q[c] \in Seq(S) /\ r[d] = Append(q[c], e)
      BY <2>2
    <3> QED BY <2>2, <3>1, AppendProperties, LenProperties
  <2>3. CASE d # c
    BY <2>3
  <2> QED BY <2>2, <2>3
<1>2. None(q, F) => None(r, F)
  BY <1>1 DEF None
<1>3. One(q, F) => One(r, F)
  BY <1>1 DEF One
<1> QED BY <1>2, <1>3 DEF Kept

LEMMA PutOne ==
  ASSUME NEW S, NEW q \in [Coroutines -> Seq(S)], NEW c, NEW e \in S, NEW F, None(q, F),
         NEW r, r = [q EXCEPT ![c] = Append(q[c], e)]
  PROVE  One(r, F)
<1>1. \A d \in Coroutines : \A i \in DOMAIN r[d] :
         r[d][i] \in F => c \in Coroutines /\ d = c /\ i = Len(q[c]) + 1
  <2>1. TAKE d \in Coroutines
  <2>2. CASE d = c
    <3>1. q[c] \in Seq(S) /\ r[d] = Append(q[c], e)
      BY <2>2
    <3>2. \A i \in DOMAIN r[d] : (i \in DOMAIN q[c] /\ r[d][i] = q[c][i]) \/ i = Len(q[c]) + 1
      BY <3>1, AppendProperties, LenProperties
    <3> QED BY <2>2, <3>2 DEF None
  <2>3. CASE d # c
    BY <2>3 DEF None
  <2> QED BY <2>2, <2>3
<1> QED BY <1>1 DEF One

LEMMA TakeKeeps ==
  ASSUME NEW S, NEW q \in [Coroutines -> Seq(S)], NEW c \in Coroutines, NEW F, q[c] # <<>>,
         NEW r, r = [q EXCEPT ![c] = Tail(q[c])]
  PROVE  /\ Kept(q, r, F)
         /\ r \in [Coroutines -> Seq(S)]
         /\ One(q, F) /\ Head(q[c]) \in F => None(r, F)
<1>1. q[c] \in Seq(S) /\ Len(q[c]) \in Nat \ {0} /\ DOMAIN q[c] = 1 .. Len(q[c])
  BY LenProperties, EmptySeq
<1>2. /\ Tail(q[c]) \in Seq(S) /\ Len(Tail(q[c])) = Len(q[c]) - 1
      /\ \A i \in 1 .. Len(Tail(q[c])) : Tail(q[c])[i] = q[c][i + 1]
      /\ Head(q[c]) = q[c][1]
  BY <1>1, HeadTailProperties
<1>3. DOMAIN Tail(q[c]) = 1 .. Len(q[c]) - 1
  BY <1>2, LenProperties
<1>4. \A i \in DOMAIN r[c] : i + 1 \in DOMAIN q[c] /\ r[c][i] = q[c][i + 1] /\ i + 1 # 1
  BY <1>1, <1>2, <1>3
<1>5. \A d \in Coroutines : d # c => r[d] = q[d]
  OBVIOUS
<1>6. \A i, j \in DOMAIN r[c] : i + 1 = j + 1 => i = j
  BY <1>1, <1>2, <1>3
<1>7. None(q, F) => None(r, F)
  BY <1>4, <1>5 DEF None
<1>8. One(q, F) => One(r, F)
  <2>1. SUFFICES ASSUME One(q, F), NEW d \in Coroutines, NEW e \in Coroutines,
                        NEW i \in DOMAIN r[d], NEW j \in DOMAIN r[e], r[d][i] \in F, r[e][j] \in F
                 PROVE  d = e /\ i = j
    BY DEF One
  <2>2. CASE d = c /\ e = c
    BY <1>4, <1>6, <2>1, <2>2 DEF One
  <2>3. CASE d # c \/ e # c
    BY <1>4, <1>5, <2>1, <2>3 DEF One
  <2> QED BY <2>2, <2>3
<1>9. One(q, F) /\ Head(q[c]) \in F => None(r, F)
  <2>1. SUFFICES ASSUME One(q, F), q[c][1] \in F, NEW d \in Coroutines, NEW i \in DOMAIN r[d], r[d][i] \in F
                 PROVE  FALSE
    BY <1>2 DEF None
  <2>2. 1 \in DOMAIN q[c]
    BY <1>1
  <2>3. CASE d = c
    <3>1. i + 1 \in DOMAIN q[c] /\ q[c][i + 1] \in F /\ i + 1 # 1
      BY <1>4, <2>1, <2>3
    <3> QED BY <2>1, <2>2, <3>1 DEF One
  <2>4. CASE d # c
    BY <1>5, <2>1, <2>2, <2>4 DEF One
  <2> QED BY <2>3, <2>4
<1>10. r \in [Coroutines -> Seq(S)]
  BY <1>2
<1> QED BY <1>7, <1>8, <1>9, <1>10 DEF Kept

LEMMA EmptyKeeps ==
  ASSUME NEW S, NEW q \in [Coroutines -> Seq(S)], NEW c, NEW F,
         NEW r, r = [q EXCEPT ![c] = <<>>]
  PROVE  Kept(q, r, F)
<1>1. \A d \in Coroutines : \A i \in DOMAIN r[d] : i \in DOMAIN q[d] /\ r[d][i] = q[d][i]
  <2>1. DOMAIN <<>> = {}
    OBVIOUS
  <2> QED BY <2>1
<1> QED BY <1>1 DEF Kept, None, One
-----------------------------------------------------------------------------
(* The queues, after a post and after a function was run.                  *)

LEMMA PostKeeps ==
  ASSUME QueueType, NEW c, NEW f \in Posted, NEW F, f \notin F, Post(c, f)
  PROVE  Kept(queue, queue', F)
<1>1. queue \in [Coroutines -> Seq(Posted)] /\ queue' = [queue EXCEPT ![c] = Append(queue[c], f)]
  BY DEF QueueType, Post
<1> QED BY <1>1, PutKeeps

LEMMA PostOne ==
  ASSUME QueueType, NEW c, NEW f \in Posted, NEW F, None(queue, F), Post(c, f)
  PROVE  One(queue', F)
<1>1. queue \in [Coroutines -> Seq(Posted)] /\ queue' = [queue EXCEPT ![c] = Append(queue[c], f)]
  BY DEF QueueType, Post
<1> QED BY <1>1, PutOne

LEMMA RunQueue ==
  ASSUME QueueType, NEW c \in Coroutines, NEW f \in Posted, Runs(c, f), NEW F
  PROVE  /\ f.do \in Resuming /\ Resumption(f) \notin F => Kept(queue, queue', F)
         /\ f.do \notin Resuming => Kept(queue, queue', F)
         /\ f.do \notin Resuming /\ f \in F /\ One(queue, F) => None(queue', F)
         /\ f.do \in Resuming /\ f \in F /\ One(queue, F) => One(queue', F)
         /\ None(queue, F) => f \notin F
<1>1. queue \in [Coroutines -> Seq(Posted)] /\ queue[c] # <<>> /\ f = Head(queue[c])
  BY DEF QueueType, Runs
<1>2. PICK r : r = [queue EXCEPT ![c] = Tail(queue[c])]
  OBVIOUS
<1>3. /\ Kept(queue, r, F)
      /\ r \in [Coroutines -> Seq(Posted)]
      /\ One(queue, F) /\ f \in F => None(r, F)
  BY <1>1, <1>2, TakeKeeps
<1>4. None(queue, F) => f \notin F
  <2>1. 1 \in DOMAIN queue[c] /\ f = queue[c][1]
    BY <1>1, HeadTailProperties, LenProperties, EmptySeq
  <2> QED BY <2>1 DEF None
<1>5. CASE f.do # "slot" /\ queue' = [queue EXCEPT ![c] = Tail(queue[c])]
  <2>1. queue' = r
    BY <1>2, <1>5
  <2> QED BY <1>3, <1>4, <2>1, NoneIsOne
<1>6. CASE f.do \in Resuming /\ queue' = [queue EXCEPT ![c] = Append(Tail(queue[c]), Resumption(f))]
  <2>1. Resumption(f) \in Posted
    BY <1>6, PostedIs, PostedOf DEF Resuming, Resumption
  <2>2. r[c] = Tail(queue[c])
    BY <1>1, <1>2
  <2>3. queue' = [r EXCEPT ![c] = Append(r[c], Resumption(f))]
    BY <1>1, <1>2, <1>6, <2>2
  <2>4. Resumption(f) \notin F => Kept(r, queue', F)
    BY <1>3, <2>1, <2>3, PutKeeps
  <2>5. None(r, F) => One(queue', F)
    BY <1>3, <2>1, <2>3, PutOne
  <2> QED BY <1>3, <1>4, <1>6, <2>4, <2>5 DEF Kept
<1>7. \/ f.do \in Resuming /\ queue' = [queue EXCEPT ![c] = Append(Tail(queue[c]), Resumption(f))]
      \/ f.do # "slot" /\ queue' = [queue EXCEPT ![c] = Tail(queue[c])]
  BY DEF Runs
<1> QED BY <1>5, <1>6, <1>7
-----------------------------------------------------------------------------
(* What is posted about a context: functions that end in its turn, the     *)
(* start among them and what yield posts, and its registrations.           *)
Waking == {"start", "ready", "resume", "slot", "timeout"}

WakesOf(x) == {f \in Posted : f.do \in Waking /\ f.ctx = x}

FunctionsOf(do, x) == {f \in Posted : f.do = do /\ f.ctx = x}

Registers(y, x) == {Function("register", y, x)}

(* x joins y: it is connected, or will be.                                 *)
Joining(y, x) == x \in waiters[y] \/ ~ None(queue, Registers(y, x))

About(x) == {WakesOf(x), FunctionsOf("start", x), FunctionsOf("ready", x)}

(* Nothing new is posted about x.                                          *)
QueueQuiet(x) ==
  /\ \A F \in About(x) : Kept(queue, queue', F)
  /\ \A y \in Contexts : Kept(queue, queue', Registers(y, x))

(* A step gives x no turn it had not, nor a chance of one.                 *)
Unmoved(x) ==
  /\ QueueQuiet(x) /\ Kept(ready, ready', {x})
  /\ Executes(x)' => Executes(x)
  /\ timers'[x] = timers[x]
  /\ \A y \in Contexts : /\ x \in todo'[y] => x \in todo[y]
                         /\ x \in waiters'[y] => Joining(y, x)
  /\ target'[x] = target[x] /\ dead \subseteq dead'
  /\ x \in running => x \in running'
  /\ pc'[x] = "done" => pc[x] = "done"

LEMMA FunctionIs ==
  ASSUME NEW f \in Posted, NEW x \in Contexts
  PROVE  /\ f \in WakesOf(x) <=> f.do \in Waking /\ f.ctx = x
         /\ \A do : f \in FunctionsOf(do, x) <=> f.do = do /\ f.ctx = x
         /\ \A y \in Contexts :
              f \in Registers(y, x) <=> f.do = "register" /\ f.ctx = y /\ f.who = x
<1>1. f = Function(f.do, f.ctx, f.who)
  BY PostedIs
<1>2. \A do, y, w : Function(do, y, w).do = do /\ Function(do, y, w).ctx = y /\ Function(do, y, w).who = w
  BY DEF Function
<1> QED BY <1>1, <1>2 DEF WakesOf, FunctionsOf, Registers

LEMMA FieldsOf ==
  ASSUME NEW do, NEW y, NEW w
  PROVE  Function(do, y, w).do = do /\ Function(do, y, w).ctx = y /\ Function(do, y, w).who = w
BY DEF Function

LEMMA PostQuiet ==
  ASSUME QueueType, NEW c, NEW f \in Posted, Post(c, f), NEW x \in Contexts,
         f.do \in Waking => f.ctx # x, f.do = "register" => f.who # x
  PROVE  QueueQuiet(x)
<1>1. \A F \in About(x) : f \notin F
  BY FunctionIs DEF About, Waking
<1>2. \A y \in Contexts : f \notin Registers(y, x)
  BY FunctionIs
<1> QED BY <1>1, <1>2, PostKeeps DEF QueueQuiet

LEMMA SameQuiet == ASSUME queue' = queue, NEW x PROVE QueueQuiet(x)
BY KeptAll DEF QueueQuiet

(* Functions that are run.                                                 *)
LEMMA RunQuiet ==
  ASSUME QueueType, NEW c \in Coroutines, NEW f \in Posted, Runs(c, f), NEW x \in Contexts,
         f.do \in Resuming => f.ctx # x
  PROVE  QueueQuiet(x)
<1>1. \A F \in About(x) : f.do \in Resuming => Resumption(f) \notin F
  <2>1. f.do \in Resuming => Resumption(f) \in Posted /\ Resumption(f).ctx # x
    BY PostedIs, PostedOf, FieldsOf DEF Resuming, Resumption
  <2> QED BY <2>1, FunctionIs DEF About
<1>2. \A y \in Contexts : f.do \in Resuming => Resumption(f) \notin Registers(y, x)
  <2>1. f.do \in Resuming => Resumption(f) \in Posted /\ Resumption(f).do # "register"
    BY PostedIs, PostedOf, FieldsOf DEF Resuming, Resumption
  <2> QED BY <2>1, FunctionIs
<1>3. \A F \in About(x) : Kept(queue, queue', F)
  BY <1>1, RunQueue
<1>4. \A y \in Contexts : Kept(queue, queue', Registers(y, x))
  BY <1>2, RunQueue
<1> QED BY <1>3, <1>4 DEF QueueQuiet

(* The contexts a step is not about.                                       *)
LEMMA OthersKept ==
  ASSUME TypeInv, NEW x \in Contexts, QueueQuiet(x), Executes(x)' => Executes(x),
         UNCHANGED <<ready, timers, todo, waiters, target>>, dead \subseteq dead',
         x \in running => x \in running', pc'[x] = "done" => pc[x] = "done"
  PROVE  Unmoved(x)
BY KeptAll DEF Unmoved, Joining

LEMMA OthersSteps ==
  ASSUME TypeInv, NEW x \in Contexts, NEW c \in Coroutines,
         \/ Top(c) \/ Drained(c) \/ EndThread(c)
         \/ \E t \in Threads : NewInstance(t, c)
  PROVE  Unmoved(x)
<1>1. UNCHANGED <<queue, ready, current, home, timers, todo, waiters, target, dead, running, pc>>
  <2>1. CASE Top(c) \/ Drained(c) \/ EndThread(c)
    BY <2>1 DEF Top, Drained, EndThread, joinVars
  <2>2. CASE \E t \in Threads : NewInstance(t, c)
    BY <2>2 DEF NewInstance, Create, joinVars
  <2> QED BY <2>1, <2>2
<1>2. \A d \in Coroutines : at'[d] = "context" => at[d] = "context"
  <2>1. CASE Top(c)
    BY <2>1 DEF Top, CoGoto, NextStep, TypeInv, TypeOK
  <2>2. CASE Drained(c) \/ EndThread(c)
    BY <2>2 DEF Drained, EndThread, CoGoto, TypeInv, TypeOK
  <2>3. CASE \E t \in Threads : NewInstance(t, c)
    <3>1. \A d \in Coroutines : at'[d] = at[d] \/ at'[d] = "top"
      BY <2>3 DEF NewInstance, Create
    <3> QED BY <3>1
  <2> QED BY <2>1, <2>2, <2>3
<1>3. Executes(x)' => Executes(x)
  BY <1>1, <1>2 DEF Executes, TypeInv, TypeOK
<1> QED BY <1>1, <1>3, SameQuiet, OthersKept

LEMMA OthersDelete ==
  ASSUME TypeInv, NEW x \in Contexts, NEW c \in Coroutines, Delete(c)
  PROVE  Unmoved(x)
<1> USE DEF TypeInv
<1>1. UNCHANGED <<current, home, timers, todo, waiters, target, dead, running, pc>>
  BY DEF Delete, joinVars
<1>2. Executes(x)' => Executes(x)
  BY <1>1 DEF Delete, CoGoto, Executes, TypeOK
<1>3. QueueQuiet(x)
  <2>1. PICK f \in Posted : f = Function("null", Nil, Nil)
    BY PostedOf
  <2>2. Post(c, f)
    BY <2>1 DEF Delete
  <2>3. f.do \notin Waking /\ f.do # "register"
    BY <2>1, FieldsOf DEF Waking
  <2> QED BY <2>2, <2>3, PostQuiet
<1>4. Kept(ready, ready', {x})
  <2>1. ready \in [Coroutines -> Seq(Contexts)] /\ ready' = [ready EXCEPT ![c] = <<>>]
    BY DEF Delete, TypeOK
  <2> QED BY <2>1, EmptyKeeps
<1> QED BY <1>1, <1>2, <1>3, <1>4 DEF Unmoved, Joining

LEMMA OthersRun ==
  ASSUME TypeInv, NEW x \in Contexts, NEW c \in Coroutines, RunFunction(c),
         NEW f \in Posted, Runs(c, f), f.do \in Waking => f.ctx # x
  PROVE  Unmoved(x)
<1> USE DEF TypeInv
<1>1. UNCHANGED <<current, home, timers, todo, target, dead, pc>>
  BY DEF RunFunction
<1>2. \A d \in Coroutines : at'[d] = "context" => at[d] = "context"
  BY DEF RunFunction, CoGoto, TypeOK
<1>3. Executes(x)' => Executes(x)
  BY <1>1, <1>2 DEF Executes, TypeOK
<1>4. QueueQuiet(x)
  BY RunQuiet DEF Waking, Resuming
<1>5. Kept(ready, ready', {x})
  <2>1. CASE ready' = ready
    BY <2>1, KeptAll
  <2>2. CASE ready' # ready
    <3>1. Readies(c, f) /\ f.ctx \in Contexts /\ ready' = [ready EXCEPT ![c] = Append(ready[c], f.ctx)]
      BY <2>2 DEF Runs
    <3>2. f.ctx \notin {x}
      BY <3>1 DEF Readies, Waking
    <3>3. ready \in [Coroutines -> Seq(Contexts)]
      BY DEF TypeOK
    <3> QED BY <3>1, <3>2, <3>3, PutKeeps
  <2> QED BY <2>1, <2>2
<1>6. \A y \in Contexts : x \in waiters'[y] => Joining(y, x)
  <2>1. SUFFICES ASSUME NEW y \in Contexts, x \in waiters'[y], x \notin waiters[y]
                 PROVE  ~ None(queue, Registers(y, x))
    BY DEF Joining
  <2>2. waiters' # waiters
    BY <2>1
  <2>3. /\ f.do = "register" /\ f.ctx \in Contexts /\ f.who \in Contexts \cup {Watch}
        /\ waiters' = [waiters EXCEPT ![f.ctx] = waiters[f.ctx] \cup {f.who}]
    BY <2>2 DEF Runs
  <2>4. f.ctx = y /\ f.who = x
    BY <2>1, <2>3 DEF TypeOK
  <2>5. f \in Registers(y, x)
    BY <2>3, <2>4, FunctionIs
  <2> QED BY <2>5, RunQueue
<1>7. x \in running => x \in running'
  BY DEF Runs
<1> QED BY <1>1, <1>3, <1>4, <1>5, <1>6, <1>7 DEF Unmoved

LEMMA OthersSwitch ==
  ASSUME TypeInv, NEW x \in Contexts, NEW c \in Coroutines, Switch(c),
         NEW z \in Contexts, Switches(c, z), x # z
  PROVE  Unmoved(x)
<1> USE DEF TypeInv
<1>1. UNCHANGED <<queue, home, timers, todo, waiters, dead, running>>
  BY DEF Switch
<1>2. x \in Callers /\ z \in Callers
  BY DEF Callers
<1>3. target'[x] = target[x] /\ pc'[x] = pc[x]
  BY <1>2 DEF Switches, TypeOK
<1>4. Executes(x)' => Executes(x)
  BY <1>1 DEF Executes, Switches, TypeOK
<1>5. Kept(ready, ready', {x})
  <2>1. ready \in [Coroutines -> Seq(Contexts)] /\ ready[c] # <<>>
        /\ ready' = [ready EXCEPT ![c] = Tail(ready[c])]
    BY DEF Switches, TypeOK
  <2> QED BY <2>1, TakeKeeps
<1> QED BY <1>1, <1>3, <1>4, <1>5, SameQuiet DEF Unmoved, Joining

LEMMA OthersWork ==
  ASSUME TypeInv, NEW u \in Callers, NEW z \in Contexts, Work(u, z), NEW x \in Contexts, x # z
  PROVE  Unmoved(x)
<1> USE DEF TypeInv
<1>1. PICK c \in Coroutines : Hand(c, z)
  BY DEF Work
<1>2. UNCHANGED <<coVars, pc, dead, joinVars, timers>>
  BY DEF Work
<1>3. Executes(x)' => Executes(x)
  BY <1>1, <1>2 DEF Hand, Executes, TypeOK, coVars
<1>4. QueueQuiet(x)
  <2>1. PICK f \in Posted : f = Function("start", z, Nil)
    BY PostedOf
  <2>2. Post(c, f)
    BY <1>1, <2>1 DEF Hand
  <2>3. f.ctx = z /\ f.do # "register"
    BY <2>1, FieldsOf
  <2> QED BY <2>2, <2>3, PostQuiet
<1>5. x \in running => x \in running'
  BY <1>1 DEF Hand
<1> QED BY <1>2, <1>3, <1>4, <1>5, OthersKept DEF coVars, joinVars

LEMMA OthersResume ==
  ASSUME TypeInv, NEW u \in Callers, NEW z \in Contexts, Resume(u, z),
         NEW x \in Contexts, x # z
  PROVE  Unmoved(x)
<1> USE DEF TypeInv
<1>1. UNCHANGED <<coVars, home, dead, running, joinVars, timers>>
  BY DEF Resume
<1>2. Executes(x)' => Executes(x)
  BY <1>1 DEF Executes, coVars
<1>3. QueueQuiet(x)
  <2>1. PICK f \in Posted : f = Function("resume", z, Nil)
    BY PostedOf
  <2>2. Post(home[z], f)
    BY <2>1 DEF Resume
  <2>3. f.ctx = z /\ f.do # "register"
    BY <2>1, FieldsOf
  <2> QED BY <2>2, <2>3, PostQuiet
<1>4. pc'[x] = "done" => pc[x] = "done"
  BY DEF Resume, TypeOK, Callers
<1> QED BY <1>1, <1>2, <1>3, <1>4, OthersKept DEF coVars, joinVars

(* A switch back, of z.                                                    *)
LEMMA OthersBack ==
  ASSUME TypeInv, NEW z \in Contexts, Executes(z), SwitchBack(home[z]),
         home' = home, begun' = begun, NEW x \in Contexts, x # z
  PROVE  /\ ready' = ready
         /\ Executes(x)' => Executes(x)
         /\ x \in running => x \in running'
BY SwitchBackType, SwitchBackAtWork DEF TypeInv

LEMMA OthersYield ==
  ASSUME TypeInv, NEW z \in Contexts, Yield(z) \/ EmitYield(z), NEW x \in Contexts, x # z
  PROVE  Unmoved(x)
<1> USE DEF TypeInv
<1>1. Executes(z) /\ YieldBody(z)
  BY MayIs DEF Yield, EmitYield
<1>2. SwitchBack(home[z])
  BY <1>1 DEF YieldBody
<1>3. UNCHANGED <<home, begun, dead, joinVars, timers>>
  BY DEF Yield, EmitYield
<1>4. QueueQuiet(x)
  <2>1. PICK f \in Posted : f = Function("ready", z, Nil)
    BY PostedOf
  <2>2. Post(home[z], f)
    BY <1>1, <2>1 DEF YieldBody
  <2>3. f.ctx = z /\ f.do # "register"
    BY <2>1, FieldsOf
  <2> QED BY <2>2, <2>3, PostQuiet
<1>5. pc'[x] = "done" => pc[x] = "done"
  BY DEF Yield, EmitYield, Goto, TypeOK, Callers
<1>6. ready' = ready /\ (Executes(x)' => Executes(x)) /\ (x \in running => x \in running')
  BY <1>1, <1>2, <1>3, OthersBack
<1> QED BY <1>3, <1>4, <1>5, <1>6, OthersKept DEF joinVars

LEMMA OthersPending ==
  ASSUME TypeInv, NEW z \in Contexts, Pending(z) \/ Leave(z), NEW x \in Contexts, x # z
  PROVE  Unmoved(x)
<1> USE DEF TypeInv
<1>1. Executes(z) /\ SwitchBack(home[z])
  BY MayIs DEF Pending, Leave
<1>2. UNCHANGED <<queue, home, begun, dead, joinVars>>
  BY DEF Pending, Leave
<1>3. pc'[x] = "done" => pc[x] = "done"
  BY DEF Pending, Leave, Goto, TypeOK, Callers
<1>4. timers'[x] = timers[x]
  <2>1. timers' = timers \/ timers' = [timers EXCEPT ![z] = timers[z] + 1]
    BY DEF Pending, Leave
  <2>2. timers \in [Contexts -> Nat]
    BY DEF TypeOK
  <2> QED BY <2>1, <2>2
<1>5. ready' = ready /\ (Executes(x)' => Executes(x)) /\ (x \in running => x \in running')
  BY <1>1, <1>2, OthersBack
<1> QED BY <1>2, <1>3, <1>4, <1>5, SameQuiet, KeptAll DEF Unmoved, Joining, joinVars

LEMMA OthersFires ==
  ASSUME TypeInv, NEW z \in Contexts, TimerFires(z), NEW x \in Contexts, x # z
  PROVE  Unmoved(x)
<1> USE DEF TypeInv
<1>1. UNCHANGED <<coVars, home, pc, dead, running, joinVars>>
  BY DEF TimerFires
<1>2. Executes(x)' => Executes(x)
  BY <1>1 DEF Executes, coVars
<1>3. QueueQuiet(x)
  <2>1. PICK f \in Posted : f = Function("timeout", z, Nil)
    BY PostedOf
  <2>2. Post(home[z], f)
    BY <2>1 DEF TimerFires
  <2>3. f.ctx = z /\ f.do # "register"
    BY <2>1, FieldsOf
  <2> QED BY <2>2, <2>3, PostQuiet
<1>4. timers'[x] = timers[x]
  BY DEF TimerFires
<1> QED BY <1>1, <1>2, <1>3, <1>4, KeptAll DEF Unmoved, Joining, coVars, joinVars

LEMMA OthersJoin ==
  ASSUME TypeInv, NEW z \in Contexts, NEW y \in Contexts, Join(z, y), NEW x \in Contexts,
         x # z \/ y \in dead
  PROVE  Unmoved(x)
<1> USE DEF TypeInv
<1>1. UNCHANGED <<home, pc, begun, dead, todo, timers>>
  BY DEF Join
<1>2. CASE y \in dead
  <2>1. UNCHANGED <<queue, coVars, running, waiters, target>>
    BY <1>2 DEF Join
  <2>2. Executes(x)' => Executes(x)
    BY <1>1, <2>1 DEF Executes, coVars
  <2> QED BY <1>1, <2>1, <2>2, SameQuiet, OthersKept DEF coVars
<1>3. CASE y \notin dead
  <2>1. x # z /\ Executes(z) /\ SwitchBack(home[z])
    BY <1>3, MayIs DEF Join
  <2>2. ready' = ready /\ (Executes(x)' => Executes(x)) /\ (x \in running => x \in running')
    BY <1>1, <2>1, OthersBack
  <2>3. target'[x] = target[x]
    <3>1. target' = [target EXCEPT ![z] = y]
      BY <1>3 DEF Join
    <3> QED BY <2>1, <3>1 DEF TypeOK, Callers
  <2>4. \A w \in Contexts : x \in waiters'[w] => x \in waiters[w]
    <3>1. waiters' = waiters \/ waiters' = [waiters EXCEPT ![y] = waiters[y] \cup {z}]
      BY <1>3 DEF Join
    <3>2. \A w \in Contexts : waiters'[w] \in {waiters[w], waiters[w] \cup {z}}
      BY <3>1 DEF TypeOK
    <3> QED BY <2>1, <3>2
  <2>5. QueueQuiet(x)
    <3>1. CASE queue' = queue
      BY <3>1, SameQuiet
    <3>2. CASE queue' # queue
      <4>1. PICK f \in Posted : f = Function("register", y, z)
        BY PostedOf
      <4>2. Post(home[y], f)
        BY <1>3, <3>2, <4>1 DEF Join
      <4>3. f.do \notin Waking /\ f.who = z
        BY <4>1, FieldsOf DEF Waking
      <4> QED BY <2>1, <4>2, <4>3, PostQuiet
    <3> QED BY <3>1, <3>2
  <2> QED BY <1>1, <2>2, <2>3, <2>4, <2>5, KeptAll DEF Unmoved, Joining
<1> QED BY <1>2, <1>3

LEMMA OthersComplete ==
  ASSUME TypeInv, NEW z \in Contexts, Complete(z), NEW x \in Contexts, x \notin waiters[z]
  PROVE  Unmoved(x)
<1> USE DEF TypeInv
<1>1. UNCHANGED <<queue, coVars, home, running, waiters, target, timers>>
  BY DEF Complete
<1>2. Executes(x)' => Executes(x)
  BY <1>1 DEF Executes, coVars
<1>3. \A y \in Contexts : x \in todo'[y] => x \in todo[y]
  BY DEF Complete, TypeOK
<1>4. pc'[x] = "done" => pc[x] = "done"
  <2>1. x \in Callers
    BY DEF Callers
  <2>2. pc'[x] = IF x = z THEN "emit"
                 ELSE IF pc[x] = "asleep" /\ target[x] = z THEN "test" ELSE pc[x]
    BY <2>1 DEF Complete
  <2> QED BY <2>2
<1>5. dead \subseteq dead'
  BY DEF Complete
<1> QED BY <1>1, <1>2, <1>3, <1>4, <1>5, SameQuiet, KeptAll DEF Unmoved, Joining, coVars

LEMMA OthersSlot ==
  ASSUME TypeInv, NEW z \in Contexts, Slot(z), NEW x \in Contexts
  PROVE  Unmoved(x) \/ (x \in todo[z] /\ todo' = [todo EXCEPT ![z] = @ \ {x}])
<1> USE DEF TypeInv
<1>1. PICK j \in todo[z] :
       /\ todo' = [todo EXCEPT ![z] = @ \ {j}]
       /\ \/ /\ j = Watch
             /\ told' = Append(told, z)
             /\ UNCHANGED <<queue, pc, coVars, running>>
          \/ /\ j # Watch /\ home[j] # home[z]
             /\ Post(SlotLoop(j, z), Function("slot", j, Nil))
             /\ UNCHANGED <<told, pc, coVars, running>>
          \/ /\ j # Watch /\ home[j] = home[z]
             /\ Post(home[j], Function("resume", j, Nil))
             /\ Goto(z, "emitYield")
             /\ UNCHANGED <<told, coVars, running>>
  BY DEF Slot
<1>2. UNCHANGED <<coVars, running, home, dead, waiters, target, timers>>
  BY <1>1 DEF Slot
<1>3. SUFFICES ASSUME x # j PROVE Unmoved(x)
  BY <1>1
<1>4. Executes(x)' => Executes(x)
  BY <1>2 DEF Executes, coVars
<1>5. pc'[x] = "done" => pc[x] = "done"
  <2>1. pc' = pc \/ Goto(z, "emitYield")
    BY <1>1
  <2> QED BY <2>1 DEF Goto, TypeOK, Callers
<1>6. QueueQuiet(x)
  <2>1. CASE queue' = queue
    BY <2>1, SameQuiet
  <2>2. CASE queue' # queue
    <3>1. j \in Contexts
      BY <1>1, <2>2 DEF TypeOK
    <3>2. PICK f \in Posted : \E c : Post(c, f) /\ f.ctx = j /\ f.do # "register"
      <4>1. CASE Post(SlotLoop(j, z), Function("slot", j, Nil))
        BY <3>1, <4>1, PostedOf, FieldsOf
      <4>2. CASE Post(home[j], Function("resume", j, Nil))
        BY <3>1, <4>2, PostedOf, FieldsOf
      <4> QED BY <1>1, <2>2, <4>1, <4>2
    <3> QED BY <1>3, <3>2, PostQuiet
  <2> QED BY <2>1, <2>2
<1>7. \A y \in Contexts : x \in todo'[y] => x \in todo[y]
  BY <1>1 DEF TypeOK
<1> QED BY <1>2, <1>4, <1>5, <1>6, <1>7, KeptAll DEF Unmoved, Joining, coVars

LEMMA OthersThreads ==
  ASSUME TypeInv, NEW t \in Threads,
         ThreadStep(t) \/ (\E x \in Contexts : ThreadJoin(t, x))
           \/ (\E c \in Coroutines : DeleteLater(t, c)),
         NEW x \in Contexts
  PROVE  Unmoved(x)
<1> USE DEF TypeInv
<1>1. UNCHANGED <<at, ready, current, home, timers, todo, waiters, dead, running>>
  BY DEF ThreadStep, ThreadWaits, Terminate, UseLoop, ThreadJoin, DeleteLater, coVars, joinVars
<1>2. Executes(x)' => Executes(x)
  BY <1>1 DEF Executes
<1>3. x \in Callers /\ x # t
  BY Different DEF Callers
<1>4. pc'[x] = pc[x]
  BY <1>3 DEF ThreadStep, ThreadWaits, Terminate, UseLoop, ThreadJoin, DeleteLater, Goto, TypeOK
<1>5. target'[x] = target[x]
  BY <1>3 DEF ThreadStep, ThreadWaits, Terminate, UseLoop, ThreadJoin, DeleteLater, joinVars, TypeOK
<1>6. QueueQuiet(x)
  <2>1. PICK f \in Posted : f = Function("null", Nil, Nil)
    BY PostedOf
  <2>2. f.do \notin Waking /\ f.do # "register"
    BY <2>1, FieldsOf DEF Waking
  <2>3. queue' = queue \/ \E c : Post(c, f)
    BY <2>1 DEF ThreadStep, ThreadWaits, Terminate, UseLoop, ThreadJoin, DeleteLater
  <2> QED BY <2>2, <2>3, SameQuiet, PostQuiet
<1> QED BY <1>1, <1>2, <1>4, <1>5, <1>6, KeptAll DEF Unmoved, Joining

LEMMA OthersSame == ASSUME TypeInv, UNCHANGED vars, NEW x \in Contexts PROVE Unmoved(x)
<1>1. Executes(x)' => Executes(x)
  BY DEF vars, coVars, Executes
<1> QED BY <1>1, SameQuiet, OthersKept DEF vars, coVars, joinVars
-----------------------------------------------------------------------------
(* Contexts nobody has handed to a coroutine have no function, turn, timer *)
(* or connection, and have not begun.                                      *)
Homes ==
  \A x \in Contexts :
    /\ home[x] = Nil => /\ None(queue, WakesOf(x)) /\ None(ready, {x})
                        /\ timers[x] = 0 /\ x \notin begun
    /\ \A y \in Contexts : Joining(y, x) => home[x] # Nil /\ home[y] # Nil
    /\ todo[x] \subseteq waiters[x]

Called(x) == \E y \in Contexts : x \in todo[y]

Joins(x) == target[x] \in Contexts \ dead

NoPlace(x) ==
  /\ None(queue, WakesOf(x)) /\ None(ready, {x}) /\ ~ Executes(x)
  /\ timers[x] = 0 /\ ~ Called(x) /\ ~ Joins(x)

(* A context is at one place: it executes, or is ready, or one function of *)
(* a queue leads to its turn, or its timer does, or one emission, or it    *)
(* joins a context that has not ended; it is at none when it is done.      *)
OnePlace(x) ==
  /\ Executes(x) => /\ None(queue, WakesOf(x)) /\ None(ready, {x})
                    /\ timers[x] = 0 /\ ~ Called(x) /\ ~ Joins(x)
  /\ ~ None(queue, WakesOf(x)) => /\ None(ready, {x}) /\ timers[x] = 0
                                  /\ ~ Called(x) /\ ~ Joins(x)
  /\ ~ None(ready, {x}) => timers[x] = 0 /\ ~ Called(x) /\ ~ Joins(x)
  /\ timers[x] # 0 => timers[x] = 1 /\ ~ Called(x) /\ ~ Joins(x)
  /\ Called(x) => ~ Joins(x)

CalledOnce(x) == \A y, z \in Contexts : x \in todo[y] /\ x \in todo[z] => y = z

JoinsOne(x) == \A y \in Contexts \ dead : Joining(y, x) => target[x] = y

(* What holds of a context no user resumes.                                *)
OneWake(x) ==
  /\ One(queue, WakesOf(x)) /\ One(ready, {x}) /\ CalledOnce(x)
  /\ OnePlace(x) /\ JoinsOne(x)
  /\ pc[x] = "done" => NoPlace(x)

(* What holds of a context that never yields: while it is started, is      *)
(* ready or executes, it is running, so that no resume makes it ready.     *)
OneRun(x) ==
  /\ None(queue, FunctionsOf("ready", x)) /\ One(queue, FunctionsOf("start", x))
  /\ One(ready, {x})
  /\ ~ None(queue, FunctionsOf("start", x)) =>
       None(ready, {x}) /\ ~ Executes(x) /\ x \in running
  /\ ~ None(ready, {x}) => ~ Executes(x) /\ x \in running
  /\ Executes(x) => x \in running
  /\ pc[x] = "done" => /\ None(queue, FunctionsOf("start", x)) /\ None(ready, {x})
                       /\ ~ Executes(x)

LEMMA Functions3 ==
  ASSUME NEW x
  PROVE  /\ WakesOf(x) \in About(x) /\ FunctionsOf("start", x) \in About(x)
         /\ FunctionsOf("ready", x) \in About(x)
BY DEF About

LEMMA NoneSubset ==
  ASSUME NEW q, NEW F, NEW G, F \subseteq G, None(q, G) PROVE None(q, F)
BY DEF None

LEMMA StartsWake ==
  ASSUME NEW x \in Contexts
  PROVE  FunctionsOf("start", x) \subseteq WakesOf(x) /\ FunctionsOf("ready", x) \subseteq WakesOf(x)
BY DEF FunctionsOf, WakesOf, Waking

LEMMA JoiningUnmoved ==
  ASSUME NEW x, Unmoved(x)
  PROVE  \A y \in Contexts : Joining(y, x)' => Joining(y, x)
BY DEF Unmoved, QueueQuiet, Kept, Joining

LEMMA JoiningSame ==
  ASSUME queue' = queue, waiters' = waiters, NEW x, NEW y
  PROVE  Joining(y, x)' => Joining(y, x)
BY DEF Joining

LEMMA JoiningPost ==
  ASSUME QueueType, NEW c, NEW f \in Posted, Post(c, f), f.do # "register",
         waiters' = waiters, NEW x \in Contexts, NEW y \in Contexts
  PROVE  Joining(y, x)' => Joining(y, x)
<1>1. f \notin Registers(y, x)
  BY FunctionIs
<1>2. Kept(queue, queue', Registers(y, x))
  BY <1>1, PostKeeps
<1> QED BY <1>2 DEF Joining, Kept

LEMMA JoiningRun ==
  ASSUME QueueType, NEW c \in Coroutines, NEW f \in Posted, Runs(c, f), f.do # "register",
         NEW x \in Contexts, NEW y \in Contexts
  PROVE  Joining(y, x)' => Joining(y, x)
<1>1. f.do \in Resuming => Resumption(f) \notin Registers(y, x)
  <2>1. f.do \in Resuming => Resumption(f) \in Posted /\ Resumption(f).do # "register"
    BY PostedIs, PostedOf, FieldsOf DEF Resuming, Resumption
  <2> QED BY <2>1, FunctionIs
<1>2. Kept(queue, queue', Registers(y, x))
  BY <1>1, RunQueue
<1>3. waiters' = waiters
  BY DEF Runs
<1> QED BY <1>2, <1>3 DEF Joining, Kept

LEMMA WakeUnmoved ==
  ASSUME NEW x \in Contexts, OneWake(x), Unmoved(x)
  PROVE  OneWake(x)'
<1>1. /\ None(queue, WakesOf(x)) => None(queue', WakesOf(x))
      /\ One(queue, WakesOf(x)) => One(queue', WakesOf(x))
      /\ None(ready, {x}) => None(ready', {x})
      /\ One(ready, {x}) => One(ready', {x})
  BY Functions3 DEF Unmoved, QueueQuiet, Kept
<1>2. Called(x)' => Called(x)
  BY DEF Called, Unmoved
<1>3. Joins(x)' => Joins(x)
  BY DEF Joins, Unmoved
<1>4. /\ Executes(x)' => Executes(x)
      /\ timers'[x] = timers[x]
      /\ pc'[x] = "done" => pc[x] = "done"
  BY DEF Unmoved
<1>5. CalledOnce(x)'
  BY DEF OneWake, CalledOnce, Unmoved
<1>6. JoinsOne(x)'
  <2>1. target'[x] = target[x] /\ dead \subseteq dead'
    BY DEF Unmoved
  <2>2. \A y \in Contexts \ dead : Joining(y, x) => target[x] = y
    BY DEF OneWake, JoinsOne
  <2> QED BY <2>1, <2>2, JoiningUnmoved DEF JoinsOne
<1>7. OnePlace(x)'
  BY <1>1, <1>2, <1>3, <1>4 DEF OneWake, OnePlace
<1>8. pc'[x] = "done" => NoPlace(x)'
  BY <1>1, <1>2, <1>3, <1>4 DEF OneWake, NoPlace
<1> QED BY <1>1, <1>5, <1>6, <1>7, <1>8 DEF OneWake

LEMMA RunUnmoved ==
  ASSUME NEW x \in Contexts, OneRun(x), Unmoved(x)
  PROVE  OneRun(x)'
<1>1. /\ None(queue, FunctionsOf("start", x)) => None(queue', FunctionsOf("start", x))
      /\ One(queue, FunctionsOf("start", x)) => One(queue', FunctionsOf("start", x))
      /\ None(queue, FunctionsOf("ready", x)) => None(queue', FunctionsOf("ready", x))
      /\ None(ready, {x}) => None(ready', {x})
      /\ One(ready, {x}) => One(ready', {x})
  BY Functions3 DEF Unmoved, QueueQuiet, Kept
<1>2. /\ Executes(x)' => Executes(x)
      /\ x \in running => x \in running'
      /\ pc'[x] = "done" => pc[x] = "done"
  BY DEF Unmoved
<1> QED BY <1>1, <1>2 DEF OneRun
-----------------------------------------------------------------------------
(* The context a step is about.                                            *)

(* It has a coroutine, and keeps what holds of it.                         *)
Goes(x) ==
  /\ home'[x] # Nil
  /\ \A y \in Contexts : Joining(y, x)' => Joining(y, x) \/ home'[y] # Nil
  /\ ~ ResumedByUsers(x) /\ OneWake(x) => OneWake(x)'
  /\ ~ Yields(x) /\ OneRun(x) => OneRun(x)'

LEMMA Handless ==
  ASSUME TypeInv, Homes, NEW x \in Contexts, home[x] = Nil
  PROVE  NoPlace(x) /\ x \notin begun /\ pc[x] # "done" /\ ~ \E y \in Contexts : Joining(y, x)
<1>1. ~ \E y \in Contexts : Joining(y, x)
  BY DEF Homes
<1>2. ~ Called(x)
  BY <1>1 DEF Called, Homes, Joining
<1>3. target[x] = Nil
  BY DEF TypeInv, AtWork
<1>4. ~ Joins(x)
  BY <1>3, Different DEF Joins
<1>5. x \notin begun
  BY DEF Homes
<1>6. pc[x] # "done"
  BY <1>5 DEF TypeInv, AtWork, TypeOK
<1>7. ~ Executes(x)
  BY DEF Executes
<1>8. None(queue, WakesOf(x)) /\ None(ready, {x}) /\ timers[x] = 0
  BY DEF Homes
<1> QED BY <1>1, <1>2, <1>4, <1>5, <1>6, <1>7, <1>8 DEF NoPlace

LEMMA WorkGoes ==
  ASSUME TypeInv, Homes, NEW u \in Callers, NEW x \in Contexts, Work(u, x)
  PROVE  Goes(x)
<1> USE DEF TypeInv
<1>1. PICK c \in Coroutines : Hand(c, x)
  BY DEF Work
<1>2. UNCHANGED <<coVars, pc, begun, dead, joinVars, timers>>
  BY DEF Work
<1>3. home[x] = Nil /\ home'[x] = c /\ c # Nil /\ x \in running'
  BY <1>1, Different DEF Hand, TypeOK
<1>4. NoPlace(x) /\ x \notin begun /\ pc[x] # "done" /\ ~ \E y \in Contexts : Joining(y, x)
  BY <1>3, Handless
<1>5. PICK f \in Posted : f = Function("start", x, Nil)
  BY PostedOf
<1>6. Post(c, f) /\ f.do = "start" /\ f.ctx = x
  BY <1>1, <1>5, FieldsOf DEF Hand
<1>7. \A y \in Contexts : Joining(y, x)' => Joining(y, x)
  BY <1>2, <1>6, JoiningPost DEF joinVars
<1>8. ~ Executes(x)'
  <2>1. current[c] # x
    BY <1>4, Different DEF AtWork
  <2> QED BY <1>2, <1>3, <2>1 DEF Executes, coVars
<1>9. /\ None(ready', {x}) /\ timers'[x] = 0 /\ ~ Called(x)' /\ ~ Joins(x)' /\ pc'[x] # "done"
      /\ ready' = ready /\ todo' = todo /\ target' = target /\ dead' = dead
  BY <1>2, <1>4 DEF coVars, joinVars, NoPlace, Called, Joins
<1>10. OneWake(x)'
  <2>1. One(queue', WakesOf(x))
    BY <1>4, <1>6, PostOne DEF NoPlace
  <2>2. One(ready', {x})
    BY <1>9, NoneIsOne
  <2>3. CalledOnce(x)'
    BY <1>9 DEF CalledOnce, Called
  <2>4. OnePlace(x)'
    BY <1>8, <1>9 DEF OnePlace
  <2>5. JoinsOne(x)'
    BY <1>4, <1>7 DEF JoinsOne
  <2> QED BY <1>9, <2>1, <2>2, <2>3, <2>4, <2>5 DEF OneWake
<1>11. OneRun(x)'
  <2>1. None(queue, FunctionsOf("start", x)) /\ None(queue, FunctionsOf("ready", x))
    BY <1>4, StartsWake, NoneSubset DEF NoPlace
  <2>2. One(queue', FunctionsOf("start", x))
    BY <1>6, <2>1, PostOne
  <2>3. None(queue', FunctionsOf("ready", x))
    <3>1. f \notin FunctionsOf("ready", x)
      BY <1>6, FunctionIs
    <3> QED BY <1>6, <2>1, <3>1, PostKeeps DEF Kept
  <2>4. One(ready', {x})
    BY <1>9, NoneIsOne
  <2> QED BY <1>3, <1>8, <1>9, <2>2, <2>3, <2>4 DEF OneRun
<1> QED BY <1>3, <1>7, <1>10, <1>11 DEF Goes

(* A post about x that is neither its start nor what yield posts.          *)
LEMMA PostStart ==
  ASSUME QueueType, NEW x \in Contexts, NEW c, NEW f \in Posted, Post(c, f),
         f.do \notin {"start", "ready"}
  PROVE  /\ Kept(queue, queue', FunctionsOf("start", x))
         /\ Kept(queue, queue', FunctionsOf("ready", x))
<1>1. f \notin FunctionsOf("start", x) /\ f \notin FunctionsOf("ready", x)
  BY FunctionIs
<1> QED BY <1>1, PostKeeps

(* It keeps OneRun when nothing else makes it start, be ready or execute.  *)
LEMMA RunQuietly ==
  ASSUME NEW x \in Contexts, OneRun(x),
         Kept(queue, queue', FunctionsOf("start", x)),
         Kept(queue, queue', FunctionsOf("ready", x)),
         ready' = ready, Executes(x)' => Executes(x),
         Executes(x) \/ (x \in running => x \in running'),
         Executes(x)' => (x \in running => x \in running'),
         pc'[x] = "done" => pc[x] = "done" \/ (Executes(x) /\ ~ Executes(x)')
  PROVE  OneRun(x)'
<1>1. /\ None(queue, FunctionsOf("start", x)) => None(queue', FunctionsOf("start", x))
      /\ One(queue, FunctionsOf("start", x)) => One(queue', FunctionsOf("start", x))
      /\ None(queue, FunctionsOf("ready", x)) => None(queue', FunctionsOf("ready", x))
  BY DEF Kept
<1> QED BY <1>1 DEF OneRun

LEMMA ResumeGoes ==
  ASSUME TypeInv, Homes, NEW u \in Callers, NEW x \in Contexts, Resume(u, x)
  PROVE  Goes(x)
<1> USE DEF TypeInv
<1>1. ResumedByUsers(x)
  BY DEF Resume, May, ResumedByUsers
<1>2. UNCHANGED <<coVars, home, dead, running, joinVars, timers>> /\ home[x] # Nil
  BY DEF Resume
<1>3. PICK f \in Posted : f = Function("resume", x, Nil)
  BY PostedOf
<1>4. Post(home[x], f) /\ f.do = "resume"
  BY <1>3, FieldsOf DEF Resume
<1>5. \A y \in Contexts : Joining(y, x)' => Joining(y, x)
  BY <1>2, <1>4, JoiningPost DEF joinVars
<1>6. Executes(x)' <=> Executes(x)
  BY <1>2 DEF Executes, coVars
<1>7. pc'[x] = "done" => pc[x] = "done"
  BY DEF Resume, TypeOK, Callers
<1>8. OneRun(x) => OneRun(x)'
  <2>1. /\ Kept(queue, queue', FunctionsOf("start", x))
        /\ Kept(queue, queue', FunctionsOf("ready", x))
    BY <1>4, PostStart
  <2>2. ready' = ready /\ running' = running
    BY <1>2 DEF coVars
  <2> QED BY <1>6, <1>7, <2>1, <2>2, RunQuietly
<1> QED BY <1>1, <1>2, <1>5, <1>8 DEF Goes

(* A switch back of x.                                                     *)
LEMMA BackIs ==
  ASSUME TypeInv, NEW x \in Contexts, Executes(x), SwitchBack(home[x]),
         home' = home, begun' = begun
  PROVE  home'[x] # Nil /\ ready' = ready /\ ~ Executes(x)'
BY SwitchBackType, SwitchBackAtWork DEF TypeInv, Executes

LEMMA YieldGoes ==
  ASSUME TypeInv, Homes, NEW x \in Contexts, Yield(x) \/ EmitYield(x),
         pc[x] = "yield" => Yields(x), pc[x] = "emitYield" => Yields(x)
  PROVE  Goes(x)
<1> USE DEF TypeInv
<1>1. Executes(x) /\ YieldBody(x) /\ pc[x] \in {"user", "yield", "emitYield"}
  BY MayIs DEF Yield, EmitYield
<1>2. SwitchBack(home[x])
  BY <1>1 DEF YieldBody
<1>3. UNCHANGED <<home, begun, dead, joinVars, timers>>
  BY DEF Yield, EmitYield
<1>4. home'[x] # Nil /\ ready' = ready /\ ~ Executes(x)'
  BY <1>1, <1>2, <1>3, BackIs
<1>5. Yields(x)
  BY DEF Yield, EmitYield, May, Yields
<1>6. PICK f \in Posted : f = Function("ready", x, Nil)
  BY PostedOf
<1>7. Post(home[x], f) /\ f.do = "ready"
  BY <1>1, <1>6, FieldsOf DEF YieldBody
<1>8. \A y \in Contexts : Joining(y, x)' => Joining(y, x)
  BY <1>3, <1>7, JoiningPost DEF joinVars
<1>9. pc'[x] # "done"
  <2>1. x \in Callers
    BY DEF Callers
  <2> QED BY <1>1, <2>1 DEF Yield, EmitYield, Goto, TypeOK
<1>10. ASSUME OneWake(x) PROVE OneWake(x)'
  <2>1. None(queue, WakesOf(x)) /\ None(ready, {x}) /\ timers[x] = 0 /\ ~ Called(x) /\ ~ Joins(x)
    BY <1>1, <1>10 DEF OneWake, OnePlace
  <2>2. One(queue', WakesOf(x))
    BY <1>7, <2>1, PostOne
  <2>3. None(ready', {x}) /\ timers'[x] = 0 /\ ~ Called(x)' /\ ~ Joins(x)'
    BY <1>3, <1>4, <2>1 DEF Called, Joins, joinVars
  <2>4. OnePlace(x)'
    BY <1>4, <2>3 DEF OnePlace
  <2>5. CalledOnce(x)' /\ JoinsOne(x)'
    BY <1>3, <1>8, <1>10 DEF OneWake, CalledOnce, JoinsOne, joinVars
  <2>6. One(ready', {x})
    BY <2>3, NoneIsOne
  <2> QED BY <1>9, <2>2, <2>4, <2>5, <2>6 DEF OneWake
<1> QED BY <1>4, <1>5, <1>8, <1>10 DEF Goes

LEMMA PendingGoes ==
  ASSUME TypeInv, Homes, NEW x \in Contexts, Pending(x) \/ Leave(x)
  PROVE  Goes(x)
<1> USE DEF TypeInv
<1>1. Executes(x) /\ SwitchBack(home[x])
  BY MayIs DEF Pending, Leave
<1>2. UNCHANGED <<queue, home, begun, dead, joinVars>>
  BY DEF Pending, Leave
<1>3. home'[x] # Nil /\ ready' = ready /\ ~ Executes(x)'
  BY <1>1, <1>2, BackIs
<1>4. \A y \in Contexts : Joining(y, x)' => Joining(y, x)
  BY <1>2, JoiningSame DEF joinVars
<1>5. OneRun(x) => OneRun(x)'
  BY <1>1, <1>2, <1>3, KeptAll, RunQuietly
<1>6. ASSUME OneWake(x) PROVE OneWake(x)'
  <2>1. None(queue, WakesOf(x)) /\ None(ready, {x}) /\ timers[x] = 0 /\ ~ Called(x) /\ ~ Joins(x)
    BY <1>1, <1>6 DEF OneWake, OnePlace
  <2>2. /\ None(queue', WakesOf(x)) /\ None(ready', {x}) /\ ~ Executes(x)'
        /\ ~ Called(x)' /\ ~ Joins(x)'
    BY <1>2, <1>3, <2>1 DEF Called, Joins, joinVars
  <2>3. OnePlace(x)'
    <3>1. timers' = timers \/ timers' = [timers EXCEPT ![x] = timers[x] + 1]
      BY DEF Pending, Leave
    <3>2. timers \in [Contexts -> Nat]
      BY DEF TypeOK
    <3>3. timers'[x] \in {0, 1}
      BY <2>1, <3>1, <3>2
    <3> QED BY <2>2, <3>3 DEF OnePlace
  <2>4. CalledOnce(x)' /\ JoinsOne(x)'
    BY <1>2, <1>4, <1>6 DEF OneWake, CalledOnce, JoinsOne, joinVars
  <2>5. One(ready', {x}) /\ One(queue', WakesOf(x))
    BY <2>2, NoneIsOne
  <2>6. pc'[x] = "done" => timers'[x] = 0
    <3>1. CASE Pending(x)
      <4>1. pc'[x] = pc[x] /\ pc[x] = "user"
        BY <3>1, MayIs DEF Pending
      <4> QED BY <4>1
    <3>2. CASE Leave(x)
      BY <2>1, <3>2 DEF Leave
    <3> QED BY <3>1, <3>2
  <2>7. pc'[x] = "done" => NoPlace(x)'
    BY <2>2, <2>6 DEF NoPlace
  <2> QED BY <2>3, <2>4, <2>5, <2>7 DEF OneWake
<1> QED BY <1>3, <1>4, <1>5, <1>6 DEF Goes

LEMMA FiresGoes ==
  ASSUME TypeInv, Homes, NEW x \in Contexts, TimerFires(x)
  PROVE  Goes(x)
<1> USE DEF TypeInv
<1>1. UNCHANGED <<coVars, home, pc, dead, running, joinVars>>
  BY DEF TimerFires
<1>2. timers[x] # 0 /\ timers'[x] = timers[x] - 1 /\ home[x] # Nil
  <2>1. timers \in [Contexts -> Nat] /\ timers' = [timers EXCEPT ![x] = timers[x] - 1]
    BY DEF TimerFires, TypeOK
  <2>2. timers[x] # 0
    BY DEF TimerFires
  <2>3. home[x] # Nil
    BY <2>2 DEF Homes
  <2> QED BY <2>1, <2>2, <2>3
<1>3. PICK f \in Posted : f = Function("timeout", x, Nil)
  BY PostedOf
<1>4. Post(home[x], f) /\ f.do = "timeout"
  BY <1>3, FieldsOf DEF TimerFires
<1>5. \A y \in Contexts : Joining(y, x)' => Joining(y, x)
  BY <1>1, <1>4, JoiningPost DEF joinVars
<1>6. Executes(x)' <=> Executes(x)
  BY <1>1 DEF Executes, coVars
<1>7. OneRun(x) => OneRun(x)'
  <2>1. /\ Kept(queue, queue', FunctionsOf("start", x))
        /\ Kept(queue, queue', FunctionsOf("ready", x))
    BY <1>4, PostStart
  <2>2. ready' = ready /\ running' = running /\ pc' = pc
    BY <1>1 DEF coVars
  <2> QED BY <1>6, <2>1, <2>2, RunQuietly
<1>8. ASSUME OneWake(x) PROVE OneWake(x)'
  <2>1. /\ None(queue, WakesOf(x)) /\ None(ready, {x}) /\ ~ Executes(x) /\ ~ Called(x) /\ ~ Joins(x)
        /\ pc[x] # "done"
    BY <1>2, <1>8 DEF OneWake, OnePlace, NoPlace
  <2>2. One(queue', WakesOf(x))
    BY <1>4, <2>1, PostOne
  <2>3. /\ None(ready', {x}) /\ ~ Executes(x)' /\ ~ Called(x)' /\ ~ Joins(x)'
        /\ pc'[x] # "done"
    BY <1>1, <1>6, <2>1 DEF Called, Joins, coVars, joinVars
  <2>4. OnePlace(x)'
    <3>1. timers[x] = 1
      BY <1>2, <1>8 DEF OneWake, OnePlace
    <3>2. timers'[x] = 0
      BY <1>2, <3>1
    <3> QED BY <2>3, <3>2 DEF OnePlace
  <2>5. CalledOnce(x)' /\ JoinsOne(x)'
    BY <1>1, <1>5, <1>8 DEF OneWake, CalledOnce, JoinsOne, joinVars
  <2>6. One(ready', {x})
    BY <2>3, NoneIsOne
  <2> QED BY <2>2, <2>3, <2>4, <2>5, <2>6 DEF OneWake
<1> QED BY <1>1, <1>2, <1>5, <1>7, <1>8 DEF Goes

LEMMA JoinGoes ==
  ASSUME TypeInv, Homes, NEW x \in Contexts, NEW y \in Contexts, Join(x, y), y \notin dead
  PROVE  Goes(x)
<1> USE DEF TypeInv
<1>1. Executes(x) /\ SwitchBack(home[x]) /\ pc[x] = "user" /\ home[y] # Nil
  BY MayIs DEF Join
<1>2. UNCHANGED <<home, pc, begun, dead, todo, timers>>
  BY DEF Join
<1>3. home'[x] # Nil /\ ready' = ready /\ ~ Executes(x)'
  BY <1>1, <1>2, BackIs
<1>4. target[x] = Nil /\ target'[x] = y
  <2>1. target' = [target EXCEPT ![x] = y]
    BY DEF Join
  <2> QED BY <1>1, <2>1 DEF AtWork, TypeOK, Callers
<1>5. \/ waiters' = [waiters EXCEPT ![y] = waiters[y] \cup {x}] /\ queue' = queue
      \/ waiters' = waiters /\ Post(home[y], Function("register", y, x))
  BY DEF Join
<1>6. PICK f \in Posted : f = Function("register", y, x)
  BY PostedOf
<1>7. f.do = "register" /\ f.ctx = y
  BY <1>6, FieldsOf
<1>8. \A w \in Contexts : Joining(w, x)' => Joining(w, x) \/ w = y
  <2>1. SUFFICES ASSUME NEW w \in Contexts, w # y, Joining(w, x)' PROVE Joining(w, x)
    OBVIOUS
  <2>2. waiters'[w] = waiters[w]
    BY <1>5, <2>1 DEF TypeOK
  <2>3. Kept(queue, queue', Registers(w, x))
    <3>1. f \notin Registers(w, x)
      BY <1>7, <2>1, FunctionIs
    <3> QED BY <1>5, <1>6, <3>1, KeptAll, PostKeeps
  <2> QED BY <2>1, <2>2, <2>3 DEF Joining, Kept
<1>9. /\ Kept(queue, queue', FunctionsOf("start", x))
      /\ Kept(queue, queue', FunctionsOf("ready", x))
      /\ Kept(queue, queue', WakesOf(x))
  <2>1. /\ f \notin FunctionsOf("start", x) /\ f \notin FunctionsOf("ready", x)
        /\ f \notin WakesOf(x)
    BY <1>7, FunctionIs DEF Waking
  <2> QED BY <1>5, <1>6, <2>1, KeptAll, PostKeeps
<1>10. OneRun(x) => OneRun(x)'
  BY <1>1, <1>2, <1>3, <1>9, RunQuietly
<1>11. ASSUME OneWake(x) PROVE OneWake(x)'
  <2>1. None(queue, WakesOf(x)) /\ None(ready, {x}) /\ timers[x] = 0 /\ ~ Called(x)
    BY <1>1, <1>11 DEF OneWake, OnePlace
  <2>2. /\ None(queue', WakesOf(x)) /\ None(ready', {x}) /\ ~ Executes(x)'
        /\ timers'[x] = 0 /\ ~ Called(x)' /\ pc'[x] # "done"
    BY <1>1, <1>2, <1>3, <1>9, <2>1 DEF Called, Kept
  <2>3. OnePlace(x)'
    BY <2>2 DEF OnePlace
  <2>4. JoinsOne(x)'
    <3>1. \A w \in Contexts \ dead : Joining(w, x) => target[x] = w
      BY <1>11 DEF OneWake, JoinsOne
    <3>2. \A w \in Contexts \ dead : ~ Joining(w, x)
      BY <1>4, <3>1, Different
    <3> QED BY <1>2, <1>4, <1>8, <3>2 DEF JoinsOne
  <2>5. CalledOnce(x)'
    BY <1>2, <1>11 DEF OneWake, CalledOnce
  <2>6. One(ready', {x}) /\ One(queue', WakesOf(x))
    BY <2>2, NoneIsOne
  <2> QED BY <2>2, <2>3, <2>4, <2>5, <2>6 DEF OneWake
<1>12. home'[y] # Nil
  BY <1>1, <1>2
<1> QED BY <1>3, <1>8, <1>10, <1>11, <1>12 DEF Goes

LEMMA CompleteGoes ==
  ASSUME TypeInv, Homes, NEW z \in Contexts, Complete(z), NEW x \in Contexts, x \in waiters[z]
  PROVE  Goes(x)
<1> USE DEF TypeInv
<1>1. UNCHANGED <<queue, coVars, home, running, waiters, target, timers>>
  BY DEF Complete
<1>2. Executes(x)' <=> Executes(x)
  BY <1>1 DEF Executes, coVars
<1>3. \A y \in Contexts : todo'[y] = IF y = z THEN waiters[z] ELSE todo[y]
  BY DEF Complete, TypeOK
<1>4. pc'[x] = "done" => pc[x] = "done"
  <2>1. x \in Callers
    BY DEF Callers
  <2>2. pc'[x] = IF x = z THEN "emit"
                 ELSE IF pc[x] = "asleep" /\ target[x] = z THEN "test" ELSE pc[x]
    BY <2>1 DEF Complete
  <2> QED BY <2>2
<1>5. dead' = dead \cup {z} /\ z \notin dead
  BY DEF Complete, AtWork
<1>6. Joining(z, x) /\ home'[x] # Nil
  BY <1>1 DEF Joining, Homes
<1>7. \A y \in Contexts : Joining(y, x)' => Joining(y, x)
  BY <1>1, JoiningSame
<1>8. ready' = ready
  BY <1>1 DEF coVars
<1>9. OneRun(x) => OneRun(x)'
  BY <1>1, <1>2, <1>4, <1>8, KeptAll, RunQuietly
<1>10. ASSUME OneWake(x) PROVE OneWake(x)'
  <2>1. target[x] = z
    BY <1>5, <1>6, <1>10 DEF OneWake, JoinsOne
  <2>2. Joins(x) /\ ~ Joins(x)'
    BY <1>1, <1>5, <2>1 DEF Joins
  <2>3. /\ None(queue, WakesOf(x)) /\ None(ready, {x}) /\ ~ Executes(x)
        /\ timers[x] = 0 /\ ~ Called(x) /\ pc[x] # "done"
    BY <1>10, <2>2 DEF OneWake, OnePlace, NoPlace
  <2>4. /\ None(queue', WakesOf(x)) /\ None(ready', {x}) /\ ~ Executes(x)'
        /\ timers'[x] = 0 /\ pc'[x] # "done"
    BY <1>1, <1>2, <1>4, <1>8, <2>3
  <2>5. OnePlace(x)'
    BY <2>2, <2>4 DEF OnePlace
  <2>6. CalledOnce(x)'
    BY <1>3, <2>3 DEF CalledOnce, Called
  <2>7. JoinsOne(x)'
    BY <1>1, <1>5, <1>7, <1>10 DEF OneWake, JoinsOne
  <2>8. One(ready', {x}) /\ One(queue', WakesOf(x))
    BY <2>4, NoneIsOne
  <2> QED BY <2>4, <2>5, <2>6, <2>7, <2>8 DEF OneWake
<1> QED BY <1>6, <1>7, <1>9, <1>10 DEF Goes

LEMMA SlotGoes ==
  ASSUME TypeInv, Homes, NEW z \in Contexts, Slot(z), NEW x \in Contexts, x \in todo[z],
         todo' = [todo EXCEPT ![z] = @ \ {x}]
  PROVE  Goes(x)
<1> USE DEF TypeInv
<1>1. UNCHANGED <<coVars, running, home, dead, waiters, target, timers>>
  BY DEF Slot, coVars
<1>2. /\ home'[x] # Nil
      /\ \A y \in Contexts : todo'[y] = IF y = z THEN todo[z] \ {x} ELSE todo[y]
  <2>1. Joining(z, x)
    BY DEF Homes, Joining
  <2> QED BY <1>1, <2>1 DEF Homes, TypeOK
<1>3. PICK f \in Posted : \E c : Post(c, f) /\ f.ctx = x /\ f.do \in {"slot", "resume"}
  <2>1. PICK j \in todo[z] :
       /\ todo' = [todo EXCEPT ![z] = @ \ {j}]
       /\ \/ j = Watch
          \/ Post(SlotLoop(j, z), Function("slot", j, Nil))
          \/ Post(home[j], Function("resume", j, Nil))
    BY DEF Slot
  <2>2. j = x
    <3>1. todo'[z] = todo[z] \ {j}
      BY <2>1 DEF TypeOK
    <3> QED BY <1>2, <3>1
  <2>3. x # Watch
    BY CoroutineAssumption
  <2>4. CASE Post(SlotLoop(j, z), Function("slot", j, Nil))
    BY <2>2, <2>4, PostedOf, FieldsOf
  <2>5. CASE Post(home[j], Function("resume", j, Nil))
    BY <2>2, <2>5, PostedOf, FieldsOf
  <2> QED BY <2>1, <2>2, <2>3, <2>4, <2>5
<1>4. \A y \in Contexts : Joining(y, x)' => Joining(y, x)
  BY <1>1, <1>3, JoiningPost
<1>5. Executes(x)' <=> Executes(x)
  BY <1>1 DEF Executes, coVars
<1>6. pc'[x] = "done" => pc[x] = "done"
  <2>1. pc' = pc \/ Goto(z, "emitYield")
    BY DEF Slot
  <2> QED BY <2>1 DEF Goto, TypeOK, Callers
<1>7. ready' = ready
  BY <1>1 DEF coVars
<1>8. OneRun(x) => OneRun(x)'
  <2>1. /\ Kept(queue, queue', FunctionsOf("start", x))
        /\ Kept(queue, queue', FunctionsOf("ready", x))
    BY <1>3, PostStart
  <2> QED BY <1>1, <1>5, <1>6, <1>7, <2>1, RunQuietly
<1>9. ASSUME OneWake(x) PROVE OneWake(x)'
  <2>1. Called(x)
    BY DEF Called
  <2>2. /\ None(queue, WakesOf(x)) /\ None(ready, {x}) /\ ~ Executes(x)
        /\ timers[x] = 0 /\ ~ Joins(x) /\ pc[x] # "done"
    BY <1>9, <2>1 DEF OneWake, OnePlace, NoPlace
  <2>3. ~ Called(x)'
    BY <1>2, <1>9 DEF OneWake, CalledOnce, Called
  <2>4. /\ None(ready', {x}) /\ ~ Executes(x)' /\ timers'[x] = 0 /\ ~ Joins(x)'
        /\ pc'[x] # "done"
    BY <1>1, <1>5, <1>6, <1>7, <2>2 DEF Joins
  <2>5. One(queue', WakesOf(x))
    BY <1>3, <2>2, PostOne
  <2>6. OnePlace(x)'
    BY <2>3, <2>4 DEF OnePlace
  <2>7. CalledOnce(x)'
    BY <2>3 DEF CalledOnce, Called
  <2>8. JoinsOne(x)'
    BY <1>1, <1>4, <1>9 DEF OneWake, JoinsOne
  <2>9. One(ready', {x})
    BY <2>4, NoneIsOne
  <2> QED BY <2>4, <2>5, <2>6, <2>7, <2>8, <2>9 DEF OneWake
<1> QED BY <1>2, <1>4, <1>8, <1>9 DEF Goes

LEMMA SwitchGoes ==
  ASSUME TypeInv, Homes, NEW c \in Coroutines, Switch(c), NEW x \in Contexts, Switches(c, x)
  PROVE  Goes(x)
<1> USE DEF TypeInv
<1>1. UNCHANGED <<queue, home, timers, todo, waiters, dead, running>>
  BY DEF Switch
<1>2. /\ ready \in [Coroutines -> Seq(Contexts)] /\ ready[c] # <<>> /\ x = Head(ready[c])
      /\ ready' = [ready EXCEPT ![c] = Tail(ready[c])]
  BY DEF Switches, TypeOK
<1>3. ~ None(ready, {x})
  <2>1. 1 \in DOMAIN ready[c] /\ ready[c][1] = x
    BY <1>2, HeadTailProperties, LenProperties, EmptySeq
  <2> QED BY <2>1 DEF None
<1>4. home'[x] # Nil
  BY <1>1, <1>3 DEF Homes
<1>5. \A y \in Contexts : Joining(y, x)' => Joining(y, x)
  BY <1>1, JoiningSame
<1>6. One(ready, {x}) => None(ready', {x})
  BY <1>2, TakeKeeps
<1>7. pc[x] # "done" => pc'[x] # "done"
  BY DEF Switches, TypeOK, Callers
<1>8. target'[x] = Nil
  BY DEF Switches, TypeOK, Callers
<1>9. ASSUME OneRun(x) PROVE OneRun(x)'
  <2>1. /\ None(queue, FunctionsOf("start", x)) /\ None(queue, FunctionsOf("ready", x))
        /\ x \in running /\ pc[x] # "done" /\ One(ready, {x})
    BY <1>3, <1>9 DEF OneRun
  <2>2. /\ None(queue', FunctionsOf("start", x)) /\ None(queue', FunctionsOf("ready", x))
        /\ x \in running' /\ pc'[x] # "done" /\ None(ready', {x})
    BY <1>1, <1>6, <1>7, <2>1
  <2>3. One(ready', {x}) /\ One(queue', FunctionsOf("start", x))
    BY <2>2, NoneIsOne
  <2> QED BY <2>2, <2>3 DEF OneRun
<1>10. ASSUME OneWake(x) PROVE OneWake(x)'
  <2>1. /\ None(queue, WakesOf(x)) /\ timers[x] = 0 /\ ~ Called(x) /\ ~ Joins(x)
        /\ pc[x] # "done" /\ One(ready, {x})
    BY <1>3, <1>10 DEF OneWake, OnePlace, NoPlace
  <2>2. /\ None(queue', WakesOf(x)) /\ timers'[x] = 0 /\ ~ Called(x)' /\ ~ Joins(x)'
        /\ pc'[x] # "done" /\ None(ready', {x})
    BY <1>1, <1>6, <1>7, <1>8, <2>1, Different DEF Called, Joins
  <2>3. OnePlace(x)'
    BY <2>2 DEF OnePlace
  <2>4. JoinsOne(x)'
    <3>1. \A y \in Contexts \ dead : ~ Joining(y, x)
      BY <1>10, <2>1 DEF OneWake, JoinsOne, Joins
    <3> QED BY <1>1, <1>5, <3>1 DEF JoinsOne
  <2>5. CalledOnce(x)'
    BY <1>1, <1>10 DEF OneWake, CalledOnce
  <2>6. One(ready', {x}) /\ One(queue', WakesOf(x))
    BY <2>2, NoneIsOne
  <2> QED BY <2>2, <2>3, <2>4, <2>5, <2>6 DEF OneWake
<1> QED BY <1>4, <1>5, <1>9, <1>10 DEF Goes

LEMMA RunGoes ==
  ASSUME TypeInv, Homes, NEW c \in Coroutines, RunFunction(c), NEW f \in Posted, Runs(c, f),
         NEW x \in Contexts, f.do \in Waking, f.ctx = x
  PROVE  Goes(x)
<1> USE DEF TypeInv
<1>1. UNCHANGED <<current, home, timers, todo, target, dead, pc>>
  BY DEF RunFunction
<1>2. \A d \in Coroutines : at'[d] = "context" => at[d] = "context"
  BY DEF RunFunction, CoGoto, TypeOK
<1>3. Executes(x)' => Executes(x)
  BY <1>1, <1>2 DEF Executes, TypeOK
<1>4. f \in WakesOf(x) /\ ~ None(queue, WakesOf(x))
  BY FunctionIs, RunQueue
<1>5. home'[x] # Nil
  BY <1>1, <1>4 DEF Homes
<1>6. \A y \in Contexts : Joining(y, x)' => Joining(y, x)
  BY JoiningRun DEF Waking
<1>7. \/ Readies(c, f) /\ ready' = [ready EXCEPT ![c] = Append(ready[c], x)]
      \/ ~ Readies(c, f) /\ ready' = ready
  BY DEF Runs
<1>8. None(ready, {x}) => One(ready', {x})
  <2>1. ready \in [Coroutines -> Seq(Contexts)]
    BY DEF TypeOK
  <2>2. CASE ready' = ready
    BY <2>2, NoneIsOne
  <2>3. CASE ready' = [ready EXCEPT ![c] = Append(ready[c], x)]
    BY <2>1, <2>3, PutOne
  <2> QED BY <1>7, <2>2, <2>3
<1>9. x \in running => x \in running'
  BY DEF Runs
<1>10. ASSUME OneWake(x) PROVE OneWake(x)'
  <2>1. /\ None(ready, {x}) /\ ~ Executes(x) /\ timers[x] = 0 /\ ~ Called(x) /\ ~ Joins(x)
        /\ pc[x] # "done" /\ One(queue, WakesOf(x))
    BY <1>4, <1>10 DEF OneWake, OnePlace, NoPlace
  <2>2. /\ ~ Executes(x)' /\ timers'[x] = 0 /\ ~ Called(x)' /\ ~ Joins(x)'
        /\ pc'[x] # "done"
    BY <1>1, <1>3, <2>1 DEF Called, Joins
  <2>3. \/ None(queue', WakesOf(x))
        \/ One(queue', WakesOf(x)) /\ None(ready', {x})
    <3>1. CASE f.do \in Resuming
      <4>1. ~ Readies(c, f)
        BY <3>1 DEF Readies, Resuming
      <4> QED BY <1>4, <1>7, <2>1, <3>1, <4>1, RunQueue
    <3>2. CASE f.do \notin Resuming
      BY <1>4, <2>1, <3>2, RunQueue
    <3> QED BY <3>1, <3>2
  <2>4. One(queue', WakesOf(x)) /\ One(ready', {x})
    BY <1>8, <2>1, <2>3, NoneIsOne
  <2>5. OnePlace(x)'
    BY <2>2, <2>3 DEF OnePlace
  <2>6. JoinsOne(x)'
    BY <1>1, <1>6, <1>10 DEF OneWake, JoinsOne
  <2>7. CalledOnce(x)'
    BY <1>1, <1>10 DEF OneWake, CalledOnce
  <2> QED BY <2>2, <2>4, <2>5, <2>6, <2>7 DEF OneWake
<1>11. ASSUME OneRun(x) PROVE OneRun(x)'
  <2>1. f.do # "ready"
    <3>1. f.do = "ready" => f \in FunctionsOf("ready", x)
      BY FunctionIs
    <3> QED BY <1>11, <3>1, RunQueue DEF OneRun
  <2>2. /\ Kept(queue, queue', FunctionsOf("start", x))
        /\ Kept(queue, queue', FunctionsOf("ready", x))
    <3>1. f.do \in Resuming => /\ Resumption(f) \notin FunctionsOf("start", x)
                           /\ Resumption(f) \notin FunctionsOf("ready", x)
      <4>1. f.do \in Resuming => Resumption(f) \in Posted /\ Resumption(f).do = "resume"
        BY PostedIs, PostedOf, FieldsOf DEF Resuming, Resumption
      <4> QED BY <4>1, FunctionIs
    <3> QED BY <3>1, RunQueue
  <2>3. CASE ~ Readies(c, f)
    <3>1. ready' = ready
      BY <1>7, <2>3
    <3> QED BY <1>1, <1>3, <1>9, <1>11, <2>2, <3>1, RunQuietly
  <2>4. CASE Readies(c, f) /\ f.do = "start"
    <3>1. f \in FunctionsOf("start", x)
      BY <2>4, FunctionIs
    <3>2. ~ None(queue, FunctionsOf("start", x))
      BY <3>1, RunQueue
    <3>3. /\ None(ready, {x}) /\ ~ Executes(x) /\ x \in running /\ pc[x] # "done"
          /\ One(queue, FunctionsOf("start", x)) /\ None(queue, FunctionsOf("ready", x))
      BY <1>11, <3>2 DEF OneRun
    <3>4. None(queue', FunctionsOf("start", x))
      BY <2>4, <3>1, <3>3, RunQueue DEF Resuming
    <3>5. /\ One(queue', FunctionsOf("start", x)) /\ One(ready', {x})
          /\ None(queue', FunctionsOf("ready", x))
      BY <1>8, <2>2, <3>3, <3>4, NoneIsOne DEF Kept
    <3> QED BY <1>1, <1>3, <1>9, <3>3, <3>4, <3>5 DEF OneRun
  <2>5. CASE Readies(c, f) /\ f.do = "resume"
    <3>1. x \notin running /\ x \notin dead
      BY <2>5 DEF Readies, Resumable
    <3>2. x \in running'
      BY <2>5 DEF Runs
    <3>3. pc[x] # "done"
      BY <3>1 DEF AtWork
    <3>4. /\ None(ready, {x}) /\ ~ Executes(x) /\ None(queue, FunctionsOf("start", x))
          /\ None(queue, FunctionsOf("ready", x))
      BY <1>11, <3>1 DEF OneRun
    <3>5. None(queue', FunctionsOf("start", x)) /\ None(queue', FunctionsOf("ready", x))
      BY <2>2, <3>4 DEF Kept
    <3>6. One(queue', FunctionsOf("start", x)) /\ One(ready', {x})
      BY <1>8, <3>4, <3>5, NoneIsOne
    <3> QED BY <1>1, <1>3, <3>2, <3>3, <3>4, <3>5, <3>6 DEF OneRun
  <2> QED BY <2>1, <2>3, <2>4, <2>5 DEF Readies
<1> QED BY <1>5, <1>6, <1>10, <1>11 DEF Goes
-----------------------------------------------------------------------------
(* All steps.                                                              *)

(* What yields from a label other than the user's has somebody to yield to.*)
Yielding == \A x \in Contexts : pc[x] \in {"yield", "emitYield"} => Yields(x)

LEMMA StepGoes ==
  ASSUME TypeInv, Homes, Yielding, [Next]_vars, NEW x \in Contexts
  PROVE  Unmoved(x) \/ Goes(x)
<1>1. ASSUME NEW c \in Coroutines, RunFunction(c) PROVE Unmoved(x) \/ Goes(x)
  <2>1. PICK f \in Posted : Runs(c, f)
    BY <1>1, RunIs
  <2>2. CASE f.do \in Waking /\ f.ctx = x
    BY <1>1, <2>1, <2>2, RunGoes
  <2>3. CASE f.do \in Waking => f.ctx # x
    BY <1>1, <2>1, <2>3, OthersRun
  <2> QED BY <2>2, <2>3
<1>2. ASSUME NEW c \in Coroutines, Switch(c) PROVE Unmoved(x) \/ Goes(x)
  <2>1. PICK z \in Contexts : Switches(c, z)
    BY <1>2, SwitchIs
  <2> QED BY <1>2, <2>1, SwitchGoes, OthersSwitch
<1>3. ASSUME NEW c \in Coroutines, Top(c) \/ Drained(c) \/ EndThread(c) \/ Delete(c)
      PROVE  Unmoved(x)
  BY <1>3, OthersSteps, OthersDelete
<1>4. ASSUME NEW t \in Threads, NEW c \in Coroutines, NewInstance(t, c) PROVE Unmoved(x)
  BY <1>4, OthersSteps
<1>5. ASSUME NEW z \in Contexts, Complete(z) PROVE Unmoved(x) \/ Goes(x)
  BY <1>5, OthersComplete, CompleteGoes
<1>6. ASSUME NEW z \in Contexts, Slot(z) PROVE Unmoved(x) \/ Goes(x)
  BY <1>6, OthersSlot, SlotGoes
<1>7. ASSUME NEW z \in Contexts, EmitYield(z) \/ Yield(z) PROVE Unmoved(x) \/ Goes(x)
  <2>1. (pc[z] = "yield" => Yields(z)) /\ (pc[z] = "emitYield" => Yields(z))
    BY DEF Yielding
  <2> QED BY <1>7, <2>1, YieldGoes, OthersYield
<1>8. ASSUME NEW z \in Contexts, Leave(z) \/ Pending(z) PROVE Unmoved(x) \/ Goes(x)
  BY <1>8, PendingGoes, OthersPending
<1>9. ASSUME NEW z \in Contexts, TimerFires(z) PROVE Unmoved(x) \/ Goes(x)
  BY <1>9, FiresGoes, OthersFires
<1>10. ASSUME NEW z \in Contexts, NEW y \in Contexts, Join(z, y) PROVE Unmoved(x) \/ Goes(x)
  BY <1>10, JoinGoes, OthersJoin
<1>11. ASSUME NEW t \in Threads,
             ThreadStep(t) \/ (\E y \in Contexts : ThreadJoin(t, y))
               \/ (\E c \in Coroutines : DeleteLater(t, c))
       PROVE  Unmoved(x)
  BY <1>11, OthersThreads
<1>12. ASSUME NEW u \in Callers, NEW z \in Contexts, Work(u, z) PROVE Unmoved(x) \/ Goes(x)
  BY <1>12, WorkGoes, OthersWork
<1>13. ASSUME NEW u \in Callers, NEW z \in Contexts, Resume(u, z) PROVE Unmoved(x) \/ Goes(x)
  BY <1>13, ResumeGoes, OthersResume
<1>14. UNCHANGED vars => Unmoved(x)
  BY OthersSame
<1> QED BY <1>1, <1>2, <1>3, <1>4, <1>5, <1>6, <1>7, <1>8, <1>9, <1>10, <1>11, <1>12, <1>13,
           <1>14, StepCases

(* Contexts stay with their coroutines, and connections are not removed.   *)
LEMMA StepGrows ==
  ASSUME TypeInv, Homes, [Next]_vars
  PROVE  \A x \in Contexts :
           /\ home[x] # Nil => home'[x] = home[x]
           /\ waiters[x] \subseteq waiters'[x]
           /\ todo'[x] \subseteq waiters'[x]
           /\ x \in begun' => x \in begun \/ home[x] # Nil
<1> USE DEF TypeInv
<1>0. \A x \in Contexts : todo[x] \subseteq waiters[x]
  BY DEF Homes
<1>1. ASSUME UNCHANGED <<home, waiters, todo, begun>>
      PROVE  \A x \in Contexts :
               /\ home[x] # Nil => home'[x] = home[x]
               /\ waiters[x] \subseteq waiters'[x]
               /\ todo'[x] \subseteq waiters'[x]
               /\ x \in begun' => x \in begun \/ home[x] # Nil
  BY <1>0, <1>1
<1>2. ASSUME NEW c \in Coroutines,
             Top(c) \/ Drained(c) \/ EndThread(c) \/ Delete(c)
               \/ (\E t \in Threads : NewInstance(t, c))
      PROVE  UNCHANGED <<home, waiters, todo, begun>>
  BY <1>2 DEF Top, Drained, EndThread, Delete, NewInstance, joinVars
<1>3. ASSUME NEW c \in Coroutines, RunFunction(c)
      PROVE  \A x \in Contexts :
               /\ home[x] # Nil => home'[x] = home[x]
               /\ waiters[x] \subseteq waiters'[x]
               /\ todo'[x] \subseteq waiters'[x]
               /\ x \in begun' => x \in begun \/ home[x] # Nil
  <2>1. UNCHANGED <<home, todo, begun>>
    BY <1>3 DEF RunFunction
  <2>2. PICK f \in Posted : Runs(c, f)
    BY <1>3, RunIs
  <2>3. CASE waiters' = waiters
    BY <1>0, <2>1, <2>3
  <2>4. CASE waiters' # waiters
    <3>1. /\ f.ctx \in Contexts
          /\ waiters' = [waiters EXCEPT ![f.ctx] = waiters[f.ctx] \cup {f.who}]
      BY <2>2, <2>4 DEF Runs
    <3>2. \A x \in Contexts : waiters'[x] \in {waiters[x], waiters[x] \cup {f.who}}
      BY <3>1 DEF TypeOK
    <3> QED BY <1>0, <2>1, <3>2
  <2> QED BY <2>3, <2>4
<1>4. ASSUME NEW c \in Coroutines, Switch(c)
      PROVE  \A x \in Contexts :
               /\ home[x] # Nil => home'[x] = home[x]
               /\ waiters[x] \subseteq waiters'[x]
               /\ todo'[x] \subseteq waiters'[x]
               /\ x \in begun' => x \in begun \/ home[x] # Nil
  <2>1. PICK z \in Contexts : Switches(c, z)
    BY <1>4, SwitchIs
  <2>2. UNCHANGED <<home, waiters, todo>> /\ begun' = begun \cup {z}
    BY <1>4, <2>1 DEF Switch, Switches
  <2>3. home[z] # Nil
    <3>1. 1 \in DOMAIN ready[c] /\ ready[c][1] = z
      BY <2>1, HeadTailProperties, LenProperties, EmptySeq DEF Switches
    <3> QED BY <3>1 DEF Homes, None
  <2> QED BY <1>0, <2>2, <2>3
<1>5. ASSUME NEW z \in Contexts,
             EmitYield(z) \/ Leave(z) \/ Yield(z) \/ Pending(z) \/ TimerFires(z)
      PROVE  UNCHANGED <<home, waiters, todo, begun>>
  BY <1>5 DEF EmitYield, Leave, Yield, Pending, TimerFires, joinVars
<1>6. ASSUME NEW z \in Contexts, Complete(z) \/ Slot(z)
      PROVE  \A x \in Contexts :
               /\ home[x] # Nil => home'[x] = home[x]
               /\ waiters[x] \subseteq waiters'[x]
               /\ todo'[x] \subseteq waiters'[x]
               /\ x \in begun' => x \in begun \/ home[x] # Nil
  <2>1. UNCHANGED <<home, waiters, begun>>
    BY <1>6 DEF Complete, Slot
  <2>2. CASE Complete(z)
    <3>1. todo' = [todo EXCEPT ![z] = waiters[z]]
      BY <2>2 DEF Complete
    <3>2. \A x \in Contexts : todo'[x] \in {todo[x], waiters[x]}
      BY <3>1 DEF TypeOK
    <3> QED BY <1>0, <2>1, <3>2
  <2>3. CASE Slot(z)
    <3>1. PICK j \in todo[z] : todo' = [todo EXCEPT ![z] = todo[z] \ {j}]
      BY <2>3 DEF Slot
    <3>2. \A x \in Contexts : todo'[x] \in {todo[x], todo[x] \ {j}}
      BY <3>1 DEF TypeOK
    <3> QED BY <1>0, <2>1, <3>2
  <2> QED BY <1>6, <2>2, <2>3
<1>7. ASSUME NEW z \in Contexts, NEW y \in Contexts, Join(z, y)
      PROVE  \A x \in Contexts :
               /\ home[x] # Nil => home'[x] = home[x]
               /\ waiters[x] \subseteq waiters'[x]
               /\ todo'[x] \subseteq waiters'[x]
               /\ x \in begun' => x \in begun \/ home[x] # Nil
  <2>1. UNCHANGED <<home, todo, begun>>
    BY <1>7 DEF Join
  <2>2. waiters' = waiters \/ waiters' = [waiters EXCEPT ![y] = waiters[y] \cup {z}]
    BY <1>7 DEF Join
  <2>3. \A x \in Contexts : waiters'[x] \in {waiters[x], waiters[x] \cup {z}}
    BY <2>2 DEF TypeOK
  <2> QED BY <1>0, <2>1, <2>3
<1>8. ASSUME NEW t \in Threads,
             ThreadStep(t) \/ (\E y \in Contexts : ThreadJoin(t, y))
               \/ (\E c \in Coroutines : DeleteLater(t, c))
       PROVE UNCHANGED <<home, waiters, todo, begun>>
  BY <1>8 DEF ThreadStep, ThreadWaits, Terminate, UseLoop, ThreadJoin, DeleteLater, joinVars
<1>9. ASSUME NEW u \in Callers, NEW z \in Contexts, Work(u, z) \/ Resume(u, z)
      PROVE  \A x \in Contexts :
               /\ home[x] # Nil => home'[x] = home[x]
               /\ waiters[x] \subseteq waiters'[x]
               /\ todo'[x] \subseteq waiters'[x]
               /\ x \in begun' => x \in begun \/ home[x] # Nil
  <2>1. UNCHANGED <<waiters, todo, begun>>
    BY <1>9 DEF Work, Resume, joinVars
  <2>2. \A x \in Contexts : home[x] # Nil => home'[x] = home[x]
    BY <1>9 DEF Work, Resume, Hand, TypeOK
  <2> QED BY <1>0, <2>1, <2>2
<1>10. UNCHANGED vars => UNCHANGED <<home, waiters, todo, begun>>
  BY DEF vars, joinVars
<1> QED BY <1>1, <1>2, <1>3, <1>4, <1>5, <1>6, <1>7, <1>8, <1>9, <1>10, StepCases

LEMMA YieldsStay ==
  ASSUME TypeInv, Homes, [Next]_vars, NEW x \in Contexts, Yields(x)
  PROVE  Yields(x)'
<1>1. CASE \E call \in Calls : call[1] = x /\ call[2] \in {"yield", "resume"}
  BY <1>1 DEF Yields
<1>2. CASE \E j \in waiters[x] \ {Watch} : home[j] = home[x]
  <2>1. PICK j \in waiters[x] \ {Watch} : home[j] = home[x]
    BY <1>2
  <2>2. j \in Contexts
    BY <2>1 DEF TypeInv, TypeOK
  <2>3. home[x] # Nil /\ home[j] # Nil
    BY <2>1, <2>2 DEF Homes, Joining
  <2>4. home'[x] = home[x] /\ home'[j] = home[j] /\ j \in waiters'[x]
    BY <2>1, <2>2, <2>3, StepGrows
  <2> QED BY <2>1, <2>4 DEF Yields
<1> QED BY <1>1, <1>2 DEF Yields

LEMMA HomesStep == ASSUME TypeInv, Homes, Yielding, [Next]_vars PROVE Homes'
<1>1. SUFFICES ASSUME NEW x \in Contexts
               PROVE  /\ home'[x] = Nil => /\ None(queue', WakesOf(x)) /\ None(ready', {x})
                                           /\ timers'[x] = 0 /\ x \notin begun'
                      /\ \A y \in Contexts : Joining(y, x)' => home'[x] # Nil /\ home'[y] # Nil
                      /\ todo'[x] \subseteq waiters'[x]
  BY DEF Homes
<1>2. /\ \A y \in Contexts : home[y] # Nil => home'[y] = home[y]
      /\ todo'[x] \subseteq waiters'[x]
      /\ x \in begun' => x \in begun \/ home[x] # Nil
  BY StepGrows
<1>3. /\ home[x] = Nil => /\ None(queue, WakesOf(x)) /\ None(ready, {x})
                          /\ timers[x] = 0 /\ x \notin begun
      /\ \A y \in Contexts : Joining(y, x) => home[x] # Nil /\ home[y] # Nil
  BY DEF Homes
<1>4. CASE Goes(x)
  <2>1. home'[x] # Nil /\ \A y \in Contexts : Joining(y, x)' => Joining(y, x) \/ home'[y] # Nil
    BY <1>4 DEF Goes
  <2> QED BY <1>2, <1>3, <2>1
<1>5. CASE Unmoved(x)
  <2>1. \A y \in Contexts : Joining(y, x)' => Joining(y, x)
    BY <1>5, JoiningUnmoved
  <2>2. /\ None(queue, WakesOf(x)) => None(queue', WakesOf(x))
        /\ None(ready, {x}) => None(ready', {x})
        /\ timers'[x] = timers[x]
    BY <1>5, Functions3 DEF Unmoved, QueueQuiet, Kept
  <2> QED BY <1>2, <1>3, <2>1, <2>2
<1> QED BY <1>4, <1>5, StepGoes

LEMMA YieldingStep ==
  ASSUME TypeInv, Homes, Yielding, [Next]_vars
  PROVE  Yielding'
<1> USE DEF TypeInv
<1>1. SUFFICES ASSUME NEW x \in Contexts, pc'[x] \in {"yield", "emitYield"}
               PROVE  Yields(x)
  BY YieldsStay DEF Yielding
<1>2. CASE pc'[x] = pc[x]
  BY <1>1, <1>2 DEF Yielding
<1>3. ASSUME NEW c \in Coroutines,
             Top(c) \/ Drained(c) \/ EndThread(c) \/ Delete(c) \/ RunFunction(c)
               \/ (\E t \in Threads : NewInstance(t, c))
      PROVE  pc' = pc
  BY <1>3 DEF Top, Drained, EndThread, Delete, RunFunction, NewInstance
<1>4. ASSUME NEW c \in Coroutines, Switch(c) PROVE pc'[x] = pc[x]
  <2>1. PICK z \in Contexts : Switches(c, z)
    BY <1>4, SwitchIs
  <2>2. pc' = pc \/ pc' = [pc EXCEPT ![z] = "user"]
    BY <2>1 DEF Switches
  <2> QED BY <1>1, <2>2 DEF TypeOK, Callers
<1>5. ASSUME NEW z \in Contexts, EmitYield(z) \/ Leave(z) \/ Yield(z) PROVE pc'[x] = pc[x]
  <2>1. pc' \in {pc, [pc EXCEPT ![z] = "emit"], [pc EXCEPT ![z] = "done"], [pc EXCEPT ![z] = "user"]}
    BY <1>5 DEF EmitYield, Leave, Yield, Goto
  <2> QED BY <1>1, <2>1 DEF TypeOK, Callers
<1>6. ASSUME NEW z \in Contexts,
             Pending(z) \/ TimerFires(z) \/ (\E y \in Contexts : Join(z, y))
      PROVE  pc' = pc
  BY <1>6 DEF Pending, TimerFires, Join
<1>7. ASSUME NEW z \in Contexts, Complete(z) PROVE pc'[x] = pc[x]
  <2>1. x \in Callers
    BY DEF Callers
  <2> QED BY <1>1, <1>7, <2>1 DEF Complete
<1>8. ASSUME NEW z \in Contexts, Slot(z), pc'[x] # pc[x] PROVE Yields(x)
  <2>1. PICK j \in todo[z] : pc' = pc \/ (j # Watch /\ home[j] = home[z] /\ Goto(z, "emitYield"))
    BY <1>8 DEF Slot
  <2>2. x = z /\ j # Watch /\ home[j] = home[z]
    BY <1>8, <2>1 DEF Goto, TypeOK, Callers
  <2>3. j \in waiters[x]
    BY <2>2 DEF Homes
  <2> QED BY <2>2, <2>3 DEF Yields
<1>9. ASSUME NEW t \in Threads,
             ThreadStep(t) \/ (\E y \in Contexts : ThreadJoin(t, y))
               \/ (\E c \in Coroutines : DeleteLater(t, c))
      PROVE  pc'[x] = pc[x]
  <2>1. x # t
    BY Different
  <2>2. \E l : pc' = [pc EXCEPT ![t] = l]
    BY <1>9 DEF ThreadStep, ThreadWaits, Terminate, UseLoop, ThreadJoin, DeleteLater, Goto
  <2> QED BY <2>1, <2>2 DEF TypeOK, Callers
<1>10. ASSUME NEW u \in Callers, NEW z \in Contexts, Work(u, z) PROVE pc' = pc
  BY <1>10 DEF Work
<1>11. ASSUME NEW u \in Callers, NEW z \in Contexts, Resume(u, z), pc'[x] # pc[x]
       PROVE  Yields(x)
  <2>1. <<u, "resume", z>> \in Calls /\ pc' \in {pc, [pc EXCEPT ![u] = "yield"]}
    BY <1>11 DEF Resume, May
  <2>2. u = x
    BY <1>11, <2>1 DEF TypeOK, Callers
  <2>3. PICK call \in Calls : call = <<x, "resume", z>>
    BY <2>1, <2>2
  <2>4. call[1] = x /\ call[2] = "resume"
    BY <2>3
  <2> QED BY <2>4 DEF Yields
<1>12. UNCHANGED vars => pc' = pc
  BY DEF vars
<1> QED BY <1>2, <1>3, <1>4, <1>5, <1>6, <1>7, <1>8, <1>9, <1>10, <1>11, <1>12, StepCases
-----------------------------------------------------------------------------
(* The invariant of the turns.                                             *)
TurnInv ==
  /\ TypeInv /\ Homes /\ Yielding
  /\ \A x \in Contexts : /\ ~ ResumedByUsers(x) => OneWake(x)
                         /\ ~ Yields(x) => OneRun(x)

LEMMA TurnInit == ASSUME Init PROVE TurnInv
<1>1. DOMAIN <<>> = {}
  OBVIOUS
<1>2. \A F : None(queue, F) /\ None(ready, F)
  BY <1>1 DEF Init, None
<1>3. \A F : One(queue, F) /\ One(ready, F)
  BY <1>2, NoneIsOne
<1>4. \A x \in Contexts : /\ home[x] = Nil /\ timers[x] = 0 /\ x \notin begun
                       /\ waiters[x] = {} /\ todo[x] = {} /\ target[x] = Nil
                       /\ pc[x] = "new"
  BY DEF Init, Callers
<1>5. \A x, y \in Contexts : ~ Joining(y, x)
  BY <1>2, <1>4 DEF Joining
<1>6. Homes /\ Yielding
  BY <1>2, <1>4, <1>5 DEF Homes, Yielding
<1>7. ASSUME NEW x \in Contexts PROVE NoPlace(x) /\ ~ Executes(x)
  BY <1>2, <1>4, Different DEF NoPlace, Executes, Called, Joins
<1>8. ASSUME NEW x \in Contexts PROVE OneWake(x)
  BY <1>3, <1>4, <1>5, <1>7 DEF OneWake, CalledOnce, OnePlace, JoinsOne, NoPlace
<1>9. ASSUME NEW x \in Contexts PROVE OneRun(x)
  BY <1>2, <1>3, <1>7 DEF OneRun
<1> QED BY <1>6, <1>8, <1>9, TypeInit DEF TurnInv

LEMMA TurnStep == ASSUME TurnInv, [Next]_vars PROVE TurnInv'
<1>1. TypeInv /\ Homes /\ Yielding
  BY DEF TurnInv
<1>2. TypeInv' /\ Homes' /\ Yielding'
  BY <1>1, TypeStep, HomesStep, YieldingStep
<1>3. ASSUME NEW x \in Contexts
      PROVE  /\ ~ ResumedByUsers(x) => OneWake(x)'
             /\ ~ Yields(x)' => OneRun(x)'
  <2>1. ~ Yields(x)' => ~ Yields(x)
    BY <1>1, YieldsStay
  <2>2. /\ ~ ResumedByUsers(x) => OneWake(x)
        /\ ~ Yields(x) => OneRun(x)
    BY DEF TurnInv
  <2>3. CASE Unmoved(x)
    BY <2>1, <2>2, <2>3, WakeUnmoved, RunUnmoved
  <2>4. CASE Goes(x)
    BY <2>1, <2>2, <2>4 DEF Goes
  <2> QED BY <1>1, <2>3, <2>4, StepGoes
<1>4. \A x \in Contexts : ResumedByUsers(x)' <=> ResumedByUsers(x)
  BY DEF ResumedByUsers
<1> QED BY <1>2, <1>3, <1>4 DEF TurnInv

LEMMA TurnInvariant == Spec => []TurnInv
<1>1. Init => TurnInv BY TurnInit
<1>2. TurnInv /\ [Next]_vars => TurnInv' BY TurnStep
<1> QED BY <1>1, <1>2, PTL DEF Spec

LEMMA OneCounts ==
  ASSUME NEW S, \A i, j \in S : i = j
  PROVE  /\ Cardinality(S) \in {0, 1}
         /\ S = {} => Cardinality(S) = 0
<1>1. CASE S = {}
  BY <1>1, FS_EmptySet
<1>2. CASE S # {}
  <2>1. PICK i \in S : S = {i}
    BY <1>2
  <2> QED BY <1>2, <2>1, FS_Singleton
<1> QED BY <1>1, <1>2

(* A context that nobody resumes, or that never yields, waits for its turn *)
(* at most once, and a context that is done not at all, so that run never  *)
(* jumps into a stack that has ended (coroutine.cc:250, :300, :431).       *)
THEOREM ContextsTakeOneTurn == Spec => []OneTurn
<1>1. ASSUME TurnInv PROVE OneTurn
  <2>1. SUFFICES ASSUME NEW x \in Contexts, home[x] # Nil,
                        ~ (ResumedByUsers(x) /\ Yields(x))
                 PROVE  Turns(x) <= IF pc[x] = "done" THEN 0 ELSE 1
    BY DEF OneTurn
  <2>2. PICK c \in Coroutines : c = home[x]
    BY <1>1, <2>1 DEF TurnInv, TypeInv, TypeOK
  <2>3. QueueType
    BY <1>1 DEF TurnInv, TypeInv
  <2>4. PICK R : R = {i \in DOMAIN ready[c] : ready[c][i] = x}
    OBVIOUS
  <2>5. PICK Q : Q = {i \in DOMAIN queue[c] : queue[c][i].do = "ready" /\ queue[c][i].ctx = x}
    OBVIOUS
  <2>6. Turns(x) = Cardinality(R) + Cardinality(Q) + (IF Executes(x) THEN 1 ELSE 0)
    BY <2>2, <2>4, <2>5 DEF Turns
  <2>7. /\ One(ready, {x}) => \A i, j \in R : i = j
        /\ None(ready, {x}) => R = {}
    BY <2>4 DEF One, None
  <2>8. \A i \in Q : /\ i \in DOMAIN queue[c]
                     /\ queue[c][i] \in FunctionsOf("ready", x)
                     /\ queue[c][i] \in WakesOf(x)
    BY <2>3, <2>5, QueueIs DEF FunctionsOf, WakesOf, Waking
  <2>9. /\ One(queue, WakesOf(x)) => \A i, j \in Q : i = j
        /\ None(queue, WakesOf(x)) => Q = {}
        /\ None(queue, FunctionsOf("ready", x)) => Q = {}
    BY <2>8 DEF One, None
  <2>10. CASE ~ ResumedByUsers(x)
    <3>1. OneWake(x)
      BY <1>1, <2>10 DEF TurnInv
    <3>2. /\ Cardinality(R) \in {0, 1} /\ Cardinality(Q) \in {0, 1}
          /\ None(ready, {x}) => Cardinality(R) = 0
          /\ None(queue, WakesOf(x)) => Cardinality(Q) = 0
      BY <2>7, <2>9, <3>1, OneCounts DEF OneWake
    <3>3. /\ Executes(x) => Cardinality(R) = 0 /\ Cardinality(Q) = 0
          /\ Cardinality(Q) = 0 \/ Cardinality(R) = 0
          /\ pc[x] = "done" => Cardinality(R) = 0 /\ Cardinality(Q) = 0 /\ ~ Executes(x)
      BY <3>1, <3>2 DEF OneWake, OnePlace, NoPlace
    <3> QED BY <2>6, <3>2, <3>3
  <2>11. CASE ~ Yields(x)
    <3>1. OneRun(x)
      BY <1>1, <2>11 DEF TurnInv
    <3>2. /\ Cardinality(R) \in {0, 1} /\ Cardinality(Q) = 0
          /\ None(ready, {x}) => Cardinality(R) = 0
      BY <2>7, <2>9, <3>1, OneCounts DEF OneRun
    <3>3. /\ Executes(x) => Cardinality(R) = 0
          /\ pc[x] = "done" => Cardinality(R) = 0 /\ ~ Executes(x)
      BY <3>1, <3>2 DEF OneRun
    <3> QED BY <2>6, <3>2, <3>3
  <2> QED BY <2>1, <2>10, <2>11
<1> QED BY <1>1, TurnInvariant, PTL
-----------------------------------------------------------------------------
(* A join that returns.                                                    *)

LEMMA JoinStep ==
  ASSUME TurnInv, [Next]_vars, NEW u \in Callers,
         target[u] \in Contexts, target'[u] # target[u],
         pc[u] \in {"user", "test", "wait", "asleep"}, ~ ResumedByUsers(u)
  PROVE  target[u] \in dead
<1>1. TypeInv /\ TypeOK /\ AtWork
  BY DEF TurnInv, TypeInv
<1>2. target[u] # Nil
  BY Different
<1>3. ASSUME NEW c \in Coroutines, Switch(c) PROVE target[u] \in dead
  <2>1. PICK x \in Contexts : Switches(c, x)
    BY <1>1, <1>3, SwitchIs
  <2>2. u = x
    BY <1>1, <2>1 DEF Switches, TypeOK
  <2>3. 1 \in DOMAIN ready[c] /\ ready[c][1] = x
    BY <1>1, <2>1, HeadTailProperties, LenProperties, EmptySeq DEF Switches, TypeOK
  <2>4. OneWake(x)
    BY <2>2 DEF TurnInv
  <2>5. ~ Joins(x)
    BY <2>3, <2>4 DEF OneWake, OnePlace, None
  <2> QED BY <2>2, <2>5 DEF Joins
<1>4. ASSUME NEW x \in Contexts, NEW y \in Contexts, Join(x, y) PROVE FALSE
  <2>1. Executes(x) /\ target' \in {target, [target EXCEPT ![x] = y]}
    BY <1>1, <1>4, MayIs DEF Join
  <2>2. u = x
    BY <1>1, <2>1 DEF TypeOK
  <2> QED BY <1>1, <1>2, <2>1, <2>2 DEF AtWork
<1>5. ASSUME NEW t \in Threads,
             (\E x \in Contexts : ThreadJoin(t, x)) \/ (\E c \in Coroutines : DeleteLater(t, c))
      PROVE  FALSE
  <2>1. pc[t] = "user" /\ \E y : target' = [target EXCEPT ![t] = y]
    BY <1>5 DEF ThreadJoin, DeleteLater, May
  <2>2. u = t
    BY <1>1, <2>1 DEF TypeOK
  <2> QED BY <1>1, <1>2, <2>1, <2>2 DEF AtWork
<1>6. ASSUME NEW t \in Threads, ThreadStep(t) PROVE target[u] \in dead
  <2>1. \/ target' = target
        \/ pc[t] \in {"run", "post"} /\ target' = [target EXCEPT ![t] = Nil]
        \/ target[t] \in dead /\ target' = [target EXCEPT ![t] = Nil]
    BY <1>6 DEF ThreadStep, ThreadWaits, Ended, Terminate, UseLoop, joinVars
  <2>2. u = t
    BY <1>1, <2>1 DEF TypeOK
  <2> QED BY <2>1, <2>2
<1>7. ASSUME NEW c \in Coroutines,
             Top(c) \/ Drained(c) \/ EndThread(c) \/ Delete(c) \/ RunFunction(c)
               \/ (\E t \in Threads : NewInstance(t, c))
      PROVE  target' = target
  BY <1>7 DEF Top, Drained, EndThread, Delete, RunFunction, NewInstance, joinVars
<1>8. ASSUME NEW x \in Contexts,
             Complete(x) \/ Slot(x) \/ EmitYield(x) \/ Leave(x) \/ Yield(x) \/ Pending(x)
               \/ TimerFires(x)
      PROVE  target' = target
  BY <1>8 DEF Complete, Slot, EmitYield, Leave, Yield, Pending, TimerFires, joinVars
<1>9. ASSUME NEW v \in Callers, NEW x \in Contexts, Work(v, x) \/ Resume(v, x)
      PROVE  target' = target
  BY <1>9 DEF Work, Resume, joinVars
<1>10. UNCHANGED vars => target' = target
  BY DEF vars, joinVars
<1>11. target' # target
  OBVIOUS
<1> QED BY <1>1, <1>3, <1>4, <1>5, <1>6, <1>7, <1>8, <1>9, <1>10, <1>11, StepCases

(* A join returns only when the context is at its end: a thread's never    *)
(* earlier, a context's unless a user resumes it (coroutine.cc:203).       *)
THEOREM JoinsMeanEnd == Spec => JoinMeansEnd
<1>1. TurnInv /\ [Next]_vars =>
        [\A u \in Callers :
           (/\ target[u] \in Contexts /\ target'[u] # target[u]
            /\ pc[u] \in {"user", "test", "wait", "asleep"} /\ ~ ResumedByUsers(u))
           => target[u] \in dead]_vars
  BY JoinStep
<1> QED BY <1>1, TurnInvariant, PTL DEF Spec, JoinMeansEnd
=============================================================================
