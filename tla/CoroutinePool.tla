---------------------------- MODULE CoroutinePool ---------------------------
(***************************************************************************)
(* CoroutinePool (src/coroutine_pool.cc) over the coroutines of module     *)
(* Coroutine: a multimap of coroutines by their load, the least loaded     *)
(* first.  A call charges the coroutine it picks with 1; the completion of *)
(* the context, or a function posted after the user's, discharges it.      *)
(*                                                                         *)
(* The threads that call have no loop of their own: the slots of their     *)
(* connections run in the default loop.  A load is a float: a whole number *)
(* plus a few millionths that keep the coroutines apart, which a large     *)
(* load rounds away.                                                       *)
(***************************************************************************)
EXTENDS CoroutineProperties, SequencesExt

CONSTANTS
  HardwareThreads,  \* hardware_concurrency, the initial size of the pool
  MaxSize,          \* bound on the sizes users set
  Exact             \* the load from which the millionths are lost (32 and more)

(* A load, and what keeps it apart from the same load of another coroutine.*)
Keys == [load : Int, tie : Nat]

ASSUME PoolAssumption ==
  HardwareThreads \in Nat /\ MaxSize \in Nat /\ Exact \in Nat /\ Nil \notin Keys

VARIABLES
  init,      \* initPool's static flag
  poolSize,  \* g_poolSize
  poolMap,   \* g_poolMap in its order
  workSize,  \* g_coroutineWorkSizeMap
  size,      \* the argument of each thread's setPoolSize
  round      \* i of the loop that fills the pool

mapVars == <<poolMap, workSize, round>>
poolVars == <<init, poolSize, size, mapVars>>
allVars == <<vars, poolVars>>

Key(load, tie) == [load |-> load, tie |-> IF load < Exact THEN tie ELSE 0]
Entry(key, co) == [key |-> key, co |-> co]

Before(k, m) == k.load < m.load \/ (k.load = m.load /\ k.tie < m.tie)

PoolInit ==
  /\ Init
  /\ init = FALSE /\ poolSize = HardwareThreads /\ poolMap = <<>>
  /\ workSize = [c \in Coroutines |-> Nil]
  /\ size = [t \in Threads |-> 0] /\ round = 0
-----------------------------------------------------------------------------
(* Helpers.                                                                *)

(* g_poolMapMutex is held over more than one step by the loop that fills   *)
(* the pool and by coroutineWork.                                          *)
PoolFree == \A t \in Threads : pc[t] \notin {"filling", "growing", "connect"}

(* How many entries are before those of the key k, or not behind them.     *)
LowerBound(map, k) == Cardinality({i \in DOMAIN map : Before(map[i].key, k)})
UpperBound(map, k) == Cardinality({i \in DOMAIN map : ~ Before(k, map[i].key)})

(* emplace: behind the entries of the same key.                            *)
Emplace(map, e) == InsertAt(map, UpperBound(map, e.key) + 1, e)

(* erase of a key takes every entry of that key.                           *)
Erase(map, k) ==
  SubSeq(map, 1, LowerBound(map, k)) \o SubSeq(map, UpperBound(map, k) + 1, Len(map))

ChargedAgain(up, c) == Entry(workSize[c], c)

ChargedEntry(up, c) == Entry(up, c)

(* updateCoroutinePool, updateLoopPool.                                    *)
Charge(c) ==
  LET k == workSize[c]
      up == Key(k.load + 1, k.tie)
  IN
  /\ poolMap' = Emplace(Erase(poolMap, k), ChargedEntry(up, c))
  /\ workSize' = [workSize EXCEPT ![c] = up]

ToEmpty(k) == Key(0, k.tie)

Lower(k) == Key(k.load - 1, k.tie)

Find(k) == {i \in DOMAIN poolMap : poolMap[i].key = k}

(* The function that undoes it: find returns the first entry of the key.   *)
Discharge(c) ==
  LET down == Lower(workSize[c]) IN
  IF Find(workSize[c]) = {} THEN fault' = "pool" /\ UNCHANGED <<poolMap, workSize>>
  ELSE /\ poolMap' = Emplace(RemoveAt(poolMap, LowerBound(poolMap, workSize[c]) + 1),
                             Entry(down, c))
       /\ workSize' = [workSize EXCEPT ![c] = down]
       /\ UNCHANGED fault

(* What initPool and setPoolSize fill the pool up to.                      *)
Wanted(t) == IF pc[t] \in {"fill", "filling"} THEN poolSize ELSE size[t]

(* The loop's condition: the map grows as the index does, so that it stops *)
(* half way; the difference is unsigned, and without end if another thread *)
(* has lowered g_poolSize.                                                 *)
FillsOn(t) ==
  LET n == Len(poolMap) IN Wanted(t) < n \/ round < Wanted(t) - n
-----------------------------------------------------------------------------
(* The calls.                                                              *)

(* coroutineWork(x), loopWork (no x): initPool sets its flag, then fills   *)
(* the pool under the mutex.                                               *)
EnterPool(t, x) ==
  /\ May(t, "pool", x) /\ (x # Nil => home[x] = Nil)
  /\ init' = TRUE /\ Goto(t, IF init THEN "choose" ELSE "fill")
  /\ target' = [target EXCEPT ![t] = x]
  /\ UNCHANGED <<queue, coVars, idVars, home, begun, dead, running, waiters,
                 todo, timers, told, fault, poolSize, size, mapVars>>

(* setPoolSize sets the size before it takes the mutex.                    *)
SetPoolSize(t, n) ==
  /\ May(t, "size", n)
  /\ poolSize' = n /\ size' = [size EXCEPT ![t] = n] /\ Goto(t, "grow")
  /\ UNCHANGED <<queue, coVars, idVars, home, begun, dead, running, joinVars,
                 timers, told, fault, init, mapVars>>

(* What initPool and setPoolSize do when the pool is full.                 *)
AfterFill(t) == Goto(t, IF pc[t] \in {"fill", "filling"} THEN "choose" ELSE "user")

TakePool(t) ==
  /\ pc[t] \in {"fill", "grow"} /\ PoolFree
  /\ IF Len(poolMap) < Wanted(t)
     THEN round' = 0 /\ Goto(t, IF pc[t] = "fill" THEN "filling" ELSE "growing")
     ELSE AfterFill(t) /\ UNCHANGED round
  /\ UNCHANGED <<queue, coVars, idVars, home, begun, dead, running, joinVars,
                 timers, told, calls, fault, init, poolSize, size, poolMap, workSize>>

(* One round: a coroutine more, with the load 0.                           *)
FillPool(t, c) ==
  LET key == Key(0, round + Len(poolMap)) IN
  /\ pc[t] \in {"filling", "growing"} /\ FillsOn(t) /\ at[c] = "none"
  /\ \E i \in FreeIds : Create({c}, [d \in {c} |-> i])
  /\ poolMap' = Emplace(poolMap, Entry(key, c))
  /\ workSize' = [workSize EXCEPT ![c] = key]
  /\ round' = round + 1
  /\ UNCHANGED <<home, pc, begun, dead, running, joinVars, timers, told, calls,
                 fault, init, poolSize, size>>

LeavePool(t) ==
  /\ pc[t] \in {"filling", "growing"} /\ ~ FillsOn(t) /\ AfterFill(t)
  /\ UNCHANGED <<queue, coVars, idVars, home, begun, dead, running, joinVars,
                 timers, told, calls, fault, poolVars>>

(* The first coroutine of the map gets the context.                        *)
CoroutineWork(t) ==
  LET x == target[t]
      c == poolMap[1].co
  IN
  /\ pc[t] = "choose" /\ x # Nil /\ PoolFree
  /\ IF poolMap = <<>>
     THEN fault' = "pool" /\ UNCHANGED <<queue, home, running, pc, poolMap, workSize>>
     ELSE Hand(c, x) /\ Charge(c) /\ Goto(t, "connect") /\ UNCHANGED fault
  /\ UNCHANGED <<coVars, idVars, begun, dead, joinVars, timers, told, calls,
                 init, poolSize, size, round>>

(* The connection to signalCompelte is made in the coroutine's loop.       *)
ConnectPool(t) ==
  LET x == target[t] IN
  /\ pc[t] = "connect" /\ Goto(t, "user")
  /\ Post(home[x], Function("register", x, Watch))
  /\ target' = [target EXCEPT ![t] = Nil]
  /\ UNCHANGED <<coVars, idVars, home, begun, dead, running, waiters, todo,
                 timers, told, calls, fault, poolVars>>

LoopWork(t) ==
  LET c == poolMap[1].co IN
  /\ pc[t] = "choose" /\ target[t] = Nil /\ PoolFree
  /\ IF poolMap = <<>>
     THEN fault' = "pool" /\ UNCHANGED <<queue, pc, poolMap, workSize>>
     ELSE /\ queue' = [queue EXCEPT ![c] =
                         @ \o <<Function("null", Nil, Nil), Function("unload", Nil, Nil)>>]
          /\ Charge(c) /\ Goto(t, "user") /\ UNCHANGED fault
  /\ UNCHANGED <<coVars, idVars, home, begun, dead, running, joinVars, timers,
                 told, calls, init, poolSize, size, round>>

(* The functions that discharge a coroutine: in its loop after loopWork,   *)
(* in the default loop after coroutineWork.                                *)
RunUnload(c) ==
  /\ at[c] \in {"wait", "drain", "poll"} /\ queue[c] # <<>>
  /\ Head(queue[c]).do = "unload" /\ PoolFree
  /\ CoGoto(c, IF at[c] = "wait" THEN "drain" ELSE at[c])
  /\ queue' = [queue EXCEPT ![c] = Tail(@)]
  /\ Discharge(c)
  /\ UNCHANGED <<ready, members, current, terminate, idVars, home, pc, begun,
                 dead, running, joinVars, timers, told, calls, init, poolSize, size, round>>

DefaultLoop ==
  /\ told # <<>> /\ PoolFree
  /\ told' = Tail(told) /\ Discharge(home[Head(told)])
  /\ UNCHANGED <<queue, coVars, idVars, home, pc, begun, dead, running,
                 joinVars, timers, calls, init, poolSize, size, round>>
-----------------------------------------------------------------------------
PoolThreadStep(t) ==
  \/ TakePool(t) \/ LeavePool(t)
  \/ CoroutineWork(t) \/ ConnectPool(t) \/ LoopWork(t)

PoolNext ==
  \/ Next /\ UNCHANGED poolVars
  \/ /\ fault = "none"
     /\ \/ \E t \in Threads :
             \/ PoolThreadStep(t)
             \/ \E c \in Coroutines : FillPool(t, c)
             \/ \E x \in Contexts \cup {Nil} : EnterPool(t, x)
             \/ \E n \in 0..MaxSize : SetPoolSize(t, n)
        \/ \E c \in Coroutines : RunUnload(c)
        \/ DefaultLoop

PoolSpec == PoolInit /\ [][PoolNext]_allVars
-----------------------------------------------------------------------------
(* What the pool must satisfy.                                             *)

(* The values of the pool's variables have their types                     *)
(* (coroutine_pool.cc:23).                                                 *)
PoolTypeOK ==
  /\ TypeOK
  /\ init \in BOOLEAN /\ poolSize \in Nat
  /\ poolMap \in Seq([key : Keys, co : Coroutines])
  /\ workSize \in [Coroutines -> Keys \cup {Nil}]
  /\ size \in [Threads -> Nat] /\ round \in Nat

Pool == {c \in Coroutines : workSize[c] # Nil}
Apart == \A c, d \in Pool : c # d => workSize[c].tie # workSize[d].tie

(* As long as the millionths keep the coroutines apart, g_poolMap holds    *)
(* each coroutine of the pool once, under the load of                      *)
(* g_coroutineWorkSizeMap, however calls and completions interleave        *)
(* (coroutine_pool.cc:91, :103), and nobody misses an entry but a call     *)
(* that comes while another fills the map (:69).  When they do not, one    *)
(* coroutine's call erases another's entry.                                *)
MapsAgree ==
  Apart =>
    /\ Len(poolMap) = Cardinality(Pool)
    /\ \A c \in Pool : \E i \in DOMAIN poolMap : poolMap[i] = Entry(workSize[c], c)
    /\ fault = "pool" => poolMap = <<>> /\ \E t \in Threads : pc[t] = "fill"

(* A coroutine's load is never below the number of its unfinished contexts *)
(* of the pool: a completion discharges it once at most, and for a charge  *)
(* (coroutine_pool.cc:97).  It may stay above: a context that completes    *)
(* before the connection is made is never discharged.                      *)
LoadCoversWork ==
  \A c \in Pool :
    workSize[c].load >= Cardinality({x \in Contexts : home[x] = c /\ x \notin dead})
=============================================================================
