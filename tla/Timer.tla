-------------------------------- MODULE Timer -------------------------------
(***************************************************************************)
(* The timers of the library (src/timer.cc, inc/SpaE/timer.h): the global  *)
(* multimap of due times, the status of each timer under its own mutex,    *)
(* the helper thread that waits for the next due time and emits the        *)
(* signals, and the loop whose thread runs their slots.                    *)
(*                                                                         *)
(* A section under g_timerMapMutex or under the mutex of a status is one   *)
(* action, except where another thread can get in between: the helper      *)
(* emits and puts an interval back under the mutex of its status only.     *)
(***************************************************************************)
EXTENDS Integers, Sequences, FiniteSets

CONSTANTS
  Timers,      \* Timer objects, all constructed and connected
  AutoDelete,  \* those setTimeout has made: a second slot deletes them
  Users,       \* the threads that use them
  LoopThread,  \* the one that runs the loop the timers belong to
  Calls,       \* <<thread, member function, timer>>: the calls users make
  Durations,   \* the arguments of start
  MaxClock,    \* bound on the time, and on the due times users ask for
  MaxStarts,   \* bound on the calls of start, for each timer
  IdleWait,    \* how long the helper waits when there is no timer
  Nil

Ops == {"start", "stop", "single", "interval", "delete"}

ASSUME TimerAssumption ==
  /\ AutoDelete \subseteq Timers
  /\ LoopThread \in Users /\ Calls \subseteq Users \X Ops \X Timers
  /\ \A u \in Users, op \in Ops, t \in Timers :
       <<u, op, t>> \in Calls /\ (t \in AutoDelete \/ op = "delete")
         => u = LoopThread
  /\ Durations \subseteq Nat /\ Nil \notin Durations
  /\ MaxClock \in Nat /\ MaxStarts \in [Timers -> Nat]
  /\ IdleWait \in Nat

VARIABLES
  clock,      \* now()
  timerMap,   \* g_timerMap
  helperSem,  \* g_helperSem
  helper,     \* where the helper thread is, and until when it waits
  ready,      \* its readyTimerArray
  status,     \* the TimerStatus of each timer
  alive,      \* the timers that are not destroyed
  call,       \* the member function each user is in
  slots,      \* the emitted signals the loop has not dispatched yet
  ran,        \* the timers whose user's slot has run
  starts,     \* how often each timer was started
  awaiting,   \* the timers started since their signal was last emitted
  undefined   \* two threads were in g_timerMap at once

mapVars  == <<timerMap, undefined>>
helpVars == <<helper, ready>>
lifeVars == <<alive, slots, ran>>
callVars == <<call, starts>>
vars == <<clock, mapVars, helperSem, helpVars, status, lifeVars, callVars,
          awaiting>>

UserCode == [at |-> "user", timer |-> Nil, sec |-> Nil]
HelperAt(label) == [at |-> label, until |-> 0]

Status == [running : BOOLEAN, singleShot : BOOLEAN, timeout : Nat,
           lastEmitTime : Nat]
Entry == [time : Nat, timer : Timers]
HelperLabels == {"plan", "wait", "collect", "next", "emit", "insert"}
CallLabels == {"user", "stop", "erase", "set", "insert", "post"}

Due(t) == status[t].lastEmitTime + status[t].timeout

(* The helper is inside the section of t's status.                         *)
Locked(t) == helper.at \in {"emit", "insert"} /\ Head(ready) = t

Init ==
  /\ clock = 0
  /\ timerMap = <<>>
  /\ helperSem = 0
  /\ helper = [at |-> "wait", until |-> IdleWait]
  /\ ready = <<>>
  /\ status = [t \in Timers |-> [running |-> FALSE, singleShot |-> TRUE,
                                 timeout |-> 1, lastEmitTime |-> 0]]
  /\ alive = Timers
  /\ call = [u \in Users |-> UserCode]
  /\ slots = <<>>
  /\ ran = {}
  /\ starts = [t \in Timers |-> 0]
  /\ awaiting = {}
  /\ undefined = FALSE
-----------------------------------------------------------------------------
(* g_timerMap, in the order of the multimap.                               *)

Emplace(map, t, time) ==
  LET k == Cardinality({i \in DOMAIN map : map[i].time <= time})
  IN SubSeq(map, 1, k) \o <<[time |-> time, timer |-> t]>>
       \o SubSeq(map, k + 1, Len(map))

(* The search of stop: the first entry of t at that time is erased, after  *)
(* the k entries that are before it; all are when there is none.           *)
EraseEntry(map, t, time) ==
  LET entry == [time |-> time, timer |-> t]
      k == Cardinality({i \in DOMAIN map : \A j \in 1..i : map[j] # entry})
  IN SubSeq(map, 1, k) \o SubSeq(map, k + 2, Len(map))

(* A user's section on the map.  The mutex keeps the helper out of it, but *)
(* not while the helper puts an interval back: what the map is after two   *)
(* threads were in it nobody can say, and the model stops there.           *)
Section(map) ==
  IF helper.at = "insert"
    THEN undefined' = TRUE /\ UNCHANGED timerMap
    ELSE timerMap' = map /\ UNCHANGED undefined
-----------------------------------------------------------------------------
(* Timer::start and Timer::stop.                                           *)

Goto(u, label) == call' = [call EXCEPT ![u].at = label]
Return(u) == call' = [call EXCEPT ![u] = UserCode]

May(u, op, t) == call[u].at = "user" /\ <<u, op, t>> \in Calls /\ t \in alive

Start(u, t, sec) ==
  /\ May(u, "start", t)
  /\ starts[t] < MaxStarts[t] /\ clock + sec <= MaxClock
  /\ call' = [call EXCEPT ![u] = [at |-> "stop", timer |-> t, sec |-> sec]]
  /\ starts' = [starts EXCEPT ![t] = @ + 1]
  /\ UNCHANGED <<clock, mapVars, helperSem, helpVars, status, lifeVars,
                 awaiting>>

Stop(u, t) ==
  /\ May(u, "stop", t)
  /\ call' = [call EXCEPT ![u] = [at |-> "stop", timer |-> t, sec |-> Nil]]
  /\ UNCHANGED <<clock, mapVars, helperSem, helpVars, status, lifeVars, starts,
                 awaiting>>

StopStatus(u) ==
  LET t == call[u].timer IN
  /\ call[u].at = "stop"
  /\ ~Locked(t)
  /\ status' = [status EXCEPT ![t].running = FALSE]
  /\ awaiting' = awaiting \ {t}
  /\ Goto(u, "erase")
  /\ UNCHANGED <<clock, mapVars, helperSem, helpVars, lifeVars, starts>>

StopMap(u) ==
  LET t == call[u].timer IN
  /\ call[u].at = "erase"
  /\ Section(EraseEntry(timerMap, t, Due(t)))
  /\ IF call[u].sec = Nil THEN Return(u) ELSE Goto(u, "set")
  /\ UNCHANGED <<clock, helperSem, helpVars, status, lifeVars, starts,
                 awaiting>>

StartStatus(u) ==
  LET t == call[u].timer IN
  /\ call[u].at = "set"
  /\ ~Locked(t)
  /\ status' = [status EXCEPT ![t] = [@ EXCEPT !.running = TRUE,
                                               !.lastEmitTime = clock,
                                               !.timeout = call[u].sec]]
  /\ awaiting' = awaiting \cup {t}
  /\ Goto(u, "insert")
  /\ UNCHANGED <<clock, mapVars, helperSem, helpVars, lifeVars, starts>>

StartMap(u) ==
  LET t == call[u].timer IN
  /\ call[u].at = "insert"
  /\ Section(Emplace(timerMap, t, Due(t)))
  /\ Goto(u, "post")
  /\ UNCHANGED <<clock, helperSem, helpVars, status, lifeVars, starts,
                 awaiting>>

(* Mutant: wake the helper for the first timer only.                       *)
StartPostFirst(u) ==
  /\ call[u].at = "post"
  /\ helperSem' = IF Len(timerMap) > 1 THEN helperSem ELSE helperSem + 1
  /\ Return(u)
  /\ UNCHANGED <<clock, mapVars, helpVars, status, lifeVars, starts, awaiting>>

StartPost(u) ==
  /\ call[u].at = "post"
  /\ helperSem' = helperSem + 1
  /\ Return(u)
  /\ UNCHANGED <<clock, mapVars, helpVars, status, lifeVars, starts, awaiting>>

SetSingleShot(u, t, sta) ==
  /\ May(u, IF sta THEN "single" ELSE "interval", t)
  /\ ~Locked(t)
  /\ status' = [status EXCEPT ![t].singleShot = sta]
  /\ UNCHANGED <<clock, mapVars, helperSem, helpVars, lifeVars, callVars,
                 awaiting>>
-----------------------------------------------------------------------------
(* Timer::~Timer, and the slots.  A user destroys a timer in its loop's    *)
(* thread and not while another thread is in a call on it.                 *)

(* Mutant: the destructor does not wait for the helper.                    *)
DestroyUnlocked(t) ==
  /\ alive' = alive \ {t}
  /\ status' = [status EXCEPT ![t].running = FALSE]
  /\ awaiting' = awaiting \ {t}

Destroy(t) ==
  /\ ~Locked(t)
  /\ alive' = alive \ {t}
  /\ status' = [status EXCEPT ![t].running = FALSE]
  /\ awaiting' = awaiting \ {t}

DeleteTimer(t) ==
  /\ May(LoopThread, "delete", t)
  /\ \A u \in Users : call[u].at # "user" => call[u].timer # t
  /\ Destroy(t)
  /\ UNCHANGED <<clock, mapVars, helperSem, helpVars, slots, ran, callVars>>

(* The loop's thread dispatches a signal, unless the timer has died.  The  *)
(* slots of setTimeout are the user's function and the delete, in the      *)
(* order of the addresses of their connections; after the delete there are *)
(* no more slots.                                                          *)
Dispatch ==
  LET t == Head(slots) IN
  /\ call[LoopThread].at = "user"
  /\ slots # <<>>
  /\ slots' = Tail(slots)
  /\ \/ t \notin alive /\ UNCHANGED <<alive, status, awaiting, ran>>
     \/ /\ t \in alive \ AutoDelete
        /\ ran' = ran \cup {t}
        /\ UNCHANGED <<alive, status, awaiting>>
     \/ /\ t \in alive \cap AutoDelete
        /\ ran' \in {ran, ran \cup {t}}
        /\ Destroy(t)
  /\ UNCHANGED <<clock, mapVars, helperSem, helpVars, callVars>>
-----------------------------------------------------------------------------
(* The helper thread.                                                      *)

HelperGoto(label) == helper' = HelperAt(label)

(* How long to wait.  The time from here to the call of waitFor, which     *)
(* makes the wait longer, is left out.                                     *)
Plan ==
  /\ helper.at = "plan"
  /\ helper' = [at |-> "wait",
                until |-> IF timerMap = <<>> THEN clock + IdleWait
                          ELSE timerMap[1].time]
  /\ UNCHANGED <<clock, mapVars, helperSem, ready, status, lifeVars, callVars,
                 awaiting>>

(* Mutant: waitFor takes a post that is not there.                         *)
WakeTakesAlways ==
  /\ helper.at = "wait"
  /\ helperSem > 0 \/ clock >= helper.until
  /\ helperSem' = helperSem - 1
  /\ HelperGoto("collect")
  /\ UNCHANGED <<clock, mapVars, ready, status, lifeVars, callVars, awaiting>>

(* Semaphore::waitFor returns for a post or because the time is over.      *)
Wake ==
  /\ helper.at = "wait"
  /\ \/ helperSem > 0 /\ helperSem' = helperSem - 1
     \/ helperSem = 0 /\ clock >= helper.until /\ UNCHANGED helperSem
  /\ HelperGoto("collect")
  /\ UNCHANGED <<clock, mapVars, ready, status, lifeVars, callVars, awaiting>>

(* Mutant: timers that are due within the unit of time.                    *)
IsDueSoon(e) == e.time <= clock + 1

IsDue(e) == e.time <= clock

(* The map is sorted: the timers that are due come first.                  *)
Collect ==
  LET k == Cardinality({i \in DOMAIN timerMap : IsDue(timerMap[i])}) IN
  /\ helper.at = "collect"
  /\ ready' = [i \in 1..k |-> timerMap[i].timer]
  /\ timerMap' = SubSeq(timerMap, k + 1, Len(timerMap))
  /\ HelperGoto("next")
  /\ UNCHANGED <<clock, undefined, helperSem, status, lifeVars, callVars,
                 awaiting>>

(* The next timer of readyTimerArray: its mutex, and sts->running.         *)
Examine ==
  /\ helper.at = "next"
  /\ IF ready = <<>> THEN HelperGoto("plan") /\ UNCHANGED ready
     ELSE IF status[Head(ready)].running
     THEN HelperGoto("emit") /\ UNCHANGED ready
     ELSE ready' = Tail(ready) /\ UNCHANGED helper
  /\ UNCHANGED <<clock, mapVars, helperSem, status, lifeVars, callVars,
                 awaiting>>

Emit ==
  LET t == Head(ready) IN
  /\ helper.at = "emit"
  /\ slots' = Append(slots, t)
  /\ awaiting' = awaiting \ {t}
  /\ IF status[t].singleShot
       THEN HelperGoto("next") /\ ready' = Tail(ready) /\ UNCHANGED status
       ELSE /\ HelperGoto("insert")
            /\ status' = [status EXCEPT ![t].lastEmitTime = clock]
            /\ UNCHANGED ready
  /\ UNCHANGED <<clock, mapVars, helperSem, alive, ran, callVars>>

(* Mutant: the time is asked for again.                                    *)
PutBackLate ==
  LET t == Head(ready) IN
  /\ helper.at = "insert"
  /\ timerMap' = Emplace(timerMap, t, clock + status[t].timeout)
  /\ ready' = Tail(ready)
  /\ HelperGoto("next")
  /\ UNCHANGED <<clock, undefined, helperSem, status, lifeVars, callVars,
                 awaiting>>

(* Without g_timerMapMutex.                                                *)
PutBack ==
  LET t == Head(ready) IN
  /\ helper.at = "insert"
  /\ timerMap' = Emplace(timerMap, t, Due(t))
  /\ ready' = Tail(ready)
  /\ HelperGoto("next")
  /\ UNCHANGED <<clock, undefined, helperSem, status, lifeVars, callVars,
                 awaiting>>
-----------------------------------------------------------------------------
Tick ==
  /\ clock < MaxClock
  /\ clock' = clock + 1
  /\ UNCHANGED <<mapVars, helperSem, helpVars, status, lifeVars, callVars,
                 awaiting>>

HelperStep ==
  \/ Plan \/ Wake \/ Collect \/ Examine \/ Emit \/ PutBack

CallStep(u) ==
  \/ StopStatus(u) \/ StopMap(u)
  \/ StartStatus(u) \/ StartMap(u) \/ StartPost(u)

UserCall(u) ==
  \E t \in Timers :
    \/ Stop(u, t)
    \/ \E sec \in Durations : Start(u, t, sec)
    \/ \E sta \in BOOLEAN : SetSingleShot(u, t, sta)

Next ==
  /\ ~undefined
  /\ \/ Tick \/ HelperStep \/ Dispatch
     \/ \E u \in Users : CallStep(u) \/ UserCall(u)
     \/ \E t \in Timers : DeleteTimer(t)

Spec == Init /\ [][Next]_vars

(* Time passes, and the system runs every thread that is not blocked.      *)
Fairness ==
  /\ WF_vars(~undefined /\ Tick)
  /\ WF_vars(~undefined /\ HelperStep)
  /\ WF_vars(~undefined /\ Dispatch)
  /\ \A u \in Users : WF_vars(~undefined /\ CallStep(u))

FairSpec == Spec /\ Fairness
=============================================================================
