---------------------------- MODULE TimerProofs -----------------------------
(***************************************************************************)
(* Proofs about the timers, for any timers, threads, calls and bounds:     *)
(* types (TimerTypeCorrect), that the helper thread only emits signals of  *)
(* live timers (HelperEmitsLiveTimer), that a timer started once has one   *)
(* place (OnePlaceOfTimer) and no timeout before its time                  *)
(* (FirstTimeoutInTime).  The last two rest on PlaceInv: the map is sorted *)
(* and no start has put its timer anywhere before it sets the due time.    *)
(***************************************************************************)
EXTENDS TimerProperties, SequenceTheorems, FiniteSetTheorems, TLAPS

-----------------------------------------------------------------------------
(* The multimap.                                                           *)

(* A set of positions of a sequence has at most its length.                *)
LEMMA CountBound ==
  ASSUME NEW E, NEW map \in Seq(E), NEW S \in SUBSET (DOMAIN map)
  PROVE  Cardinality(S) \in Nat /\ Cardinality(S) <= Len(map)
<1>1. DOMAIN map = 1..Len(map) /\ Len(map) \in Nat
  OBVIOUS
<1>2. IsFiniteSet(1..Len(map)) /\ Cardinality(1..Len(map)) = Len(map)
  <2> DEFINE n == Len(map)
  <2>1. n \in Nat BY <1>1
  <2> HIDE DEF n
  <2>2. IsFiniteSet(1..n) /\ Cardinality(1..n) = n
    BY <2>1, FS_Interval
  <2> QED BY <2>2 DEF n
<1> QED BY <1>1, <1>2, FS_Subset, FS_CardinalityType

(* Entries come into the map and go without changing the others.           *)
LEMMA EmplaceType ==
  ASSUME NEW map \in Seq(Entry), NEW t \in Timers, NEW time \in Nat
  PROVE  Emplace(map, t, time) \in Seq(Entry)
<1> DEFINE k == Cardinality({i \in DOMAIN map : map[i].time <= time})
<1>1. k \in Nat /\ k <= Len(map)
  BY CountBound
<1> HIDE DEF k
<1>2. SubSeq(map, 1, k) \in Seq(Entry)
  BY <1>1, SubSeqProperties
<1>3. SubSeq(map, k + 1, Len(map)) \in Seq(Entry)
  BY <1>1, SubSeqProperties
<1>4. <<[time |-> time, timer |-> t]>> \in Seq(Entry)
  BY DEF Entry
<1>5. Emplace(map, t, time)
        = SubSeq(map, 1, k) \o <<[time |-> time, timer |-> t]>>
            \o SubSeq(map, k + 1, Len(map))
  BY DEF Emplace, k
<1> QED BY <1>2, <1>3, <1>4, <1>5, ConcatProperties

LEMMA EraseType ==
  ASSUME NEW map \in Seq(Entry), NEW t, NEW time
  PROVE  EraseEntry(map, t, time) \in Seq(Entry)
<1> DEFINE entry == [time |-> time, timer |-> t]
           k == Cardinality({i \in DOMAIN map :
                               \A j \in 1..i : map[j] # entry})
<1>1. k \in Nat /\ k <= Len(map)
  BY CountBound
<1> HIDE DEF k
<1>2. SubSeq(map, 1, k) \in Seq(Entry)
  BY <1>1, SubSeqProperties
<1>3. SubSeq(map, k + 2, Len(map)) \in Seq(Entry)
  BY <1>1, SubSeqProperties
<1>4. EraseEntry(map, t, time)
        = SubSeq(map, 1, k) \o SubSeq(map, k + 2, Len(map))
  BY DEF EraseEntry, k
<1> QED BY <1>2, <1>3, <1>4, ConcatProperties
-----------------------------------------------------------------------------
(* Types.                                                                  *)

LEMMA DueType ==
  ASSUME TypeOK, NEW t \in Timers
  PROVE  Due(t) \in Nat
BY DEF TypeOK, Status, Due

LEMMA SectionType ==
  ASSUME TypeOK, NEW map \in Seq(Entry), Section(map)
  PROVE  timerMap' \in Seq(Entry) /\ undefined' \in BOOLEAN
BY DEF TypeOK, Section

(* The steps of calls between two labels.                                  *)
LEMMA CallGoes ==
  ASSUME TimerAssumption, CallOK, NEW u \in Users, NEW label \in CallLabels,
         call[u].at # "user",
         label \in {"set", "insert", "post"} => call[u].sec \in Durations,
         Goto(u, label)
  PROVE  CallOK'
BY DEF CallOK, Goto

LEMMA CallReturns ==
  ASSUME CallOK, NEW u \in Users, Return(u)
  PROVE  CallOK'
BY DEF CallOK, Return, UserCode, CallLabels

LEMMA TypeInit == ASSUME TimerAssumption, Init PROVE TypeOK
<1>1. CallOK
  BY DEF Init, CallOK, UserCode, CallLabels
<1>2. status \in [Timers -> Status]
  BY DEF Init, Status
<1>3. timerMap \in Seq(Entry) /\ ready \in Seq(Timers) /\ slots \in Seq(Timers)
  BY DEF Init
<1>4. helper \in [at : HelperLabels, until : Nat] /\ helper.at = "wait"
  BY DEF Init, HelperLabels, TimerAssumption
<1> QED BY <1>1, <1>2, <1>3, <1>4 DEF Init, TypeOK

LEMMA TypeCall ==
  ASSUME TimerAssumption, TypeOK, NEW u \in Users, CallStep(u)
  PROVE  TypeOK'
<1> DEFINE t == call[u].timer
<1>1. CallOK /\ (call[u].at # "user" => t \in Timers)
  BY DEF TypeOK, CallOK
<1>2. CASE StopStatus(u)
  <2>1. CallOK' BY <1>1, <1>2, CallGoes DEF StopStatus, CallLabels
  <2> QED BY <1>1, <1>2, <2>1
          DEF StopStatus, TypeOK, Status, mapVars, helpVars, lifeVars
<1>3. CASE StopMap(u)
  <2>1. CallOK'
    BY <1>1, <1>3, CallGoes, CallReturns DEF StopMap, CallLabels, CallOK
  <2>2. timerMap' \in Seq(Entry) /\ undefined' \in BOOLEAN
    BY <1>3, EraseType, SectionType DEF StopMap, TypeOK
  <2> QED BY <1>3, <2>1, <2>2 DEF StopMap, TypeOK, helpVars, lifeVars
<1>4. CASE StartStatus(u)
  <2>1. CallOK' BY <1>1, <1>4, CallGoes DEF StartStatus, CallLabels, CallOK
  <2>2. call[u].sec \in Nat
    BY <1>1, <1>4 DEF StartStatus, CallOK, TimerAssumption
  <2>3. status' \in [Timers -> Status]
    <3> DEFINE s == [status[t] EXCEPT !.running = TRUE, !.lastEmitTime = clock,
                                      !.timeout = call[u].sec]
    <3>1. s \in Status
      <4>1. PICK x \in Status : x = status[t]
        BY <1>1, <1>4 DEF StartStatus, TypeOK
      <4>2. [x EXCEPT !.running = TRUE, !.lastEmitTime = clock,
                      !.timeout = call[u].sec] \in Status
        BY <2>2, <4>1 DEF Status, TypeOK
      <4> QED BY <4>1, <4>2
    <3>2. status' = [status EXCEPT ![t] = s]
      BY <1>4 DEF StartStatus
    <3> HIDE DEF s
    <3> QED BY <1>1, <1>4, <3>1, <3>2 DEF StartStatus, TypeOK
  <2> QED BY <1>1, <1>4, <2>1, <2>3
          DEF StartStatus, TypeOK, mapVars, helpVars, lifeVars
<1>5. CASE StartMap(u)
  <2>1. CallOK' BY <1>1, <1>5, CallGoes DEF StartMap, CallLabels, CallOK
  <2>2. timerMap' \in Seq(Entry) /\ undefined' \in BOOLEAN
    BY <1>1, <1>5, EmplaceType, SectionType, DueType DEF StartMap, TypeOK
  <2> QED BY <1>5, <2>1, <2>2 DEF StartMap, TypeOK, helpVars, lifeVars
<1>6. CASE StartPost(u)
  <2>1. CallOK' BY <1>1, <1>6, CallReturns DEF StartPost
  <2> QED BY <1>6, <2>1 DEF StartPost, TypeOK, mapVars, helpVars, lifeVars
<1> QED BY <1>2, <1>3, <1>4, <1>5, <1>6 DEF CallStep

LEMMA TypeUser ==
  ASSUME TimerAssumption, TypeOK, NEW u \in Users, UserCall(u)
  PROVE  TypeOK'
<1>1. ASSUME NEW t \in Timers, Stop(u, t) PROVE TypeOK'
  <2>1. CallOK' BY <1>1 DEF Stop, May, TypeOK, CallOK, CallLabels
  <2> QED BY <1>1, <2>1 DEF Stop, TypeOK, mapVars, helpVars, lifeVars
<1>2. ASSUME NEW t \in Timers, NEW sec \in Durations, Start(u, t, sec)
      PROVE  TypeOK'
  <2>1. CallOK' BY <1>2 DEF Start, May, TypeOK, CallOK, CallLabels
  <2>2. starts' \in [Timers -> Nat] BY <1>2 DEF Start, TypeOK
  <2>3. UNCHANGED <<clock, mapVars, helperSem, helpVars, status, lifeVars, awaiting>>
    BY <1>2 DEF Start
  <2> QED BY <2>1, <2>2, <2>3 DEF TypeOK, mapVars, helpVars, lifeVars
<1>3. ASSUME NEW t \in Timers, NEW sta \in BOOLEAN, SetSingleShot(u, t, sta)
      PROVE  TypeOK'
  BY <1>3 DEF SetSingleShot, TypeOK, CallOK, Status, mapVars, helpVars,
              lifeVars, callVars
<1> QED BY <1>1, <1>2, <1>3 DEF UserCall

(* The loop's thread destroys timers and dispatches signals.               *)
LEMMA TypeDestroy ==
  ASSUME TypeOK, NEW t \in Timers, Destroy(t)
  PROVE  /\ status' \in [Timers -> Status]
         /\ alive' \subseteq Timers /\ awaiting' \subseteq Timers
BY DEF TypeOK, Destroy, Status

LEMMA TypeLoop ==
  ASSUME TimerAssumption, TypeOK,
         Dispatch \/ \E t \in Timers : DeleteTimer(t)
  PROVE  TypeOK'
<1>1. CASE Dispatch
  <2>1. slots # <<>> /\ Head(slots) \in Timers /\ slots' \in Seq(Timers)
    BY <1>1, HeadTailProperties DEF Dispatch, TypeOK
  <2>2. /\ status' \in [Timers -> Status]
        /\ alive' \subseteq Timers /\ awaiting' \subseteq Timers
        /\ ran' \subseteq Timers
    BY <1>1, <2>1, TypeDestroy DEF Dispatch, TypeOK
  <2> QED BY <1>1, <2>1, <2>2
          DEF Dispatch, TypeOK, CallOK, mapVars, helpVars, callVars
<1>2. ASSUME NEW t \in Timers, DeleteTimer(t) PROVE TypeOK'
  <2>1. /\ status' \in [Timers -> Status]
        /\ alive' \subseteq Timers /\ awaiting' \subseteq Timers
    BY <1>2, TypeDestroy DEF DeleteTimer
  <2> QED BY <1>2, <2>1
          DEF DeleteTimer, TypeOK, CallOK, mapVars, helpVars, callVars
<1> QED BY <1>1, <1>2

(* The helper thread.                                                      *)
LEMMA CollectType ==
  ASSUME TypeOK, Collect
  PROVE  ready' \in Seq(Timers) /\ timerMap' \in Seq(Entry)
<1> DEFINE k == Cardinality({i \in DOMAIN timerMap : IsDue(timerMap[i])})
<1>1. timerMap \in Seq(Entry)
  BY DEF TypeOK
<1>2. k \in Nat /\ k <= Len(timerMap)
  BY <1>1, CountBound
<1>3. /\ ready' = [i \in 1..k |-> timerMap[i].timer]
      /\ timerMap' = SubSeq(timerMap, k + 1, Len(timerMap))
  BY DEF Collect
<1> HIDE DEF k
<1>4. timerMap' \in Seq(Entry)
  BY <1>1, <1>2, <1>3, SubSeqProperties
<1>5. \A i \in 1..k : timerMap[i] \in Entry
  BY <1>1, <1>2
<1>6. \A i \in 1..k : timerMap[i].timer \in Timers
  BY <1>5 DEF Entry
<1>7. ready' \in [1..k -> Timers]
  BY <1>3, <1>6
<1> QED BY <1>2, <1>4, <1>7, SeqDef

LEMMA TypeHelper ==
  ASSUME TimerAssumption, TypeOK, HelperStep
  PROVE  TypeOK'
<1>1. CASE Plan
  <2>1. timerMap # <<>> => timerMap[1] \in Entry
    BY DEF TypeOK
  <2>2. timerMap # <<>> => timerMap[1].time \in Nat
    BY <2>1 DEF Entry
  <2>3. helper' \in [at : HelperLabels, until : Nat] /\ helper'.at = "wait"
    BY <1>1, <2>2 DEF Plan, HelperLabels, TimerAssumption, TypeOK
  <2> QED BY <1>1, <2>3 DEF Plan, TypeOK, CallOK, mapVars, lifeVars, callVars
<1>2. CASE Wake
  <2>1. helperSem' \in Nat
    BY <1>2 DEF Wake, TypeOK
  <2>2. helper' \in [at : HelperLabels, until : Nat] /\ helper'.at = "collect"
    BY <1>2 DEF Wake, HelperGoto, HelperAt, HelperLabels
  <2> QED BY <1>2, <2>1, <2>2 DEF Wake, TypeOK, CallOK, mapVars, lifeVars, callVars
<1>3. CASE Collect
  <2>1. helper' \in [at : HelperLabels, until : Nat] /\ helper'.at = "next"
    BY <1>3 DEF Collect, HelperGoto, HelperAt, HelperLabels
  <2> QED BY <1>3, <2>1, CollectType DEF Collect, TypeOK, CallOK, lifeVars, callVars
<1>4. CASE Examine
  <2>1. helper' \in [at : HelperLabels, until : Nat]
    BY <1>4 DEF Examine, HelperGoto, HelperAt, HelperLabels, TypeOK
  <2>2. /\ helper'.at \in {"emit", "insert"} => ready' # <<>>
        /\ ready' \in Seq(Timers)
    <3>1. CASE ready = <<>>
      BY <1>4, <3>1 DEF Examine, HelperGoto, HelperAt, TypeOK
    <3>2. CASE ready # <<>>
      <4>1. Tail(ready) \in Seq(Timers)
        BY <3>2, HeadTailProperties DEF TypeOK
      <4>2. CASE status[Head(ready)].running
        BY <1>4, <3>2, <4>2 DEF Examine, HelperGoto, HelperAt, TypeOK
      <4>3. CASE ~status[Head(ready)].running
        BY <1>4, <3>2, <4>1, <4>3 DEF Examine, TypeOK
      <4> QED BY <4>2, <4>3
    <3> QED BY <3>1, <3>2
  <2> QED BY <1>4, <2>1, <2>2
          DEF Examine, TypeOK, CallOK, mapVars, lifeVars, callVars
<1>5. CASE Emit
  <2>1. ready # <<>> /\ Head(ready) \in Timers /\ Tail(ready) \in Seq(Timers)
    BY <1>5, HeadTailProperties DEF Emit, TypeOK
  <2>2. slots' \in Seq(Timers)
    BY <1>5, <2>1, AppendProperties DEF Emit, TypeOK
  <2>3. CASE status[Head(ready)].singleShot
    <3>1. helper' \in [at : HelperLabels, until : Nat] /\ helper'.at = "next"
      BY <1>5, <2>3 DEF Emit, HelperGoto, HelperAt, HelperLabels
    <3>2. ready' \in Seq(Timers) /\ status' = status
      BY <1>5, <2>1, <2>3 DEF Emit
    <3> QED BY <1>5, <2>1, <2>2, <3>1, <3>2
            DEF Emit, TypeOK, CallOK, mapVars, callVars
  <2>4. CASE ~status[Head(ready)].singleShot
    <3>1. helper' \in [at : HelperLabels, until : Nat]
      BY <1>5, <2>4 DEF Emit, HelperGoto, HelperAt, HelperLabels
    <3>2. /\ status' = [status EXCEPT ![Head(ready)].lastEmitTime = clock]
          /\ ready' = ready
      BY <1>5, <2>4 DEF Emit
    <3>3. status' \in [Timers -> Status]
      BY <2>1, <3>2 DEF TypeOK, Status
    <3> QED BY <1>5, <2>1, <2>2, <3>1, <3>2, <3>3
            DEF Emit, TypeOK, CallOK, mapVars, callVars
  <2> QED BY <2>3, <2>4
<1>6. CASE PutBack
  <2>1. ready # <<>> /\ Head(ready) \in Timers /\ Tail(ready) \in Seq(Timers)
    BY <1>6, HeadTailProperties DEF PutBack, TypeOK
  <2>2. timerMap' \in Seq(Entry)
    BY <1>6, <2>1, DueType, EmplaceType DEF PutBack, TypeOK
  <2>3. helper' \in [at : HelperLabels, until : Nat] /\ helper'.at = "next"
    BY <1>6 DEF PutBack, HelperGoto, HelperAt, HelperLabels
  <2> QED BY <1>6, <2>1, <2>2, <2>3
          DEF PutBack, TypeOK, CallOK, lifeVars, callVars
<1> QED BY <1>1, <1>2, <1>3, <1>4, <1>5, <1>6 DEF HelperStep

LEMMA TypeNext ==
  ASSUME TimerAssumption, TypeOK, [Next]_vars
  PROVE  TypeOK'
<1>1. CASE Tick
  BY <1>1 DEF Tick, TypeOK, CallOK, mapVars, helpVars, lifeVars, callVars
<1>2. CASE HelperStep
  BY <1>2, TypeHelper
<1>3. CASE Dispatch \/ \E t \in Timers : DeleteTimer(t)
  BY <1>3, TypeLoop
<1>4. ASSUME NEW u \in Users, CallStep(u) \/ UserCall(u) PROVE TypeOK'
  BY <1>4, TypeCall, TypeUser
<1>5. CASE UNCHANGED vars
  BY <1>5 DEF vars, TypeOK, CallOK, mapVars, helpVars, lifeVars, callVars
<1> QED BY <1>1, <1>2, <1>3, <1>4, <1>5 DEF Next

(* Every variable of the timers has its type in every state; the helper is *)
(* in the section of a status only when its array has a timer left, so     *)
(* helperThread never reads the front of an empty readyTimerArray.         *)
THEOREM TimerTypeCorrect == Spec => []TypeOK
<1>1. Init => TypeOK
  BY TimerAssumption, TypeInit
<1>2. TypeOK /\ [Next]_vars => TypeOK'
  BY TimerAssumption, TypeNext
<1> QED BY <1>1, <1>2, PTL DEF Spec
-----------------------------------------------------------------------------
(* The helper and the destructor.  The helper emits the signal of a timer  *)
(* that it has seen running under the mutex of its status, and keeps the   *)
(* mutex until it is done; the destructor takes the mutex to set running   *)
(* to false.  So a timer that is running must be alive, and for that start *)
(* must not set running in a timer that dies during the call.              *)

RunningLives == \A t \in Timers : status[t].running => t \in alive

CallsLive ==
  \A u \in Users : call[u].at # "user" =>
    /\ call[u].timer \in alive
    /\ call[u].timer \in AutoDelete => u = LoopThread

LiveInv == RunningLives /\ CallsLive /\ EmitsLiveTimer

LEMMA LiveInit == ASSUME TypeOK, Init PROVE LiveInv
BY DEF Init, LiveInv, RunningLives, CallsLive, EmitsLiveTimer, UserCode, TypeOK

(* A step that leaves the helper alone and kills nobody.                   *)
LEMMA LiveKept ==
  ASSUME LiveInv, UNCHANGED <<helper, ready, alive>>
  PROVE  EmitsLiveTimer'
BY DEF LiveInv, EmitsLiveTimer

LEMMA LiveCall ==
  ASSUME TypeOK, LiveInv, NEW u \in Users, CallStep(u)
  PROVE  LiveInv'
<1> DEFINE t == call[u].timer
<1>1. call[u].at # "user" /\ t \in Timers /\ t \in alive
  BY DEF CallStep, StopStatus, StopMap, StartStatus, StartMap, StartPost,
         TypeOK, CallOK, LiveInv, CallsLive
<1>2. UNCHANGED <<helper, ready, alive>>
  BY DEF CallStep, StopStatus, StopMap, StartStatus, StartMap, StartPost,
         helpVars, lifeVars
<1>3. Return(u) \/ \E label \in CallLabels : Goto(u, label)
  BY DEF CallStep, StopStatus, StopMap, StartStatus, StartMap, StartPost,
         CallLabels
<1>4. CallsLive'
  <2>1. \A v \in Users :
          call'[v].at # "user" =>
            call[v].at # "user" /\ call'[v].timer = call[v].timer
    <3>1. CASE Return(u)
      BY <3>1 DEF Return, UserCode, TypeOK, CallOK
    <3>2. ASSUME NEW label \in CallLabels, Goto(u, label)
          PROVE  /\ call'[u].timer = t
                 /\ \A v \in Users : v # u => call'[v] = call[v]
      BY <3>2 DEF Goto, TypeOK, CallOK
    <3> QED BY <1>1, <1>3, <3>1, <3>2
  <2> QED BY <1>2, <2>1 DEF LiveInv, CallsLive
<1>5. \A v \in Timers : v # t => status'[v].running = status[v].running
  BY DEF CallStep, StopStatus, StopMap, StartStatus, StartMap, StartPost,
         TypeOK
<1>6. RunningLives'
  BY <1>1, <1>2, <1>5 DEF LiveInv, RunningLives
<1> QED BY <1>2, <1>4, <1>6, LiveKept DEF LiveInv

LEMMA LiveUser ==
  ASSUME TimerAssumption, TypeOK, LiveInv, NEW u \in Users, UserCall(u)
  PROVE  LiveInv'
<1>1. UNCHANGED <<helper, ready, alive>>
  BY DEF UserCall, Start, Stop, SetSingleShot, helpVars, lifeVars
<1>2. \A t \in Timers : status'[t].running = status[t].running
  <2>1. CASE status' = status
    BY <2>1
  <2>2. ASSUME NEW t \in Timers, NEW sta \in BOOLEAN, SetSingleShot(u, t, sta)
        PROVE  \A v \in Timers : status'[v].running = status[v].running
    BY <2>2 DEF SetSingleShot, TypeOK, Status
  <2> QED BY <2>1, <2>2 DEF UserCall, Start, Stop
<1>3. CallsLive'
  <2>1. ASSUME NEW t \in Timers, Stop(u, t) PROVE CallsLive'
    BY <2>1, <1>1 DEF Stop, May, Ops, TimerAssumption, LiveInv, CallsLive,
                      TypeOK, CallOK
  <2>2. ASSUME NEW t \in Timers, NEW sec \in Durations, Start(u, t, sec)
        PROVE  CallsLive'
    BY <2>2, <1>1 DEF Start, May, Ops, TimerAssumption, LiveInv, CallsLive,
                      TypeOK, CallOK
  <2>3. ASSUME NEW t \in Timers, NEW sta \in BOOLEAN, SetSingleShot(u, t, sta)
        PROVE  CallsLive'
    BY <2>3, <1>1 DEF SetSingleShot, LiveInv, CallsLive, callVars
  <2> QED BY <2>1, <2>2, <2>3 DEF UserCall
<1> QED BY <1>1, <1>2, <1>3, LiveKept DEF LiveInv, RunningLives

(* Nobody is in a call on the timer that dies, nor is the helper.          *)
LEMMA LiveDestroy ==
  ASSUME TypeOK, LiveInv, NEW t \in Timers, Destroy(t),
         \A u \in Users : call[u].at # "user" => call[u].timer # t,
         UNCHANGED <<helper, ready, call>>
  PROVE  LiveInv'
<1>1. EmitsLiveTimer'
  BY DEF Destroy, Locked, LiveInv, EmitsLiveTimer
<1>2. RunningLives'
  BY DEF Destroy, LiveInv, RunningLives, TypeOK, Status
<1>3. CallsLive'
  BY DEF Destroy, LiveInv, CallsLive
<1> QED BY <1>1, <1>2, <1>3 DEF LiveInv

LEMMA LiveLoop ==
  ASSUME TimerAssumption, TypeOK, LiveInv,
         Dispatch \/ \E t \in Timers : DeleteTimer(t)
  PROVE  LiveInv'
<1>1. CASE Dispatch
  <2> DEFINE t == Head(slots)
  <2>1. UNCHANGED <<helper, ready, call>> /\ t \in Timers
    BY <1>1, HeadTailProperties DEF Dispatch, helpVars, callVars, TypeOK
  <2>2. CASE t \in alive \cap AutoDelete
    <3>1. Destroy(t)
      BY <1>1, <2>2 DEF Dispatch
    <3>2. \A u \in Users : call[u].at # "user" => call[u].timer # t
      BY <1>1, <2>2 DEF Dispatch, LiveInv, CallsLive
    <3> QED BY <2>1, <3>1, <3>2, LiveDestroy
  <2>3. CASE t \notin alive \cap AutoDelete
    <3>1. UNCHANGED <<alive, status>>
      BY <1>1, <2>3 DEF Dispatch
    <3> QED BY <2>1, <3>1
            DEF LiveInv, RunningLives, CallsLive, EmitsLiveTimer
  <2> QED BY <2>2, <2>3
<1>2. ASSUME NEW t \in Timers, DeleteTimer(t) PROVE LiveInv'
  BY <1>2, LiveDestroy DEF DeleteTimer, helpVars, callVars
<1> QED BY <1>1, <1>2

LEMMA LiveHelper ==
  ASSUME TypeOK, LiveInv, HelperStep
  PROVE  LiveInv'
<1>1. UNCHANGED <<alive, call>>
  BY DEF HelperStep, Plan, Wake, Collect, Examine, Emit, PutBack, lifeVars,
         callVars
<1>2. \A t \in Timers : status'[t].running = status[t].running
  <2>1. CASE status' = status
    BY <2>1
  <2>2. CASE Emit /\ status' # status
    <3>1. status' = [status EXCEPT ![Head(ready)].lastEmitTime = clock]
      BY <2>2 DEF Emit
    <3> QED BY <3>1 DEF TypeOK, Status
  <2> QED BY <2>1, <2>2 DEF HelperStep, Plan, Wake, Collect, Examine, PutBack
<1>3. RunningLives' /\ CallsLive'
  BY <1>1, <1>2 DEF LiveInv, RunningLives, CallsLive
<1>4. EmitsLiveTimer'
  <2>1. CASE Plan \/ Wake \/ Collect \/ PutBack
    BY <2>1 DEF Plan, Wake, Collect, PutBack, HelperGoto, HelperAt,
                EmitsLiveTimer
  <2>2. CASE Examine
    <3>1. CASE helper'.at \in {"emit", "insert"}
      <4>1. ready # <<>> /\ status[Head(ready)].running /\ ready' = ready
        BY <2>2, <3>1 DEF Examine, HelperGoto, HelperAt
      <4>2. Head(ready) \in Timers
        BY <4>1, HeadTailProperties DEF TypeOK
      <4> QED BY <1>1, <4>1, <4>2 DEF LiveInv, RunningLives, EmitsLiveTimer
    <3>2. CASE helper'.at \notin {"emit", "insert"}
      BY <3>2 DEF EmitsLiveTimer
    <3> QED BY <3>1, <3>2
  <2>3. CASE Emit
    BY <1>1, <2>3 DEF Emit, HelperGoto, HelperAt, LiveInv, EmitsLiveTimer
  <2> QED BY <2>1, <2>2, <2>3 DEF HelperStep
<1> QED BY <1>3, <1>4 DEF LiveInv

LEMMA LiveNext ==
  ASSUME TimerAssumption, TypeOK, LiveInv, [Next]_vars
  PROVE  LiveInv'
<1>1. CASE Tick
  BY <1>1 DEF Tick, LiveInv, RunningLives, CallsLive, EmitsLiveTimer,
              helpVars, lifeVars, callVars
<1>2. CASE HelperStep
  BY <1>2, LiveHelper
<1>3. CASE Dispatch \/ \E t \in Timers : DeleteTimer(t)
  BY <1>3, LiveLoop
<1>4. ASSUME NEW u \in Users, CallStep(u) \/ UserCall(u) PROVE LiveInv'
  BY <1>4, LiveCall, LiveUser
<1>5. CASE UNCHANGED vars
  BY <1>5 DEF vars, LiveInv, RunningLives, CallsLive, EmitsLiveTimer,
              helpVars, lifeVars, callVars
<1> QED BY <1>1, <1>2, <1>3, <1>4, <1>5 DEF Next

(* The helper thread never touches the signal of a destroyed timer, and no *)
(* timer dies while it is emitting its signal: the destructor waits for    *)
(* the mutex of the status.                                                *)
THEOREM HelperEmitsLiveTimer == Spec => []EmitsLiveTimer
<1>1. Init => TypeOK /\ LiveInv
  BY TimerAssumption, TypeInit, LiveInit
<1>2. TypeOK /\ LiveInv /\ [Next]_vars => TypeOK' /\ LiveInv'
  BY TimerAssumption, TypeNext, LiveNext
<1>3. LiveInv => EmitsLiveTimer
  BY DEF LiveInv
<1> QED BY <1>1, <1>2, <1>3, PTL DEF Spec
-----------------------------------------------------------------------------
(* What emplacing and erasing do to a sorted map.                          *)

Sorted(map) ==
  \A i, j \in DOMAIN map : i <= j => map[i].time <= map[j].time

(* The entries of t in a map, and that there is at most one.               *)
At(map, t) == {i \in DOMAIN map : map[i].timer = t}
Unique(map, t) == \A i, j \in At(map, t) : i = j

(* A map with e put in after its first k entries; one with the entry after *)
(* its first k taken out, if there is one.                                 *)
Inserted(map, new, k, e) ==
  /\ k \in 0..Len(map) /\ new \in Seq(Entry) /\ Len(new) = Len(map) + 1
  /\ new[k + 1] = e
  /\ \A i \in 1..k : new[i] = map[i]
  /\ \A i \in k + 2..Len(new) : new[i] = map[i - 1]

Removed(map, new, k) ==
  /\ k \in 0..Len(map) /\ new \in Seq(Entry)
  /\ Len(new) = IF k = Len(map) THEN k ELSE Len(map) - 1
  /\ \A i \in 1..k : new[i] = map[i]
  /\ \A i \in k + 1..Len(new) : new[i] = map[i + 1]

(* Positions that are closed downwards are the first ones.                 *)
LEMMA FirstOnes ==
  ASSUME NEW n \in Nat, NEW S \in SUBSET (1..n),
         \A i \in S : \A j \in 1..i : j \in S
  PROVE  S = 1..Cardinality(S)
<1>1. IsFiniteSet(S) /\ Cardinality(S) \in Nat
  <2>1. IsFiniteSet(1..n)
    BY FS_Interval
  <2> QED BY <2>1, FS_Subset, FS_CardinalityType
<1>2. \A i \in S : i <= Cardinality(S)
  <2>1. TAKE i \in S
  <2>2. i \in Nat /\ 1..i \subseteq S
    BY <2>1
  <2>3. Cardinality(1..i) = i
    BY <2>2, FS_Interval
  <2>4. Cardinality(1..i) <= Cardinality(S)
    BY <1>1, <2>2, FS_Subset
  <2> QED BY <2>3, <2>4
<1> DEFINE k == Cardinality(S)
<1>3. k \in Nat BY <1>1
<1>4. S \subseteq 1..k BY <1>2
<1> HIDE DEF k
<1>5. IsFiniteSet(1..k) /\ Cardinality(1..k) = k
  BY <1>3, FS_Interval
<1>6. Cardinality(S) = k BY DEF k
<1>7. S = 1..k
  BY <1>4, <1>5, <1>6, FS_Subset
<1> QED BY <1>7 DEF k

(* The entries up to a time are the first ones of a sorted map.            *)
LEMMA DueFirst ==
  ASSUME NEW map \in Seq(Entry), Sorted(map), NEW time \in Nat
  PROVE  {i \in DOMAIN map : map[i].time <= time}
           = 1..Cardinality({i \in DOMAIN map : map[i].time <= time})
<1> DEFINE S == {i \in DOMAIN map : map[i].time <= time}
<1>1. DOMAIN map = 1..Len(map) /\ Len(map) \in Nat
  BY LenProperties
<1>2. \A i \in DOMAIN map : map[i].time \in Nat
  <2>1. \A i \in DOMAIN map : map[i] \in Entry
    BY LenProperties
  <2> QED BY <2>1 DEF Entry
<1>3. \A i \in S : \A j \in 1..i : j \in S
  <2>1. TAKE i \in S
  <2>2. TAKE j \in 1..i
  <2>3. j \in DOMAIN map /\ i \in DOMAIN map /\ j <= i /\ map[i].time <= time
    BY <1>1, <2>1, <2>2
  <2>4. map[j].time <= map[i].time
    BY <2>3 DEF Sorted
  <2> QED BY <1>2, <2>3, <2>4
<1>4. S \in SUBSET (1..Len(map))
  BY <1>1
<1> HIDE DEF S
<1>5. S = 1..Cardinality(S)
  BY <1>1, <1>3, <1>4, FirstOnes
<1> QED BY <1>5 DEF S

LEMMA EmplaceInserts ==
  ASSUME NEW map \in Seq(Entry), NEW t \in Timers, NEW time \in Nat
  PROVE  \E k \in Nat :
           /\ Inserted(map, Emplace(map, t, time), k,
                       [time |-> time, timer |-> t])
           /\ Sorted(map) =>
                {i \in DOMAIN map : map[i].time <= time} = 1..k
<1> DEFINE k == Cardinality({i \in DOMAIN map : map[i].time <= time})
           e == [time |-> time, timer |-> t]
           new == Emplace(map, t, time)
<1>1. Sorted(map) => {i \in DOMAIN map : map[i].time <= time} = 1..k
  BY DueFirst
<1>2. k \in Nat /\ k <= Len(map) /\ Len(map) \in Nat
  BY CountBound
<1>3. new = SubSeq(map, 1, k) \o <<e>> \o SubSeq(map, k + 1, Len(map))
  BY DEF Emplace
<1>4. new \in Seq(Entry) BY EmplaceType
<1>5. e \in Entry BY DEF Entry
<1>6. \A i \in 1..Len(map) : map[i] \in Entry
  BY LenProperties
<1> HIDE DEF k, e, new
<1> DEFINE n == Len(map)
           a == SubSeq(map, 1, k)
           b == SubSeq(map, k + 1, n)
<1>7. /\ a \in Seq(Entry) /\ Len(a) = k
      /\ \A i \in 1..k : a[i] = map[i]
  BY <1>2, <1>6, SubSeqProperties
<1>8. /\ b \in Seq(Entry) /\ Len(b) = n - k
      /\ \A i \in 1..n - k : b[i] = map[i + k]
  <2>1. \A i \in k + 1..n : map[i] \in Entry
    BY <1>2, <1>6
  <2>2. /\ b \in Seq(Entry) /\ Len(b) = IF k + 1 <= n THEN n - (k + 1) + 1 ELSE 0
        /\ \A i \in 1..n - (k + 1) + 1 : b[i] = map[k + 1 + i - 1]
    BY <1>2, <2>1, SubSeqProperties
  <2> QED BY <1>2, <2>2
<1> DEFINE c == a \o <<e>>
<1>9. <<e>> \in Seq(Entry) /\ Len(<<e>>) = 1 /\ <<e>>[1] = e
  BY <1>5
<1> HIDE DEF a, b, n
<1>10. /\ c \in Seq(Entry) /\ Len(c) = k + 1 /\ c[k + 1] = e
       /\ \A i \in 1..k : c[i] = map[i]
  <2>1. /\ c \in Seq(Entry) /\ Len(c) = Len(a) + 1
        /\ \A i \in 1..Len(a) + 1 :
             c[i] = IF i <= Len(a) THEN a[i] ELSE <<e>>[i - Len(a)]
    BY <1>7, <1>9, ConcatProperties
  <2> QED BY <1>2, <1>7, <1>9, <2>1
<1> HIDE DEF c
<1>11. /\ Len(c \o b) = n + 1
       /\ \A i \in 1..k + 1 : (c \o b)[i] = c[i]
       /\ \A i \in k + 2..n + 1 : (c \o b)[i] = map[i - 1]
  <2>1. /\ Len(c \o b) = Len(c) + Len(b)
        /\ \A i \in 1..Len(c) + Len(b) :
             (c \o b)[i] = IF i <= Len(c) THEN c[i] ELSE b[i - Len(c)]
    BY <1>8, <1>10, ConcatProperties
  <2>2. k \in Nat /\ n \in Nat /\ k <= n
    BY <1>2 DEF n
  <2>3. \A i \in k + 2..n + 1 : (c \o b)[i] = b[i - (k + 1)]
    BY <1>8, <1>10, <2>1, <2>2
  <2>4. \A i \in k + 2..n + 1 : i - (k + 1) \in 1..n - k /\ i - (k + 1) + k = i - 1
    BY <2>2
  <2>5. \A i \in k + 2..n + 1 : (c \o b)[i] = map[i - 1]
    <3>1. TAKE i \in k + 2..n + 1
    <3>2. PICK j \in 1..n - k : j = i - (k + 1)
      BY <2>4
    <3>3. (c \o b)[i] = b[j] /\ j + k = i - 1
      BY <2>3, <2>4, <3>2
    <3> QED BY <1>8, <3>3
  <2>6. \A i \in 1..k + 1 : (c \o b)[i] = c[i]
    BY <1>8, <1>10, <2>1, <2>2
  <2>7. Len(c \o b) = n + 1
    BY <1>8, <1>10, <2>1, <2>2
  <2> QED BY <2>5, <2>6, <2>7
<1>12. new = c \o b
  BY <1>3 DEF a, b, c, n
<1>13. Inserted(map, new, k, e)
  BY <1>2, <1>4, <1>10, <1>11, <1>12 DEF Inserted, n
<1> QED BY <1>1, <1>2, <1>13 DEF e, new

LEMMA EraseRemoves ==
  ASSUME NEW map \in Seq(Entry), NEW t, NEW time
  PROVE  \E k \in Nat : Removed(map, EraseEntry(map, t, time), k)
<1> DEFINE entry == [time |-> time, timer |-> t]
           k == Cardinality({i \in DOMAIN map :
                               \A j \in 1..i : map[j] # entry})
           new == EraseEntry(map, t, time)
<1>1. k \in Nat /\ k <= Len(map) /\ Len(map) \in Nat
  BY CountBound
<1>2. new = SubSeq(map, 1, k) \o SubSeq(map, k + 2, Len(map))
  BY DEF EraseEntry
<1>3. new \in Seq(Entry) BY EraseType
<1>4. \A i \in 1..Len(map) : map[i] \in Entry
  BY LenProperties
<1> HIDE DEF k, new
<1> DEFINE n == Len(map)
           a == SubSeq(map, 1, k)
           b == SubSeq(map, k + 2, n)
<1>5. /\ a \in Seq(Entry) /\ Len(a) = k
      /\ \A i \in 1..k : a[i] = map[i]
  BY <1>1, <1>4, SubSeqProperties
<1>6. /\ b \in Seq(Entry) /\ Len(b) = IF k = n THEN 0 ELSE n - k - 1
      /\ \A i \in 1..n - k - 1 : b[i] = map[i + k + 1]
  <2>1. \A i \in k + 2..n : map[i] \in Entry
    BY <1>1, <1>4
  <2>2. /\ b \in Seq(Entry)
        /\ Len(b) = IF k + 2 <= n THEN n - (k + 2) + 1 ELSE 0
        /\ \A i \in 1..n - (k + 2) + 1 : b[i] = map[k + 2 + i - 1]
    BY <1>1, <2>1, SubSeqProperties
  <2> QED BY <1>1, <2>2
<1> HIDE DEF a, b
<1>7. /\ Len(new) = Len(a) + Len(b)
      /\ \A i \in 1..Len(a) + Len(b) :
           new[i] = IF i <= Len(a) THEN a[i] ELSE b[i - Len(a)]
  BY <1>2, <1>5, <1>6, ConcatProperties DEF a, b
<1>8. Len(new) = IF k = n THEN k ELSE n - 1
  BY <1>1, <1>5, <1>6, <1>7
<1>9. \A i \in 1..k : new[i] = map[i]
  BY <1>1, <1>5, <1>6, <1>7
<1>10. \A i \in k + 1..Len(new) : new[i] = map[i + 1]
  <2>1. TAKE i \in k + 1..Len(new)
  <2>2. i - k \in 1..n - k - 1 /\ i - k + k + 1 = i + 1 /\ ~(i <= k)
    BY <1>1, <1>8
  <2>3. i \in 1..Len(a) + Len(b)
    BY <1>1, <1>5, <1>6, <1>7
  <2>4. new[i] = b[i - k]
    BY <1>5, <1>7, <2>2, <2>3
  <2> QED BY <1>6, <2>2, <2>4
<1> QED BY <1>1, <1>3, <1>8, <1>9, <1>10 DEF Removed, new

(* What the new map has of a timer, the old one had, and one if one.       *)
Fewer(map, new, t) ==
  /\ Unique(map, t) => Unique(new, t)
  /\ \A i \in At(new, t) : \E j \in At(map, t) : new[i] = map[j]

(* What a map has of other timers than that of e stays.                    *)
LEMMA InsertOther ==
  ASSUME NEW map \in Seq(Entry), NEW new, NEW k, NEW e, NEW t,
         Inserted(map, new, k, e), e.timer # t
  PROVE  Fewer(map, new, t)
<1> DEFINE f(i) == IF i <= k THEN i ELSE i - 1
<1>1. /\ k \in 0..Len(map) /\ Len(map) \in Nat /\ DOMAIN map = 1..Len(map)
      /\ DOMAIN new = 1..Len(map) + 1
  BY LenProperties DEF Inserted
<1>2. \A i \in DOMAIN new : i = k + 1 \/ (f(i) \in DOMAIN map /\ new[i] = map[f(i)])
  BY <1>1 DEF Inserted
<1>3. \A i \in At(new, t) : i # k + 1
  BY DEF Inserted, At
<1>4. \A i \in At(new, t) : f(i) \in At(map, t) /\ new[i] = map[f(i)]
  BY <1>2, <1>3 DEF At
<1>5. \A i, j \in At(new, t) : f(i) = f(j) => i = j
  <2>1. TAKE i, j \in At(new, t)
  <2>2. /\ i \in 1..Len(map) + 1 /\ i # k + 1
        /\ j \in 1..Len(map) + 1 /\ j # k + 1
    BY <1>1, <1>3 DEF At
  <2> QED BY <1>1, <2>2
<1> QED BY <1>4, <1>5 DEF Unique, Fewer

LEMMA InsertOwn ==
  ASSUME NEW map \in Seq(Entry), NEW new, NEW k, NEW e, NEW t,
         Inserted(map, new, k, e), e.timer = t, At(map, t) = {}
  PROVE  Unique(new, t) /\ \A i \in At(new, t) : new[i] = e
<1>1. /\ k \in 0..Len(map) /\ Len(map) \in Nat /\ DOMAIN map = 1..Len(map)
      /\ DOMAIN new = 1..Len(map) + 1
  BY LenProperties DEF Inserted
<1>2. \A i \in DOMAIN new : i = k + 1 \/ \E j \in DOMAIN map : new[i] = map[j]
  <2>1. TAKE i \in DOMAIN new
  <2>2. CASE i <= k
    BY <1>1, <2>1, <2>2 DEF Inserted
  <2>3. CASE i > k + 1
    <3>1. i - 1 \in DOMAIN map /\ i \in k + 2..Len(new)
      BY <1>1, <2>1, <2>3 DEF Inserted
    <3> QED BY <3>1 DEF Inserted
  <2> QED BY <1>1, <2>1, <2>2, <2>3
<1>3. \A i \in At(new, t) : i = k + 1
  BY <1>2 DEF At
<1> QED BY <1>3 DEF Unique, Inserted

LEMMA RemoveKeeps ==
  ASSUME NEW map \in Seq(Entry), NEW new, NEW k, NEW t, Removed(map, new, k)
  PROVE  Fewer(map, new, t) /\ (Sorted(map) => Sorted(new))
<1> DEFINE f(i) == IF i <= k THEN i ELSE i + 1
<1>1. /\ k \in 0..Len(map) /\ Len(map) \in Nat /\ DOMAIN map = 1..Len(map)
      /\ DOMAIN new = 1..Len(new) /\ Len(new) \in Nat
  BY LenProperties DEF Removed
<1>2. \A i \in DOMAIN new : f(i) \in DOMAIN map /\ new[i] = map[f(i)]
  <2>1. TAKE i \in DOMAIN new
  <2>2. i \in 1..Len(new)
    BY <1>1
  <2>0. Len(new) = IF k = Len(map) THEN k ELSE Len(map) - 1
    BY DEF Removed
  <2>3. f(i) \in DOMAIN map
    <3>1. k \in Nat /\ i \in Nat /\ i >= 1 /\ k <= Len(map) /\ i <= Len(new)
      BY <1>1, <2>2
    <3>2. CASE i <= k
      BY <1>1, <3>1, <3>2
    <3>3. CASE ~(i <= k)
      <4>1. k # Len(map) /\ i <= Len(map) - 1
        BY <1>1, <2>0, <3>1, <3>3
      <4>2. f(i) = i + 1 /\ i + 1 \in 1..Len(map)
        <5>1. f(i) = i + 1
          BY <3>3
        <5>2. i + 1 >= 1 /\ i + 1 <= Len(map)
          <6> DEFINE n == Len(map)
          <6>1. n \in Nat /\ i \in Nat /\ i >= 1 /\ i <= n - 1
            BY <1>1, <3>1, <4>1
          <6> HIDE DEF n
          <6>2. i + 1 >= 1 /\ i + 1 <= n
            BY <6>1
          <6> QED BY <6>2 DEF n
        <5> QED BY <1>1, <3>1, <5>1, <5>2
      <4> QED BY <1>1, <4>2
    <3> QED BY <3>2, <3>3
  <2>4. CASE i <= k
    <3>1. i \in 1..k
      BY <1>1, <2>2, <2>4
    <3> QED BY <2>3, <2>4, <3>1 DEF Removed
  <2>5. CASE ~(i <= k)
    <3>1. i \in k + 1..Len(new)
      BY <1>1, <2>2, <2>5
    <3> QED BY <2>3, <2>5, <3>1 DEF Removed
  <2> QED BY <2>4, <2>5
<1>3. \A i, j \in DOMAIN new : (f(i) = f(j) => i = j) /\ (i <= j => f(i) <= f(j))
  BY <1>1
<1>4. \A i \in At(new, t) : f(i) \in At(map, t) /\ new[i] = map[f(i)]
  BY <1>2 DEF At
<1>5. Unique(map, t) => Unique(new, t)
  <2> HIDE DEF f
  <2> QED BY <1>3, <1>4 DEF Unique, At
<1>6. Sorted(map) => Sorted(new)
  <2> HIDE DEF f
  <2> QED BY <1>2, <1>3 DEF Sorted
<1>7. Fewer(map, new, t)
  BY <1>4, <1>5 DEF Fewer
<1> QED BY <1>6, <1>7

LEMMA InsertSorted ==
  ASSUME NEW map \in Seq(Entry), NEW new, NEW k, NEW e \in Entry, Sorted(map),
         Inserted(map, new, k, e),
         {i \in DOMAIN map : map[i].time <= e.time} = 1..k
  PROVE  Sorted(new)
<1> DEFINE f(i) == IF i <= k THEN i ELSE i - 1
<1>1. /\ k \in 0..Len(map) /\ Len(map) \in Nat /\ DOMAIN map = 1..Len(map)
      /\ DOMAIN new = 1..Len(map) + 1 /\ e.time \in Nat
  BY LenProperties DEF Inserted, Entry
<1>2. \A i \in DOMAIN map : map[i].time \in Nat
  <2>1. \A i \in DOMAIN map : map[i] \in Entry
    BY LenProperties
  <2> QED BY <2>1 DEF Entry
<1>3. \A i \in DOMAIN new : i # k + 1 => f(i) \in DOMAIN map /\ new[i] = map[f(i)]
  BY <1>1 DEF Inserted
<1>4. new[k + 1] = e
  BY DEF Inserted
<1> SUFFICES ASSUME NEW i \in DOMAIN new, NEW j \in DOMAIN new, i <= j
             PROVE  new[i].time <= new[j].time
  BY DEF Sorted
<1>5. CASE i # k + 1 /\ j # k + 1
  <2>1. f(i) <= f(j)
    BY <1>1, <1>5
  <2> HIDE DEF f
  <2> QED BY <1>3, <1>5, <2>1 DEF Sorted
<1>6. CASE i = k + 1 /\ j # k + 1
  <2>1. f(j) \in DOMAIN map /\ f(j) \notin 1..k
    BY <1>1, <1>3, <1>6
  <2>2. ~(map[f(j)].time <= e.time)
    BY <2>1
  <2> HIDE DEF f
  <2> QED BY <1>1, <1>2, <1>3, <1>4, <1>6, <2>1, <2>2
<1>7. CASE i # k + 1 /\ j = k + 1
  <2>1. f(i) \in 1..k
    BY <1>1, <1>7
  <2>2. map[f(i)].time <= e.time
    BY <2>1
  <2> HIDE DEF f
  <2> QED BY <1>3, <1>4, <1>7, <2>2
<1>8. CASE i = k + 1 /\ j = k + 1
  BY <1>1, <1>4, <1>8
<1> QED BY <1>5, <1>6, <1>7, <1>8

(* g_timerMap is sorted after Emplace, and after EraseEntry.               *)
LEMMA EmplaceSorted ==
  ASSUME NEW map \in Seq(Entry), Sorted(map), NEW t \in Timers, NEW time \in Nat
  PROVE  Sorted(Emplace(map, t, time))
<1>1. [time |-> time, timer |-> t] \in Entry
  BY DEF Entry
<1> QED BY <1>1, EmplaceInserts, InsertSorted

LEMMA EraseSorted ==
  ASSUME NEW map \in Seq(Entry), Sorted(map), NEW t, NEW time
  PROVE  Sorted(EraseEntry(map, t, time))
<1>1. PICK k \in Nat : Removed(map, EraseEntry(map, t, time), k)
  BY EraseRemoves
<1> QED BY <1>1, RemoveKeeps

-----------------------------------------------------------------------------
(* One place for a timer that is started at most once.  The map is sorted, *)
(* so the helper takes the timers that are due and no others; a start has  *)
(* its timer out of the map and of the array before it sets the new due    *)
(* time, since there was no place for it yet.                              *)

NoPlace(t) == Entries(t) = {} /\ Collected(t) = {}

InOnePlace(t) ==
  /\ Unique(timerMap, t)
  /\ \A i, j \in Collected(t) : i = j
  /\ Entries(t) = {} \/ Collected(t) = {}

(* u is in start on t.                                                     *)
InStart(u, t) ==
  call[u].at # "user" /\ call[u].timer = t /\ call[u].sec # Nil

PuttingBack(t) == helper.at = "insert" /\ Head(ready) = t

(* The entry of t is where stop looks for it, and the helper has it only   *)
(* when it is due.                                                         *)
EntryOnTime(t) ==
  /\ \A i \in Entries(t) : timerMap[i].time = Due(t)
  /\ Collected(t) # {} /\ ~PuttingBack(t) => Due(t) <= clock

StartsAlone(t) ==
  /\ \A u \in Users : InStart(u, t) /\ call[u].at # "post" => NoPlace(t)
  /\ \A u, v \in Users : InStart(u, t) /\ InStart(v, t) => u = v
  /\ starts[t] = 0 => NoPlace(t) /\ \A u \in Users : ~InStart(u, t)

PlaceOK(t) == InOnePlace(t) /\ EntryOnTime(t) /\ StartsAlone(t)

PlaceInv ==
  /\ Sorted(timerMap)
  /\ \A t \in Timers : starts[t] <= 1 => PlaceOK(t)

(* A set with no two elements has at most one.                             *)
LEMMA AtMostOne ==
  ASSUME NEW S, \A x, y \in S : x = y
  PROVE  IsFiniteSet(S) /\ Cardinality(S) \in {0, 1}
         /\ (S = {} => Cardinality(S) = 0)
<1>1. CASE S = {}
  BY <1>1, FS_EmptySet
<1>2. CASE S # {}
  <2>1. PICK x \in S : TRUE
    BY <1>2
  <2>2. S = {x}
    BY <2>1
  <2> QED BY <1>2, <2>2, FS_Singleton
<1> QED BY <1>1, <1>2

LEMMA PlaceGives ==
  ASSUME TypeOK, PlaceInv
  PROVE  OneEntry /\ NoEarlyFirstTimeout
<1> SUFFICES ASSUME NEW t \in Timers, starts[t] <= 1
             PROVE  /\ Cardinality(Entries(t)) + Cardinality(Collected(t)) <= 1
                    /\ \A i \in Entries(t) : timerMap[i].time = Due(t)
                    /\ OnTime(t)
  BY DEF OneEntry, NoEarlyFirstTimeout
<1>1. InOnePlace(t) /\ EntryOnTime(t)
  BY DEF PlaceInv, PlaceOK
<1>2. Cardinality(Entries(t)) + Cardinality(Collected(t)) <= 1
  <2>1. \A i, j \in Entries(t) : i = j
    BY <1>1 DEF InOnePlace, Unique, At, Entries
  <2>2. \A i, j \in Collected(t) : i = j
    BY <1>1 DEF InOnePlace
  <2>3. /\ Cardinality(Entries(t)) \in {0, 1}
        /\ Entries(t) = {} => Cardinality(Entries(t)) = 0
    BY <2>1, AtMostOne
  <2>4. /\ Cardinality(Collected(t)) \in {0, 1}
        /\ Collected(t) = {} => Cardinality(Collected(t)) = 0
    BY <2>2, AtMostOne
  <2> QED BY <1>1, <2>3, <2>4 DEF InOnePlace
<1>3. OnTime(t)
  <2>1. CASE helper.at = "emit" /\ Head(ready) = t
    <3>1. ready \in Seq(Timers) /\ ready # <<>>
      BY <2>1 DEF TypeOK
    <3>2. 1 \in Collected(t)
      BY <2>1, <3>1 DEF Collected
    <3>3. Due(t) <= clock
      BY <1>1, <2>1, <3>2 DEF EntryOnTime, PuttingBack
    <3>4. Due(t) \in Nat /\ clock \in Nat
      BY DueType DEF TypeOK
    <3> QED BY <3>3, <3>4 DEF OnTime
  <2> QED BY <2>1 DEF OnTime
<1> QED BY <1>1, <1>2, <1>3 DEF EntryOnTime

LEMMA PlaceInit == ASSUME TypeOK, Init PROVE PlaceInv
<1>1. timerMap = <<>> /\ ready = <<>> /\ DOMAIN timerMap = {} /\ DOMAIN ready = {}
  BY DEF Init
<1>2. \A t \in Timers : NoPlace(t)
  BY <1>1 DEF NoPlace, Entries, Collected
<1>3. \A u \in Users, t \in Timers : ~InStart(u, t)
  BY DEF Init, InStart, UserCode
<1> QED BY <1>1, <1>2, <1>3
        DEF PlaceInv, PlaceOK, InOnePlace, EntryOnTime, StartsAlone, NoPlace,
            Sorted, Unique, At, Entries

(* Where the entries of t come from: its entries, or places, before.       *)
FewerPlaces(t) ==
  /\ Unique(timerMap, t) => Unique(timerMap, t)'
  /\ \A i \in Entries(t)' : \E j \in Entries(t) : timerMap'[i] = timerMap[j]
  /\ ready' = ready

(* A step that does not set the due time of t, nor puts it anywhere.       *)
LEMMA PlaceKept ==
  ASSUME TypeOK, TypeOK', NEW t \in Timers, PlaceOK(t), FewerPlaces(t),
         starts'[t] = starts[t], Due(t)' = Due(t), clock <= clock',
         helper' = helper,
         \A u \in Users : InStart(u, t)' =>
           InStart(u, t) /\ (call'[u].at # "post" => call[u].at # "post")
  PROVE  PlaceOK(t)'
<1>1. Collected(t)' = Collected(t)
  BY DEF FewerPlaces, Collected
<1>2. Entries(t) = {} => Entries(t)' = {}
  BY DEF FewerPlaces
<1>3. InOnePlace(t)'
  BY <1>1, <1>2 DEF PlaceOK, InOnePlace, FewerPlaces
<1>4. EntryOnTime(t)'
  <2>1. \A i \in Entries(t)' : timerMap'[i].time = Due(t)'
    BY DEF FewerPlaces, PlaceOK, EntryOnTime
  <2>2. PuttingBack(t)' <=> PuttingBack(t)
    BY DEF PuttingBack, FewerPlaces
  <2>3. Due(t) \in Nat /\ clock \in Nat /\ clock' \in Nat
    BY DueType DEF TypeOK
  <2> QED BY <1>1, <2>1, <2>2, <2>3 DEF PlaceOK, EntryOnTime
<1>5. StartsAlone(t)'
  <2>1. NoPlace(t) => NoPlace(t)'
    BY <1>1, <1>2 DEF NoPlace
  <2> QED BY <2>1 DEF PlaceOK, StartsAlone
<1> QED BY <1>3, <1>4, <1>5 DEF PlaceOK

LEMMA PlacesStay ==
  ASSUME UNCHANGED <<timerMap, ready>>, NEW t
  PROVE  FewerPlaces(t)
BY DEF FewerPlaces, Unique, At, Entries

(* The calls: what a thread is in start on, it was before.                 *)
LEMMA CallsGo ==
  ASSUME TypeOK, NEW u \in Users, call[u].at # "user", NEW label \in CallLabels,
         Goto(u, label), label = "post" \/ call[u].at # "post"
  PROVE  /\ \A v \in Users, t \in Timers : InStart(v, t)' =>
              InStart(v, t) /\ (call'[v].at # "post" => call[v].at # "post")
         /\ label = "post" => \A t \in Timers : InStart(u, t)' => call'[u].at = "post"
BY DEF Goto, TypeOK, CallOK, InStart

LEMMA CallsReturn ==
  ASSUME TypeOK, NEW u \in Users, Return(u)
  PROVE  \A v \in Users, t \in Timers : InStart(v, t)' =>
           InStart(v, t) /\ (call'[v].at # "post" => call[v].at # "post")
BY DEF Return, UserCode, TypeOK, CallOK, InStart

LEMMA PlaceCall ==
  ASSUME TimerAssumption, TypeOK, TypeOK', PlaceInv, NEW u \in Users, CallStep(u)
  PROVE  PlaceInv'
<1>1. PICK t \in Timers : call[u].timer = t /\ call[u].at # "user"
  BY DEF CallStep, StopStatus, StopMap, StartStatus, StartMap, StartPost,
         TypeOK, CallOK
<1>2. UNCHANGED <<clock, helper, ready, starts>>
  BY DEF CallStep, StopStatus, StopMap, StartStatus, StartMap, StartPost,
         helpVars
<1>3. clock <= clock'
  BY <1>2 DEF TypeOK
<1> DEFINE Narrower ==
             \A v \in Users, x \in Timers : InStart(v, x)' =>
               InStart(v, x) /\ (call'[v].at # "post" => call[v].at # "post")
<1>4. CASE StopStatus(u)
  <2>1. Narrower
    BY <1>1, <1>4, CallsGo DEF StopStatus, CallLabels
  <2>2. \A x \in Timers : Due(x)' = Due(x)
    BY <1>1, <1>4 DEF StopStatus, Due, TypeOK, Status
  <2>3. timerMap' = timerMap
    BY <1>4 DEF StopStatus, mapVars
  <2> QED BY <1>2, <1>3, <2>1, <2>2, <2>3, PlacesStay, PlaceKept DEF PlaceInv
<1>5. CASE StopMap(u)
  <2>1. Narrower
    BY <1>1, <1>5, CallsGo, CallsReturn DEF StopMap, CallLabels
  <2>2. \A x \in Timers : Due(x)' = Due(x)
    BY <1>5 DEF StopMap, Due
  <2>3. timerMap \in Seq(Entry)
    BY DEF TypeOK
  <2>4. PICK new \in Seq(Entry) : /\ new = EraseEntry(timerMap, t, Due(t))
                                  /\ \E k \in Nat : Removed(timerMap, new, k)
    BY <2>3, EraseType, EraseRemoves
  <2>5. timerMap' = new \/ timerMap' = timerMap
    BY <1>1, <1>5, <2>4 DEF StopMap, Section
  <2>6. \A x \in Timers : FewerPlaces(x)
    <3>1. CASE timerMap' = new
      <4>1. TAKE x \in Timers
      <4>2. PICK k \in Nat : Removed(timerMap, new, k)
        BY <2>4
      <4>3. Fewer(timerMap, new, x)
        BY <2>3, <4>2, RemoveKeeps
      <4>4. Entries(x)' = At(new, x) /\ Entries(x) = At(timerMap, x)
        BY <3>1 DEF Entries, At
      <4>5. Unique(timerMap, x)' <=> Unique(new, x)
        BY <3>1
      <4> QED BY <1>2, <3>1, <4>3, <4>4, <4>5 DEF Fewer, FewerPlaces
    <3>2. CASE timerMap' = timerMap
      BY <1>2, <3>2, PlacesStay
    <3> QED BY <2>5, <3>1, <3>2
  <2>7. Sorted(timerMap')
    BY <2>3, <2>4, <2>5, RemoveKeeps DEF PlaceInv
  <2> QED BY <1>2, <1>3, <2>1, <2>2, <2>6, <2>7, PlaceKept DEF PlaceInv
<1>6. CASE StartStatus(u)
  <2>1. Narrower
    BY <1>1, <1>6, CallsGo DEF StartStatus, CallLabels
  <2>2. \A x \in Timers : x # t => Due(x)' = Due(x)
    BY <1>1, <1>6 DEF StartStatus, Due, TypeOK
  <2>3. timerMap' = timerMap
    BY <1>6 DEF StartStatus, mapVars
  <2>4. \A x \in Timers : x # t /\ PlaceOK(x) => PlaceOK(x)'
    BY <1>2, <1>3, <2>1, <2>2, <2>3, PlacesStay, PlaceKept
  <2>5. PlaceOK(t) => PlaceOK(t)'
    <3>1. HAVE PlaceOK(t)
    <3>2. InStart(u, t) /\ call[u].at # "post"
      BY <1>1, <1>6 DEF StartStatus, InStart, TypeOK, CallOK, TimerAssumption
    <3>3. NoPlace(t)
      BY <3>1, <3>2 DEF PlaceOK, StartsAlone
    <3>4. NoPlace(t)'
      BY <1>2, <2>3, <3>3 DEF NoPlace, Entries, Collected
    <3>5. InOnePlace(t)' /\ EntryOnTime(t)'
      BY <3>4 DEF NoPlace, InOnePlace, EntryOnTime, Unique, At, Entries
    <3>6. StartsAlone(t)'
      BY <1>1, <1>2, <2>1, <3>1, <3>4 DEF PlaceOK, StartsAlone
    <3> QED BY <3>5, <3>6 DEF PlaceOK
  <2> QED BY <1>2, <2>3, <2>4, <2>5 DEF PlaceInv
<1>7. CASE StartMap(u)
  <2>1. Narrower /\ ~\E x \in Timers : InStart(u, x)' /\ call'[u].at # "post"
    BY <1>1, <1>7, CallsGo DEF StartMap, CallLabels
  <2>2. \A x \in Timers : Due(x)' = Due(x)
    BY <1>7 DEF StartMap, Due
  <2>3. CASE timerMap' = timerMap
    BY <1>2, <1>3, <2>1, <2>2, <2>3, PlacesStay, PlaceKept DEF PlaceInv
  <2>4. CASE timerMap' # timerMap
    <3>1. timerMap \in Seq(Entry) /\ Due(t) \in Nat /\ Sorted(timerMap)
      BY <1>1, DueType DEF TypeOK, PlaceInv
    <3>2. PICK e \in Entry : e = [time |-> Due(t), timer |-> t]
      BY <1>1, <3>1 DEF Entry
    <3>3. timerMap' = Emplace(timerMap, t, Due(t))
      BY <1>1, <1>7, <2>4 DEF StartMap, Section
    <3>4. PICK k \in Nat : Inserted(timerMap, timerMap', k, e)
      BY <1>1, <3>1, <3>2, <3>3, EmplaceInserts
    <3>5. Sorted(timerMap')
      BY <1>1, <3>1, <3>3, EmplaceSorted
    <3>6. \A x \in Timers : x # t => FewerPlaces(x)
      <4>1. TAKE x \in Timers
      <4>2. HAVE x # t
      <4>3. e.timer # x
        BY <3>2, <4>2
      <4>4. Fewer(timerMap, timerMap', x)
        BY <3>1, <3>4, <4>3, InsertOther
      <4>5. Entries(x)' = At(timerMap', x) /\ Entries(x) = At(timerMap, x)
        BY DEF Entries, At
      <4> QED BY <1>2, <4>4, <4>5 DEF Fewer, FewerPlaces
    <3>7. \A x \in Timers : x # t /\ PlaceOK(x) => PlaceOK(x)'
      BY <1>2, <1>3, <2>1, <2>2, <3>6, PlaceKept
    <3>8. PlaceOK(t) => PlaceOK(t)'
      <4>1. HAVE PlaceOK(t)
      <4>2. InStart(u, t) /\ call[u].at # "post"
        BY <1>1, <1>7 DEF StartMap, InStart, TypeOK, CallOK,
                             TimerAssumption
      <4>3. NoPlace(t)
        BY <4>1, <4>2 DEF PlaceOK, StartsAlone
      <4>4. Unique(timerMap', t) /\ \A i \in At(timerMap', t) : timerMap'[i] = e
        BY <3>1, <3>2, <3>4, <4>3, InsertOwn DEF NoPlace, Entries, At
      <4>5. Collected(t)' = {}
        BY <1>2, <4>3 DEF NoPlace, Collected
      <4>6. InOnePlace(t)'
        BY <4>4, <4>5 DEF InOnePlace
      <4>7. \A i \in Entries(t)' : timerMap'[i].time = Due(t)'
        BY <2>2, <3>2, <4>4 DEF Entries, At
      <4>8. EntryOnTime(t)'
        BY <4>5, <4>7 DEF EntryOnTime
      <4>9. StartsAlone(t)'
        <5>1. \A v \in Users : InStart(v, t)' => v = u /\ call'[v].at = "post"
          BY <1>1, <2>1, <4>1, <4>2 DEF PlaceOK, StartsAlone
        <5>2. starts'[t] # 0
          BY <1>2, <4>1, <4>2 DEF PlaceOK, StartsAlone
        <5> QED BY <5>1, <5>2 DEF StartsAlone
      <4> QED BY <4>6, <4>8, <4>9 DEF PlaceOK
    <3> QED BY <1>2, <3>5, <3>7, <3>8 DEF PlaceInv
  <2> QED BY <2>3, <2>4
<1>8. CASE StartPost(u)
  <2>1. Narrower
    BY <1>8, CallsReturn DEF StartPost
  <2>2. \A x \in Timers : Due(x)' = Due(x)
    BY <1>8 DEF StartPost, Due
  <2>3. timerMap' = timerMap
    BY <1>8 DEF StartPost, mapVars
  <2> QED BY <1>2, <1>3, <2>1, <2>2, <2>3, PlacesStay, PlaceKept DEF PlaceInv
<1> QED BY <1>4, <1>5, <1>6, <1>7, <1>8 DEF CallStep

LEMMA PlaceUser ==
  ASSUME TimerAssumption, TypeOK, TypeOK', PlaceInv, NEW u \in Users, UserCall(u)
  PROVE  PlaceInv'
<1>1. UNCHANGED <<clock, timerMap, helper, ready>>
  BY DEF UserCall, Stop, Start, SetSingleShot, mapVars, helpVars
<1>2. clock <= clock' /\ Sorted(timerMap')
  BY <1>1 DEF TypeOK, PlaceInv
<1>3. \A x \in Timers : Due(x)' = Due(x)
  <2>1. CASE status' = status
    BY <2>1 DEF Due
  <2>2. ASSUME NEW t \in Timers, NEW sta \in BOOLEAN, SetSingleShot(u, t, sta)
        PROVE  \A x \in Timers : Due(x)' = Due(x)
    BY <2>2 DEF SetSingleShot, Due, TypeOK, Status
  <2> QED BY <2>1, <2>2 DEF UserCall, Stop, Start
<1>4. \A x \in Timers : FewerPlaces(x)
  BY <1>1, PlacesStay
<1>5. ASSUME NEW t \in Timers, Stop(u, t) PROVE PlaceInv'
  <2>1. \A v \in Users, x \in Timers : InStart(v, x)' =>
          InStart(v, x) /\ (call'[v].at # "post" => call[v].at # "post")
    BY <1>5 DEF Stop, InStart, TypeOK, CallOK
  <2>2. starts' = starts
    BY <1>5 DEF Stop
  <2> QED BY <1>1, <1>2, <1>3, <1>4, <2>1, <2>2, PlaceKept DEF PlaceInv
<1>6. ASSUME NEW t \in Timers, NEW sta \in BOOLEAN, SetSingleShot(u, t, sta)
      PROVE  PlaceInv'
  <2>1. UNCHANGED <<call, starts>>
    BY <1>6 DEF SetSingleShot, callVars
  <2>2. \A v \in Users, x \in Timers : InStart(v, x)' =>
          InStart(v, x) /\ (call'[v].at # "post" => call[v].at # "post")
    BY <2>1 DEF InStart
  <2> QED BY <1>1, <1>2, <1>3, <1>4, <2>1, <2>2, PlaceKept DEF PlaceInv
<1>7. ASSUME NEW t \in Timers, NEW sec \in Durations, Start(u, t, sec)
      PROVE  PlaceInv'
  <2>1. /\ \A x \in Timers : x # t => starts'[x] = starts[x]
        /\ starts'[t] = starts[t] + 1 /\ starts[t] \in Nat
    BY <1>7 DEF Start, TypeOK
  <2>2. /\ \A v \in Users : v # u => call'[v] = call[v]
        /\ call[u].at = "user" /\ call'[u].timer = t
    BY <1>7 DEF Start, May, TypeOK, CallOK
  <2>3. \A x \in Timers : x # t => \A v \in Users : InStart(v, x)' =>
          InStart(v, x) /\ (call'[v].at # "post" => call[v].at # "post")
    BY <2>2 DEF InStart
  <2>4. \A x \in Timers : x # t /\ PlaceOK(x) => PlaceOK(x)'
    BY <1>1, <1>2, <1>3, <1>4, <2>1, <2>3, PlaceKept
  <2>5. starts'[t] <= 1 => PlaceOK(t)'
    <3>1. HAVE starts'[t] <= 1
    <3>2. starts[t] = 0 /\ starts'[t] # 0
      BY <2>1, <3>1
    <3>3. NoPlace(t) /\ \A v \in Users : ~InStart(v, t)
      BY <3>2 DEF PlaceInv, PlaceOK, StartsAlone
    <3>4. NoPlace(t)'
      BY <1>1, <3>3 DEF NoPlace, Entries, Collected
    <3>5. InOnePlace(t)' /\ EntryOnTime(t)'
      BY <3>4 DEF NoPlace, InOnePlace, EntryOnTime, Unique, At, Entries
    <3>6. \A v \in Users : InStart(v, t)' => v = u
      BY <2>2, <3>3 DEF InStart
    <3>7. StartsAlone(t)'
      BY <3>2, <3>4, <3>6 DEF StartsAlone
    <3> QED BY <3>5, <3>7 DEF PlaceOK
  <2> QED BY <1>2, <2>1, <2>4, <2>5 DEF PlaceInv
<1> QED BY <1>5, <1>6, <1>7 DEF UserCall

(* The loop's thread, and time.                                            *)
LEMMA PlaceQuiet ==
  ASSUME TypeOK, TypeOK', PlaceInv, UNCHANGED <<timerMap, ready, helper, call, starts>>,
         clock <= clock', \A x \in Timers : Due(x)' = Due(x)
  PROVE  PlaceInv'
<1>1. \A v \in Users, x \in Timers : InStart(v, x)' =>
        InStart(v, x) /\ (call'[v].at # "post" => call[v].at # "post")
  BY DEF InStart
<1>2. \A x \in Timers : FewerPlaces(x)
  BY PlacesStay
<1> QED BY <1>1, <1>2, PlaceKept DEF PlaceInv

LEMMA PlaceLoop ==
  ASSUME TypeOK, TypeOK', PlaceInv,
         Tick \/ Dispatch \/ \E t \in Timers : DeleteTimer(t)
  PROVE  PlaceInv'
<1>1. ASSUME NEW t, Destroy(t) PROVE \A x \in Timers : Due(x)' = Due(x)
  BY <1>1 DEF Destroy, Due, TypeOK, Status
<1>2. \A x \in Timers : Due(x)' = Due(x)
  BY <1>1 DEF Tick, Dispatch, DeleteTimer, Due
<1>3. clock <= clock'
  BY DEF Tick, Dispatch, DeleteTimer, TypeOK
<1>4. UNCHANGED <<timerMap, ready, helper, call, starts>>
  BY DEF Tick, Dispatch, DeleteTimer, mapVars, helpVars, callVars
<1> QED BY <1>2, <1>3, <1>4, PlaceQuiet

(* The helper: a step that neither starts nor ends a call.                 *)
LEMMA PlaceMoved ==
  ASSUME NEW t \in Timers, PlaceOK(t), UNCHANGED <<call, starts>>,
         InOnePlace(t)', EntryOnTime(t)', NoPlace(t) => NoPlace(t)'
  PROVE  PlaceOK(t)'
<1>1. StartsAlone(t)'
  BY DEF PlaceOK, StartsAlone, InStart
<1> QED BY <1>1 DEF PlaceOK

LEMMA PlaceCollect ==
  ASSUME TypeOK, TypeOK', PlaceInv, Collect
  PROVE  PlaceInv'
<1> DEFINE k == Cardinality({i \in DOMAIN timerMap : IsDue(timerMap[i])})
<1>1. timerMap \in Seq(Entry) /\ Sorted(timerMap) /\ clock \in Nat
  BY DEF TypeOK, PlaceInv
<1>2. {i \in DOMAIN timerMap : IsDue(timerMap[i])} = 1..k
  BY <1>1, DueFirst DEF IsDue
<1>3. k \in Nat /\ k <= Len(timerMap) /\ Len(timerMap) \in Nat
  BY <1>1, CountBound
<1>4. /\ ready' = [i \in 1..k |-> timerMap[i].timer]
      /\ timerMap' = SubSeq(timerMap, k + 1, Len(timerMap))
      /\ helper'.at = "next" /\ UNCHANGED <<clock, status, call, starts>>
  BY DEF Collect, HelperGoto, HelperAt, callVars
<1> HIDE DEF k
<1>5. DOMAIN timerMap = 1..Len(timerMap)
  BY <1>1, LenProperties
<1>6. \A i \in 1..k : timerMap[i].time <= clock
  BY <1>2 DEF IsDue
<1>7. /\ DOMAIN timerMap' = 1..Len(timerMap) - k
      /\ \A i \in DOMAIN timerMap' : timerMap'[i] = timerMap[i + k]
  <2>1. \A i \in k + 1..Len(timerMap) : timerMap[i] \in Entry
    BY <1>1, <1>3, <1>5
  <2>2. /\ timerMap' \in Seq(Entry)
        /\ Len(timerMap') = IF k + 1 <= Len(timerMap)
                              THEN Len(timerMap) - (k + 1) + 1 ELSE 0
        /\ \A i \in 1..Len(timerMap) - (k + 1) + 1 :
             timerMap'[i] = timerMap[k + 1 + i - 1]
    BY <1>3, <1>4, <2>1, SubSeqProperties
  <2>3. DOMAIN timerMap' = 1..Len(timerMap')
    BY <2>2, LenProperties
  <2> QED BY <1>3, <2>2, <2>3
<1>8. Sorted(timerMap')
  BY <1>1, <1>3, <1>5, <1>7 DEF Sorted
<1>9. ASSUME NEW t \in Timers, PlaceOK(t) PROVE PlaceOK(t)'
  <2>1. \A i \in Entries(t)' : i + k \in Entries(t) /\ i + k \notin 1..k
                               /\ i \in Nat /\ timerMap'[i] = timerMap[i + k]
    BY <1>3, <1>5, <1>7 DEF Entries
  <2>2. \A i \in Collected(t)' : i \in Entries(t) /\ i \in 1..k
    BY <1>3, <1>4, <1>5 DEF Entries, Collected
  <2>3. \A i, j \in Entries(t) : i = j
    BY <1>9 DEF PlaceOK, InOnePlace, Unique, At, Entries
  <2>4. InOnePlace(t)'
    <3>1. \A i, j \in Entries(t)' : i = j
      BY <1>3, <2>1, <2>3
    <3>2. \A i, j \in Collected(t)' : i = j
      BY <2>2, <2>3
    <3>3. Entries(t)' = {} \/ Collected(t)' = {}
      BY <2>1, <2>2, <2>3
    <3> QED BY <3>1, <3>2, <3>3 DEF InOnePlace, Unique, At, Entries
  <2>5. Due(t)' = Due(t)
    BY <1>4 DEF Due
  <2>6. EntryOnTime(t)'
    <3>1. \A i \in Entries(t)' : timerMap'[i].time = Due(t)'
      BY <1>9, <2>1, <2>5 DEF PlaceOK, EntryOnTime
    <3>2. Collected(t)' # {} => Due(t)' <= clock'
      BY <1>4, <1>6, <1>9, <2>2, <2>5 DEF PlaceOK, EntryOnTime
    <3> QED BY <3>1, <3>2 DEF EntryOnTime
  <2>7. NoPlace(t) => NoPlace(t)'
    BY <2>1, <2>2 DEF NoPlace
  <2> QED BY <1>4, <1>9, <2>4, <2>6, <2>7, PlaceMoved
<1> QED BY <1>4, <1>8, <1>9 DEF PlaceInv

(* The helper is done with the first timer of its array.                   *)
LEMMA TailCollected ==
  ASSUME TypeOK, ready # <<>>, ready' = Tail(ready), NEW t \in Timers,
         InOnePlace(t)
  PROVE  /\ \A i, j \in Collected(t)' : i = j
         /\ Collected(t) = {} => Collected(t)' = {}
         /\ Head(ready) = t => Collected(t) # {} /\ Collected(t)' = {}
<1>1. /\ ready \in Seq(Timers) /\ Len(ready) \in Nat /\ Len(ready) > 0
      /\ DOMAIN ready = 1..Len(ready) /\ Head(ready) = ready[1]
  <2>1. ready \in Seq(Timers)
    BY DEF TypeOK
  <2> QED BY <2>1
<1>2. /\ DOMAIN ready' = 1..Len(ready) - 1
      /\ \A i \in DOMAIN ready' : ready'[i] = ready[i + 1]
  <2>1. /\ Tail(ready) \in Seq(Timers) /\ Len(Tail(ready)) = Len(ready) - 1
        /\ \A i \in 1..Len(Tail(ready)) : Tail(ready)[i] = ready[i + 1]
    BY <1>1, HeadTailProperties
  <2> QED BY <2>1, LenProperties
<1>3. \A i \in Collected(t)' : i + 1 \in Collected(t) /\ i \in Nat /\ i # 0
  BY <1>1, <1>2 DEF Collected
<1>4. \A i, j \in Collected(t) : i = j
  BY DEF InOnePlace
<1>5. \A i, j \in Collected(t)' : i = j
  BY <1>3, <1>4
<1>6. Head(ready) = t => 1 \in Collected(t)
  BY <1>1 DEF Collected
<1>7. 1 \in Collected(t) => Collected(t)' = {}
  BY <1>3, <1>4
<1> QED BY <1>3, <1>5, <1>6, <1>7

(* It is not putting a timer back, before or after.                        *)
LEMMA PlaceHelper ==
  ASSUME TypeOK, TypeOK', PlaceInv, UNCHANGED <<timerMap, status, clock, call, starts>>,
         helper.at # "insert", helper'.at # "insert",
         ready' = ready \/ (ready # <<>> /\ ready' = Tail(ready))
  PROVE  PlaceInv'
<1>1. ASSUME NEW t \in Timers, PlaceOK(t) PROVE PlaceOK(t)'
  <2>1. Entries(t)' = Entries(t) /\ Due(t)' = Due(t)
    BY DEF Entries, Due
  <2>2. /\ \A i, j \in Collected(t)' : i = j
        /\ Collected(t) = {} => Collected(t)' = {}
    <3>1. CASE ready' = ready
      BY <1>1, <3>1 DEF Collected, PlaceOK, InOnePlace
    <3>2. CASE ready # <<>> /\ ready' = Tail(ready)
      BY <1>1, <3>2, TailCollected DEF PlaceOK
    <3> QED BY <3>1, <3>2
  <2>3. InOnePlace(t)'
    BY <1>1, <2>1, <2>2 DEF PlaceOK, InOnePlace
  <2>4. EntryOnTime(t)'
    BY <1>1, <2>1, <2>2 DEF PlaceOK, EntryOnTime, PuttingBack
  <2>5. NoPlace(t) => NoPlace(t)'
    BY <2>1, <2>2 DEF NoPlace
  <2> QED BY <1>1, <2>3, <2>4, <2>5, PlaceMoved
<1> QED BY <1>1 DEF PlaceInv

LEMMA PlaceEmit ==
  ASSUME TypeOK, TypeOK', PlaceInv, Emit
  PROVE  PlaceInv'
<1> DEFINE h == Head(ready)
<1>1. /\ ready \in Seq(Timers) /\ ready # <<>> /\ h \in Timers
      /\ helper.at = "emit"
  BY HeadTailProperties DEF Emit, TypeOK
<1>2. UNCHANGED <<timerMap, clock, call, starts>>
  BY DEF Emit, mapVars, callVars
<1>3. CASE status[h].singleShot
  <2>1. /\ UNCHANGED status /\ ready' = Tail(ready) /\ helper'.at = "next"
    BY <1>3 DEF Emit, HelperGoto, HelperAt
  <2> QED BY <1>1, <1>2, <2>1, PlaceHelper
<1>4. CASE ~status[h].singleShot
  <2>1. /\ status' = [status EXCEPT ![h].lastEmitTime = clock]
        /\ ready' = ready /\ helper'.at = "insert"
    BY <1>4 DEF Emit, HelperGoto, HelperAt
  <2>2. \A t \in Timers : t # h => Due(t)' = Due(t)
    BY <1>1, <2>1 DEF Due, TypeOK
  <2>3. ASSUME NEW t \in Timers, PlaceOK(t) PROVE PlaceOK(t)'
    <3>1. Entries(t)' = Entries(t) /\ Collected(t)' = Collected(t)
      BY <1>2, <2>1 DEF Entries, Collected
    <3>2. InOnePlace(t)' /\ (NoPlace(t) => NoPlace(t)')
      BY <1>2, <2>3, <3>1 DEF PlaceOK, InOnePlace, NoPlace
    <3>3. EntryOnTime(t)'
      <4>1. CASE t = h
        <5>1. 1 \in Collected(t)
          BY <1>1, <4>1 DEF Collected
        <5>2. Entries(t)' = {} /\ PuttingBack(t)'
          BY <2>1, <2>3, <3>1, <4>1, <5>1
             DEF PlaceOK, InOnePlace, PuttingBack
        <5> QED BY <5>2 DEF EntryOnTime
      <4>2. CASE t # h
        <5>1. Due(t)' = Due(t) /\ ~PuttingBack(t)
          BY <1>1, <2>2, <4>2 DEF PuttingBack
        <5> QED BY <1>2, <2>3, <3>1, <5>1 DEF PlaceOK, EntryOnTime
      <4> QED BY <4>1, <4>2
    <3> QED BY <1>2, <2>3, <3>2, <3>3, PlaceMoved
  <2> QED BY <1>2, <2>3 DEF PlaceInv
<1> QED BY <1>3, <1>4

LEMMA PlacePutBack ==
  ASSUME TypeOK, TypeOK', PlaceInv, PutBack
  PROVE  PlaceInv'
<1> DEFINE h == Head(ready)
<1>1. /\ ready \in Seq(Timers) /\ ready # <<>> /\ h \in Timers
      /\ helper.at = "insert"
  BY HeadTailProperties DEF PutBack, TypeOK
<1>2. UNCHANGED <<status, clock, call, starts>>
  BY DEF PutBack, callVars
<1>3. ready' = Tail(ready) /\ helper'.at = "next"
  BY DEF PutBack, HelperGoto, HelperAt
<1>4. timerMap \in Seq(Entry) /\ Due(h) \in Nat /\ Sorted(timerMap)
  BY <1>1, DueType DEF TypeOK, PlaceInv
<1>5. PICK e \in Entry : e = [time |-> Due(h), timer |-> h]
  BY <1>1, <1>4 DEF Entry
<1>6. timerMap' = Emplace(timerMap, h, Due(h))
  BY DEF PutBack
<1>7. PICK k \in Nat : Inserted(timerMap, timerMap', k, e)
  BY <1>1, <1>4, <1>5, <1>6, EmplaceInserts
<1>8. Sorted(timerMap')
  BY <1>1, <1>4, <1>6, EmplaceSorted
<1>9. ASSUME NEW t \in Timers, PlaceOK(t) PROVE PlaceOK(t)'
  <2>1. InOnePlace(t) /\ EntryOnTime(t) /\ Due(t)' = Due(t)
    BY <1>2, <1>9 DEF PlaceOK, Due
  <2>2. /\ \A i, j \in Collected(t)' : i = j
        /\ Collected(t) = {} => Collected(t)' = {}
        /\ h = t => Collected(t) # {} /\ Collected(t)' = {}
    BY <1>1, <1>3, <2>1, TailCollected
  <2>3. CASE t = h
    <3>1. At(timerMap, t) = {}
      BY <2>1, <2>2, <2>3 DEF InOnePlace, Entries, At
    <3>0. e.timer = t
      BY <1>5, <2>3
    <3>2. Unique(timerMap', t) /\ \A i \in At(timerMap', t) : timerMap'[i] = e
      BY <1>4, <1>7, <3>0, <3>1, InsertOwn
    <3>3. InOnePlace(t)'
      BY <2>2, <2>3, <3>2 DEF InOnePlace
    <3>4. \A i \in Entries(t)' : timerMap'[i].time = Due(t)'
      BY <1>5, <2>1, <2>3, <3>2 DEF Entries, At
    <3>5. EntryOnTime(t)'
      BY <2>2, <2>3, <3>4 DEF EntryOnTime
    <3> QED BY <1>2, <1>9, <2>2, <2>3, <3>3, <3>5, PlaceMoved DEF NoPlace
  <2>4. CASE t # h
    <3>1. e.timer # t
      BY <1>5, <2>4
    <3>0. timerMap \in Seq(Entry)
      BY <1>4
    <3>2. Fewer(timerMap, timerMap', t)
      BY <1>7, <3>0, <3>1, InsertOther
    <3>3. \A i \in Entries(t)' : \E j \in Entries(t) : timerMap'[i] = timerMap[j]
      BY <3>2 DEF Fewer, Entries, At
    <3>4. InOnePlace(t)'
      BY <2>1, <2>2, <3>2, <3>3 DEF Fewer, InOnePlace
    <3>5. EntryOnTime(t)'
      <4>1. \A i \in Entries(t)' : timerMap'[i].time = Due(t)'
        BY <2>1, <3>3 DEF EntryOnTime
      <4>2. ~PuttingBack(t)
        BY <2>4 DEF PuttingBack
      <4> QED BY <1>2, <2>1, <2>2, <4>1, <4>2 DEF EntryOnTime
    <3>6. NoPlace(t) => NoPlace(t)'
      BY <2>2, <3>3 DEF NoPlace
    <3> QED BY <1>2, <1>9, <3>4, <3>5, <3>6, PlaceMoved
  <2> QED BY <2>3, <2>4
<1> QED BY <1>2, <1>8, <1>9 DEF PlaceInv

LEMMA PlaceNext ==
  ASSUME TimerAssumption, TypeOK, TypeOK', PlaceInv, [Next]_vars
  PROVE  PlaceInv'
<1>1. CASE HelperStep
  <2>1. CASE Plan
    BY <2>1, PlaceHelper DEF Plan, mapVars, callVars
  <2>2. CASE Wake
    BY <2>2, PlaceHelper DEF Wake, HelperGoto, HelperAt, mapVars, callVars
  <2>3. CASE Collect
    BY <2>3, PlaceCollect
  <2>4. CASE Examine
    <3>1. /\ helper.at = "next" /\ helper'.at # "insert"
          /\ UNCHANGED <<timerMap, status, clock, call, starts>>
      BY <2>4 DEF Examine, HelperGoto, HelperAt, mapVars, callVars
    <3>2. ready' = ready \/ (ready # <<>> /\ ready' = Tail(ready))
      BY <2>4 DEF Examine
    <3> QED BY <3>1, <3>2, PlaceHelper
  <2>5. CASE Emit
    BY <2>5, PlaceEmit
  <2>6. CASE PutBack
    BY <2>6, PlacePutBack
  <2> QED BY <1>1, <2>1, <2>2, <2>3, <2>4, <2>5, <2>6 DEF HelperStep
<1>2. CASE Tick \/ Dispatch \/ \E t \in Timers : DeleteTimer(t)
  BY <1>2, PlaceLoop
<1>3. ASSUME NEW u \in Users, CallStep(u) \/ UserCall(u) PROVE PlaceInv'
  BY <1>3, PlaceCall, PlaceUser
<1>4. CASE UNCHANGED vars
  <2>1. UNCHANGED <<timerMap, ready, helper, call, starts, clock, status>>
    BY <1>4 DEF vars, mapVars, helpVars, callVars
  <2>2. clock <= clock' /\ \A x \in Timers : Due(x)' = Due(x)
    BY <2>1 DEF Due, TypeOK
  <2> QED BY <2>1, <2>2, PlaceQuiet
<1> QED BY <1>1, <1>2, <1>3, <1>4 DEF Next

LEMMA PlaceInvariant == Spec => [](TypeOK /\ PlaceInv)
<1>1. Init => TypeOK /\ PlaceInv
  BY TimerAssumption, TypeInit, PlaceInit
<1>2. TypeOK /\ PlaceInv /\ [Next]_vars => TypeOK' /\ PlaceInv'
  BY TimerAssumption, TypeNext, PlaceNext
<1> QED BY <1>1, <1>2, PTL DEF Spec

(* A timer that was started at most once is in the map or in the array of  *)
(* the helper, once, and its entry in the map has the time under which     *)
(* stop looks for it, so that stop finds it there.                         *)
THEOREM OnePlaceOfTimer == Spec => []OneEntry
<1>1. TypeOK /\ PlaceInv => OneEntry
  BY PlaceGives
<1> QED BY <1>1, PlaceInvariant, PTL

(* The helper thread does not emit the signal of a timer that was started  *)
(* once before its duration is over.                                       *)
THEOREM FirstTimeoutInTime == Spec => []NoEarlyFirstTimeout
<1>1. TypeOK /\ PlaceInv => NoEarlyFirstTimeout
  BY PlaceGives
<1> QED BY <1>1, PlaceInvariant, PTL
=============================================================================
