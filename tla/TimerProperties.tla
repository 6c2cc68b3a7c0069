--------------------------- MODULE TimerProperties --------------------------
(***************************************************************************)
(* What must hold of the timers of module Timer.                           *)
(***************************************************************************)
EXTENDS Timer

(* A thread in a call is so on a timer, and in start with a duration.      *)
CallOK ==
  /\ call \in [Users -> [at : CallLabels, timer : Timers \cup {Nil},
                         sec : Durations \cup {Nil}]]
  /\ \A u \in Users :
       /\ call[u].at # "user" => call[u].timer \in Timers
       /\ call[u].at \in {"set", "insert", "post"} => call[u].sec \in Durations

(* Every variable has its type; the helper is in the section of a status   *)
(* only while it has one to look at.                                       *)
TypeOK ==
  /\ clock \in Nat /\ helperSem \in Nat
  /\ timerMap \in Seq(Entry) /\ ready \in Seq(Timers)
  /\ helper \in [at : HelperLabels, until : Nat]
  /\ helper.at \in {"emit", "insert"} => ready # <<>>
  /\ status \in [Timers -> Status]
  /\ alive \subseteq Timers /\ ran \subseteq Timers /\ awaiting \subseteq Timers
  /\ CallOK
  /\ slots \in Seq(Timers)
  /\ starts \in [Timers -> Nat]
  /\ undefined \in BOOLEAN

(* The helper never touches the signal of a timer that is destroyed, nor   *)
(* does a timer die while the helper is emitting its signal.               *)
EmitsLiveTimer == helper.at \in {"emit", "insert"} => Head(ready) \in alive

Entries(t) == {i \in DOMAIN timerMap : timerMap[i].timer = t}
Collected(t) == {i \in DOMAIN ready : ready[i] = t}

(* A timer that was started at most once has one place: the map or the     *)
(* helper's array; and its entry is where stop looks for it.               *)
OneEntry ==
  \A t \in Timers : starts[t] <= 1 =>
    /\ Cardinality(Entries(t)) + Cardinality(Collected(t)) <= 1
    /\ \A i \in Entries(t) : timerMap[i].time = Due(t)

OnTime(t) == helper.at = "emit" /\ Head(ready) = t => clock >= Due(t)

(* No timeout before its time, for a timer that is not started again.      *)
NoEarlyFirstTimeout == \A t \in Timers : starts[t] <= 1 => OnTime(t)

(* A timer that is started emits its signal, unless somebody stops, starts *)
(* or destroys it: the helper never sleeps through a due time.             *)
StartedFires ==
  \A t \in Timers :
    (t \in awaiting /\ Due(t) <= MaxClock) ~> (t \notin awaiting \/ undefined)
=============================================================================
