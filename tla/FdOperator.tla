----------------------------- MODULE FdOperator -----------------------------
(***************************************************************************)
(* File descriptor operators (src/fd_operator.cc, inc/SpaE/fd_operator.h): *)
(* objects that own numbers of the process's file table, threads that wait *)
(* in epoll_wait for their files, and the map by which these threads find  *)
(* the operator of an event, by its id.                                    *)
(*                                                                         *)
(* Each operator is used by a thread of its own, whose loop it belongs to  *)
(* and in which its signals are connected.  The file table, epoll and      *)
(* inotify are modelled as the code uses them: open takes the lowest free  *)
(* number, and close takes a file out of the sets it is watched in.        *)
(***************************************************************************)
EXTENDS Integers, FiniteSets

CONSTANTS
  Operators,
  Calls,      \* <<operator, function, kind of watch>>: the calls users make
  Sources,    \* <<operator, kind>>: the files for which something to read may come
  MaxFiles,   \* bound on the numbers
  MaxWatches, \* bound on the calls of inotifyWatch
  MaxEvents,  \* bound on the events of all files
  Nil

Kinds == {"data", "inotify"}

(* m_watchEpollFd and m_watchInotifyEpollFd.                               *)
Epoll == [data |-> "epoll", inotify |-> "inotifyEpoll"]
Members == Kinds \cup {"epoll", "inotifyEpoll"}

(* The threads of getEpollFd and getInotifyEpollFd, and those of the       *)
(* isolated watches users make, one for each operator and kind.            *)
Shared(k) == <<Nil, k>>
Isolated(o, k) == <<o, k>>
Watchers ==
  {Shared(k) : k \in Kinds}
  \cup {w \in Operators \X Kinds : <<w[1], "isolate", w[2]>> \in Calls}

Numbers == 0..(MaxFiles - 1)

(* The files of operators: the i-th call of inotifyWatch makes the file    *)
(* <<o, "inotify", i>>; of the others an operator has one.                 *)
Files == Operators \X Members \X (0..MaxWatches)

(* Those that can be read.                                                 *)
Inputs == Operators \X Kinds \X (0..MaxWatches)

ASSUME FdAssumption ==
  /\ MaxFiles \in Nat \ {0} /\ MaxEvents \in Nat /\ MaxWatches \in Nat
  /\ Nil \notin Operators \cup Files \cup Kinds
  /\ Calls \subseteq Operators \X {"watch", "isolate", "read", "close", "destroy"}
                       \X (Kinds \cup {Nil})
  /\ Sources \subseteq Operators \X Kinds

VARIABLES
  table,     \* the file behind each number
  number,    \* m_fd and the three m_watch...Fd of each operator
  user,      \* where each operator's thread is
  watching,  \* the kind of the watch it is setting up
  inotifies, \* which calls of inotifyWatch, numbered from 1, each operator got
  closed,    \* the operators on which close was called by hand
  map,       \* g_fdOperatorMap: an id is an operator, and stays for ever
  alive,     \* the operators whose alive is true
  interest,  \* <<file, id>>: what the epoll file of each watcher watches
  readable,  \* the files with something to read
  at,        \* where each watcher is
  waits,     \* the watcher whose epoll file it waits on
  batch,     \* the ids it has yet to look up
  event,     \* the one it is at, under g_fdOperatorMapMutex and its alive mutex
  reading,   \* the file its read waits for, which stays open until it is over
  reported,  \* the watches whose signal was emitted and not answered yet
  events,    \* how many events there have been
  fault      \* memory was used after its end, or files closed by their old numbers

fileVars  == <<table, number>>
userVars  == <<user, watching, inotifies, closed>>
watchVars == <<at, waits, batch, event, reading>>
vars == <<fileVars, userVars, map, alive, interest, readable, watchVars,
          reported, events, fault>>

UserLabels == {"none", "idle", "map", "add", "members", "gone"}
WatchLabels == {"off", "start", "call", "wait", "look", "read", "blocked",
                "emit", "ended"}

(* A number that no file has: close does nothing for it.                   *)
UnsetZero == 0

Unset == -1

Init ==
  /\ table = [n \in Numbers |-> Nil]
  /\ number = [o \in Operators |-> [m \in Members |-> Unset]]
  /\ user = [o \in Operators |-> "none"] /\ watching = [o \in Operators |-> Nil]
  /\ inotifies = [o \in Operators |-> {}] /\ closed = {} /\ map = {} /\ alive = {}
  /\ interest = [w \in Watchers |-> {}] /\ readable = {}
  /\ at = [w \in Watchers |-> IF w[1] = Nil THEN "wait" ELSE "off"]
  /\ waits = [w \in Watchers |-> w] /\ batch = [w \in Watchers |-> {}]
  /\ event = [w \in Watchers |-> Nil] /\ reading = [w \in Watchers |-> Nil]
  /\ reported = {} /\ events = 0 /\ fault = FALSE
-----------------------------------------------------------------------------
(* Helpers.                                                                *)

FileAt(n) == IF n \in Numbers THEN table[n] ELSE Nil
File(o, m) == FileAt(number[o][m])

Open(o, m, i) ==
  \E n \in Numbers :
    /\ table[n] = Nil /\ \A j \in Numbers : j < n => table[j] # Nil
    /\ table' = [table EXCEPT ![n] = <<o, m, i>>]
    /\ number' = [number EXCEPT ![o][m] = n]

(* A file is there while it has a number or is being read.                 *)
IsOpen(f) == \E n \in Numbers : table[n] = f
Held == {reading[w] : w \in Watchers} \ {Nil}

(* Users call nothing but the destructor on an operator they have closed.  *)
May(o, op, k) ==
  /\ user[o] = "idle" /\ <<o, op, k>> \in Calls
  /\ o \in closed => op = "destroy"

UserGoto(o, label) == user' = [user EXCEPT ![o] = label]
Goto(w, label) == at' = [at EXCEPT ![w] = label]

MapFree == \A w \in Watchers : event[w] = Nil

WaitAgain(w) == IF w[1] = Nil THEN "wait" ELSE "call"

(* The next id of the batch, or the next wait.                             *)
NextEvent(w) ==
  /\ event' = [event EXCEPT ![w] = Nil]
  /\ Goto(w, IF batch'[w] = {} THEN WaitAgain(w) ELSE "look")

(* Files that are gone are no longer watched.                              *)
Release(fs) ==
  /\ interest' = [w \in Watchers |-> {e \in interest[w] : e[1] \notin fs}]
  /\ readable' = readable \ fs

(* close, of whatever files are behind the operator's numbers; the members *)
(* keep the numbers.                                                       *)
CloseAll(o) ==
  LET ns == {number[o][m] : m \in Members} \cap Numbers
      fs == {table[n] : n \in ns}
  IN
  /\ table' = [n \in Numbers |-> IF n \in ns THEN Nil ELSE table[n]]
  /\ Release(fs \ Held)
  /\ fault' = (o \in closed /\ ~ fs \subseteq {Nil})
  /\ UNCHANGED number
-----------------------------------------------------------------------------
(* The operators' threads.                                                 *)

Construct(o) ==
  /\ user[o] = "none" /\ Open(o, "data", 0)
  /\ UserGoto(o, "idle") /\ alive' = alive \cup {o}
  /\ UNCHANGED <<watching, inotifies, closed, map, interest, readable, watchVars,
                 reported, events, fault>>

(* epollWatch, inotifyWatch: a new inotify file, whose number replaces the *)
(* one before; then the two ways.                                          *)
BeginWatch(o, op, k) ==
  /\ May(o, op, k)
  /\ \/ k = "data" /\ UNCHANGED <<fileVars, inotifies>>
     \/ /\ k = "inotify"
        /\ \E i \in 1..MaxWatches :
             /\ \A j \in 1..MaxWatches : (\E p \in Operators : j \in inotifies[p]) <=> j < i
             /\ inotifies' = [inotifies EXCEPT ![o] = @ \cup {i}]
             /\ Open(o, k, i)

Watch(o, k) ==
  /\ BeginWatch(o, "watch", k)
  /\ UserGoto(o, "map") /\ watching' = [watching EXCEPT ![o] = k]
  /\ UNCHANGED <<closed, map, alive, interest, readable, watchVars, reported,
                 events, fault>>

EnterMap(o) ==
  /\ user[o] = "map" /\ MapFree
  /\ map' = map \cup {o} /\ UserGoto(o, "add")
  /\ UNCHANGED <<fileVars, watching, inotifies, closed, alive, interest, readable,
                 watchVars, reported, events, fault>>

(* epoll_ctl(EPOLL_CTL_ADD): a number without a file adds nothing.         *)
Interest(o, k) == {<<f, o>> : f \in {File(o, k)} \ {Nil}}

AddWatch(o) ==
  LET k == watching[o] IN
  /\ user[o] = "add" /\ UserGoto(o, "idle")
  /\ interest' = [interest EXCEPT ![Shared(k)] = @ \cup Interest(o, k)]
  /\ watching' = [watching EXCEPT ![o] = Nil]
  /\ UNCHANGED <<fileVars, inotifies, closed, map, alive, readable, watchVars,
                 reported, events, fault>>

(* A thread of its own, and no entry in the map.                           *)
Isolate(o, k) ==
  /\ BeginWatch(o, "isolate", k)
  /\ at[Isolated(o, k)] = "off" /\ Goto(Isolated(o, k), "start")
  /\ UNCHANGED <<user, watching, closed, map, alive, interest, readable, waits,
                 batch, event, reading, reported, events, fault>>

(* The user's slot: it reads the data.                                     *)
Answer(o, k) ==
  /\ May(o, "read", k) /\ <<o, k>> \in reported
  /\ reported' = reported \ {<<o, k>>}
  /\ readable' = IF k = "data" THEN readable \ {File(o, k)} ELSE readable
  /\ UNCHANGED <<fileVars, userVars, map, alive, interest, watchVars, events, fault>>

Close(o) ==
  /\ May(o, "close", Nil) /\ CloseAll(o) /\ closed' = closed \cup {o}
  /\ UNCHANGED <<user, watching, inotifies, map, alive, watchVars, reported, events>>

(* ~FdOperator closes; then its signals are destroyed, and only then does  *)
(* ~Object clear alive.                                                    *)
Destroy(o) ==
  /\ May(o, "destroy", Nil) /\ CloseAll(o) /\ UserGoto(o, "members")
  /\ UNCHANGED <<watching, inotifies, closed, map, alive, watchVars, reported, events>>

EndObjectUnlocked(o) ==
  /\ user[o] = "members"
  /\ alive' = alive \ {o} /\ UserGoto(o, "gone")
  /\ UNCHANGED <<fileVars, watching, inotifies, closed, map, interest, readable,
                 watchVars, reported, events, fault>>

EndObject(o) ==
  /\ user[o] = "members" /\ \A w \in Watchers : event[w] # o
  /\ alive' = alive \ {o} /\ UserGoto(o, "gone")
  /\ UNCHANGED <<fileVars, watching, inotifies, closed, map, interest, readable,
                 watchVars, reported, events, fault>>
-----------------------------------------------------------------------------
(* The watchers.                                                           *)

(* An isolated thread keeps this: the operator may be gone.                *)
Start(w) ==
  LET o == w[1] IN
  /\ at[w] = "start"
  /\ IF user[o] = "gone" THEN fault' = TRUE /\ UNCHANGED <<fileVars, interest, at>>
     ELSE /\ Open(o, Epoll[w[2]], 0) /\ Goto(w, "call")
          /\ interest' = [interest EXCEPT ![w] = Interest(o, w[2])]
          /\ UNCHANGED fault
  /\ UNCHANGED <<userVars, map, alive, readable, waits, batch, event, reading,
                 reported, events>>

(* epoll_wait of the number in the operator: EBADF ends the thread, and    *)
(* while the number is that of a file of another kind it calls again.      *)
Call(w) ==
  LET f == File(w[1], Epoll[w[2]]) IN
  /\ at[w] = "call"
  /\ \/ user[w[1]] = "gone" /\ fault' = TRUE /\ UNCHANGED <<at, waits>>
     \/ user[w[1]] # "gone" /\ f = Nil /\ Goto(w, "ended") /\ UNCHANGED <<waits, fault>>
     \/ \E k \in Kinds :
          /\ user[w[1]] # "gone" /\ f # Nil /\ f[2] = Epoll[k]
          /\ waits' = [waits EXCEPT ![w] = Isolated(f[1], k)]
          /\ Goto(w, "wait") /\ UNCHANGED fault
  /\ UNCHANGED <<fileVars, userVars, map, alive, interest, readable, batch, event,
                 reading, reported, events>>

(* Level-triggered: a file is ready as long as there is something to read. *)
Wait(w) ==
  LET ids == {e[2] : e \in {i \in interest[waits[w]] : i[1] \in readable}} IN
  /\ at[w] = "wait" /\ ids # {}
  /\ batch' = [batch EXCEPT ![w] = ids] /\ Goto(w, "look")
  /\ UNCHANGED <<fileVars, userVars, map, alive, interest, readable, waits, event,
                 reading, reported, events, fault>>

SkipEnds(w) == Goto(w, "ended") /\ event' = [event EXCEPT ![w] = Nil]

(* No entry, or an operator that is not alive.                             *)
Skip(w) == NextEvent(w)

Lookup(w) ==
  /\ at[w] = "look"
  /\ \E o \in batch[w] :
       /\ batch' = [batch EXCEPT ![w] = @ \ {o}]
       /\ \/ o \notin map \cap alive /\ Skip(w)
          \/ /\ o \in map \cap alive
             /\ event' = [event EXCEPT ![w] = o]
             /\ Goto(w, IF w[2] = "inotify" THEN "read" ELSE "emit")
  /\ UNCHANGED <<fileVars, userVars, map, alive, interest, readable, waits, reading,
                 reported, events, fault>>

Look(w) == MapFree /\ Lookup(w)

(* The read of getInotifyFd(): an error, what there is to read, or a wait  *)
(* for the file that has the number now.                                   *)
Read(w) ==
  LET f == File(event[w], "inotify") IN
  /\ at[w] = "read"
  /\ \/ /\ f \notin Inputs
        /\ UNCHANGED <<batch, readable, reading>> /\ NextEvent(w)
     \/ /\ f \in readable \cap Inputs /\ readable' = readable \ {f}
        /\ Goto(w, "emit") /\ UNCHANGED <<batch, event, reading>>
     \/ /\ f \in Inputs \ readable
        /\ reading' = [reading EXCEPT ![w] = f]
        /\ Goto(w, "blocked") /\ UNCHANGED <<batch, event, readable>>
  /\ UNCHANGED <<fileVars, userVars, map, alive, interest, waits, reported, events, fault>>

(* The end of the wait, and of the file if it was closed meanwhile.        *)
EndRead(w) ==
  LET f == reading[w] IN
  /\ at[w] = "blocked" /\ f \in readable
  /\ reading' = [reading EXCEPT ![w] = Nil] /\ Goto(w, "emit")
  /\ \/ IsOpen(f) /\ readable' = readable \ {f} /\ UNCHANGED interest
     \/ ~ IsOpen(f) /\ Release({f})
  /\ UNCHANGED <<fileVars, userVars, map, alive, waits, batch, event, reported,
                 events, fault>>

(* The signal posts to the operator's loop, if it still exists.            *)
Emit(w) ==
  /\ at[w] = "emit"
  /\ IF user[event[w]] = "members" THEN fault' = TRUE /\ UNCHANGED <<reported, watchVars>>
     ELSE /\ reported' = reported \cup {<<event[w], w[2]>>}
          /\ UNCHANGED <<batch, waits, reading, fault>> /\ NextEvent(w)
  /\ UNCHANGED <<fileVars, userVars, map, alive, interest, readable, events>>

(* Something to read comes for a file that is there.                       *)
Arrive(f) ==
  /\ <<f[1], f[2]>> \in Sources /\ f \notin readable /\ (IsOpen(f) \/ f \in Held)
  /\ events < MaxEvents /\ events' = events + 1
  /\ readable' = readable \cup {f}
  /\ UNCHANGED <<fileVars, userVars, map, alive, interest, watchVars, reported, fault>>
-----------------------------------------------------------------------------
UserStep(o) == EnterMap(o) \/ AddWatch(o) \/ EndObject(o)
WatchStep(w) == Start(w) \/ Call(w) \/ Wait(w) \/ Look(w) \/ Read(w) \/ EndRead(w) \/ Emit(w)

UserCall(o) ==
  \/ Construct(o) \/ Close(o) \/ Destroy(o)
  \/ \E k \in Kinds : Watch(o, k) \/ Isolate(o, k) \/ Answer(o, k)

Next ==
  /\ ~ fault
  /\ \/ \E o \in Operators : UserCall(o) \/ UserStep(o)
     \/ \E w \in Watchers : WatchStep(w)
     \/ \E f \in Files : Arrive(f)

Spec == Init /\ [][Next]_vars

(* Threads go on.  g_fdOperatorMapMutex is a spin mutex: a thread that     *)
(* finds it free again and again, since its holders go back to epoll_wait, *)
(* gets it.                                                                *)
Fairness ==
  /\ \A o \in Operators : SF_vars(~ fault /\ UserStep(o))
  /\ \A w \in Watchers : SF_vars(~ fault /\ WatchStep(w))

FairSpec == Spec /\ Fairness
-----------------------------------------------------------------------------
(* What the operators must satisfy.                                        *)

OneHolder == \A v, w \in Watchers : event[v] # Nil /\ event[w] # Nil => v = w

(* The values of the variables have their types, and g_fdOperatorMapMutex  *)
(* is held by one watcher at a time (fd_operator.h, .cc:33, :61).          *)
TypeOK ==
  /\ table \in [Numbers -> Files \cup {Nil}]
  /\ number \in [Operators -> [Members -> Numbers \cup {-1}]]
  /\ user \in [Operators -> UserLabels]
  /\ watching \in [Operators -> Kinds \cup {Nil}]
  /\ inotifies \in [Operators -> SUBSET (1..MaxWatches)] /\ closed \subseteq Operators
  /\ map \subseteq Operators /\ alive \subseteq Operators
  /\ interest \in [Watchers -> SUBSET (Files \X Operators)]
  /\ readable \subseteq Files /\ at \in [Watchers -> WatchLabels]
  /\ waits \in [Watchers -> Watchers] /\ batch \in [Watchers -> SUBSET Operators]
  /\ event \in [Watchers -> Operators \cup {Nil}]
  /\ reading \in [Watchers -> Files \cup {Nil}]
  /\ reported \subseteq Operators \X Kinds /\ events \in 0..MaxEvents
  /\ fault \in BOOLEAN
  /\ OneHolder

OwnFile(o, m) ==
  \E i \in 0..MaxWatches :
    File(o, m) = <<o, m, i>> /\ (m = "inotify" => \A j \in inotifies[o] : j <= i)

(* What is behind the numbers of an operator nobody has closed are its own *)
(* files, the last ones it opened: no other operator closes them or gets   *)
(* their numbers, unless it was closed by hand and closes its numbers      *)
(* again in its destructor (fd_operator.cc:156, :348).                     *)
OwnNumbers ==
  ~ fault =>
    \A o \in Operators \ closed, m \in Members :
      user[o] \notin {"members", "gone"} /\ number[o][m] # -1 => OwnFile(o, m)

(* What may take away from a watcher what it was told there is to read:    *)
(* the operator is being closed, has two inotify files and one number for  *)
(* them, or one closed by hand still has its number; or a thread whose own *)
(* epoll file was closed waits on the operator's.                          *)
Disturbed(o) ==
  \/ o \in closed \/ user[o] = "members"
  \/ \E i, j \in inotifies[o] : i # j
  \/ File(o, "inotify") \in {File(p, "inotify") : p \in closed} \ {Nil}
  \/ \E w \in Watchers : waits[w] # w /\ waits[w][1] = o

(* A watcher that has the two mutexes has them for an operator that is     *)
(* alive, and it waits in a read with them for no operator but a disturbed *)
(* one (fd_operator.cc:70, :116).                                          *)
HoldsBriefly ==
  ~ fault =>
    \A w \in Watchers :
      event[w] # Nil => event[w] \in alive /\ (at[w] = "blocked" => Disturbed(event[w]))

(* What comes for a file with a shared watch is reported, whatever becomes *)
(* of other operators, as long as none is closed by hand and no watcher    *)
(* waits in a read (fd_operator.cc:58).                                    *)
Reported ==
  \A o \in Operators, k \in Kinds :
    (\E f \in readable : <<f, o>> \in interest[Shared(k)] /\ f[1] = o /\ f[2] = k)
      ~> \/ <<o, k>> \in reported \/ user[o] \in {"members", "gone"}
         \/ closed # {} \/ (\E w \in Watchers : at[w] = "blocked") \/ fault
=============================================================================
