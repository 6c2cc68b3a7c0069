-------------------------- MODULE FdOperatorProofs --------------------------
(***************************************************************************)
(* Proofs about the file descriptor operators, for any operators, calls,   *)
(* numbers and events: TypeOK, that operators keep their own files         *)
(* whatever others open and close, and that the two mutexes are held for   *)
(* live operators only, and in a wait for disturbed ones only.             *)
(***************************************************************************)
EXTENDS FdOperator, TLAPS

(* What the types do not say of a watcher: it has an event in the labels   *)
(* in which it uses one, only isolated ones open an epoll file, and every  *)
(* such file is a watcher's.                                               *)
WatcherShape ==
  \A w \in Watchers :
    /\ event[w] # Nil <=> at[w] \in {"read", "blocked", "emit"}
    /\ at[w] \in {"start", "call"} => w[1] \in Operators

UserShape == \A o \in Operators : user[o] \in {"map", "add"} => watching[o] \in Kinds

EpollShape ==
  \A n \in Numbers, o \in Operators, k \in Kinds, i \in 0..MaxWatches :
    table[n] = <<o, Epoll[k], i>> => Isolated(o, k) \in Watchers

Shape == WatcherShape /\ UserShape /\ EpollShape

TypeInv == TypeOK /\ Shape

-----------------------------------------------------------------------------
(* The constants.                                                          *)

LEMMA WatcherType ==
  ASSUME NEW w \in Watchers
  PROVE  /\ w[2] \in Kinds
         /\ w = Shared(w[2]) \/ (w[1] \in Operators /\ w = Isolated(w[1], w[2]))
         /\ w[1] = Nil <=> w[1] \notin Operators
<1>1. Nil \notin Operators BY FdAssumption
<1>2. CASE \E k \in Kinds : w = Shared(k)
  BY <1>1, <1>2 DEF Shared
<1>3. CASE w \in Operators \X Kinds
  BY <1>1, <1>3 DEF Isolated
<1> QED BY <1>2, <1>3 DEF Watchers

LEMMA EpollMembers ==
  ASSUME NEW k \in Kinds
  PROVE  /\ Epoll[k] \in Members /\ k \in Members /\ Epoll[k] \notin Kinds
         /\ Epoll[k] # "data" /\ Epoll[k] # "inotify"
BY DEF Epoll, Kinds, Members

LEMMA FileType ==
  ASSUME TypeOK, NEW n
  PROVE  FileAt(n) \in Files \cup {Nil}
BY DEF TypeOK, FileAt

LEMMA InterestType ==
  ASSUME TypeOK, NEW o \in Operators, NEW k
  PROVE  Interest(o, k) \subseteq Files \X Operators
BY FileType DEF Interest, File

LEMMA OpenType ==
  ASSUME TypeOK, NEW o \in Operators, NEW m \in Members, NEW i \in 0..MaxWatches,
         Open(o, m, i)
  PROVE  /\ table' \in [Numbers -> Files \cup {Nil}]
         /\ number' \in [Operators -> [Members -> Numbers \cup {-1}]]
         /\ \A n \in Numbers : table'[n] = table[n] \/ table'[n] = <<o, m, i>>
<1>1. PICK n \in Numbers :
        /\ table' = [table EXCEPT ![n] = <<o, m, i>>]
        /\ number' = [number EXCEPT ![o][m] = n]
  BY DEF Open
<1>2. <<o, m, i>> \in Files BY DEF Files
<1>3. number' = [number EXCEPT ![o] = [@ EXCEPT ![m] = n]]
  BY <1>1
<1>4. [number[o] EXCEPT ![m] = n] \in [Members -> Numbers \cup {-1}]
  BY DEF TypeOK
<1> QED BY <1>1, <1>2, <1>3, <1>4 DEF TypeOK

LEMMA ReleaseType ==
  ASSUME TypeOK, NEW fs, Release(fs)
  PROVE  interest' \in [Watchers -> SUBSET (Files \X Operators)] /\ readable' \subseteq Files
BY DEF Release, TypeOK

LEMMA CloseType ==
  ASSUME TypeOK, NEW o \in Operators, CloseAll(o)
  PROVE  /\ table' \in [Numbers -> Files \cup {Nil}]
         /\ number' = number
         /\ interest' \in [Watchers -> SUBSET (Files \X Operators)]
         /\ readable' \subseteq Files /\ fault' \in BOOLEAN
         /\ \A n \in Numbers : table'[n] = table[n] \/ table'[n] = Nil
<1> DEFINE ns == {number[o][m] : m \in Members} \cap Numbers
           fs == {table[n] : n \in ns}
<1>1. /\ table' = [n \in Numbers |-> IF n \in ns THEN Nil ELSE table[n]]
      /\ Release(fs \ Held)
      /\ fault' = (o \in closed /\ ~ fs \subseteq {Nil})
      /\ number' = number
  BY DEF CloseAll
<1> HIDE DEF ns, fs
<1> QED BY <1>1, ReleaseType DEF TypeOK

(* What a watch begins with opens at most an inotify file, of a new index. *)
LEMMA BeginType ==
  ASSUME TypeOK, NEW o \in Operators, NEW op, NEW k \in Kinds, BeginWatch(o, op, k)
  PROVE  \/ k = "data" /\ UNCHANGED <<fileVars, inotifies>>
         \/ /\ k = "inotify"
            /\ \E i \in 1..MaxWatches :
                 /\ i \in 0..MaxWatches /\ \A p \in Operators : \A j \in inotifies[p] : j < i
                 /\ inotifies' = [inotifies EXCEPT ![o] = @ \cup {i}]
                 /\ Open(o, k, i)
<1>1. MaxWatches \in Nat BY FdAssumption
<1>2. CASE k = "data" BY <1>2 DEF BeginWatch
<1>3. CASE k = "inotify"
  <2>1. PICK i \in 1..MaxWatches :
          /\ \A j \in 1..MaxWatches : (\E p \in Operators : j \in inotifies[p]) <=> j < i
          /\ inotifies' = [inotifies EXCEPT ![o] = @ \cup {i}]
          /\ Open(o, k, i)
    BY <1>3 DEF BeginWatch
  <2>2. \A p \in Operators : \A j \in inotifies[p] : j < i
    BY <2>1 DEF TypeOK
  <2>3. i \in 0..MaxWatches BY <1>1
  <2> QED BY <1>3, <2>1, <2>2, <2>3
<1> QED BY <1>2, <1>3 DEF Kinds

LEMMA BeginFiles ==
  ASSUME TypeOK, NEW o \in Operators, NEW op, NEW k \in Kinds, BeginWatch(o, op, k)
  PROVE  /\ table' \in [Numbers -> Files \cup {Nil}]
         /\ number' \in [Operators -> [Members -> Numbers \cup {-1}]]
         /\ inotifies' \in [Operators -> SUBSET (1..MaxWatches)]
         /\ \A n \in Numbers, p \in Operators, j \in Kinds, i \in 0..MaxWatches :
              table'[n] = <<p, Epoll[j], i>> => table[n] = <<p, Epoll[j], i>>
<1>1. CASE UNCHANGED <<fileVars, inotifies>>
  BY <1>1 DEF fileVars, TypeOK
<1>2. ASSUME NEW i \in 1..MaxWatches, i \in 0..MaxWatches, k = "inotify",
             inotifies' = [inotifies EXCEPT ![o] = @ \cup {i}], Open(o, k, i)
      PROVE  /\ table' \in [Numbers -> Files \cup {Nil}]
             /\ number' \in [Operators -> [Members -> Numbers \cup {-1}]]
             /\ inotifies' \in [Operators -> SUBSET (1..MaxWatches)]
             /\ \A n \in Numbers, p \in Operators, j \in Kinds, l \in 0..MaxWatches :
                  table'[n] = <<p, Epoll[j], l>> => table[n] = <<p, Epoll[j], l>>
  <2>1. k \in Members /\ \A j \in Kinds : Epoll[j] # k BY <1>2, EpollMembers
  <2>2. /\ table' \in [Numbers -> Files \cup {Nil}]
        /\ number' \in [Operators -> [Members -> Numbers \cup {-1}]]
        /\ \A n \in Numbers : table'[n] = table[n] \/ table'[n] = <<o, k, i>>
    BY <1>2, <2>1, OpenType
  <2>3. inotifies' \in [Operators -> SUBSET (1..MaxWatches)]
    BY <1>2 DEF TypeOK
  <2> QED BY <2>1, <2>2, <2>3
<1> QED BY <1>1, <1>2, BeginType

LEMMA NextEventType ==
  ASSUME TypeOK, NEW w \in Watchers, NextEvent(w)
  PROVE  /\ event' = [event EXCEPT ![w] = Nil]
         /\ \E label \in {"wait", "call", "look"} :
              at' = [at EXCEPT ![w] = label] /\ (label = "call" => w[1] # Nil)
BY DEF NextEvent, Goto, WaitAgain
-----------------------------------------------------------------------------
(* TypeOK.                                                                 *)

LEMMA TypeStep == ASSUME TypeInv, [Next]_vars PROVE TypeInv'
<1> USE DEF TypeInv
<1>1. Nil \notin Operators /\ Nil \notin Files /\ MaxEvents \in Nat /\ 0 \in 0..MaxWatches
  BY FdAssumption
<1>2. ASSUME NEW o \in Operators, Construct(o) PROVE TypeInv'
  <2>1. "data" \in Members BY DEF Members, Kinds
  <2>2. /\ table' \in [Numbers -> Files \cup {Nil}]
        /\ number' \in [Operators -> [Members -> Numbers \cup {-1}]]
        /\ \A n \in Numbers : table'[n] = table[n] \/ table'[n] = <<o, "data", 0>>
    BY <1>1, <1>2, <2>1, OpenType DEF Construct
  <2>3. TypeOK'
    BY <1>2, <2>2 DEF TypeOK, OneHolder, Construct, UserGoto, UserLabels, watchVars
  <2>4. \A n \in Numbers, p \in Operators, k \in Kinds, i \in 0..MaxWatches :
           table'[n] = <<p, Epoll[k], i>> => table[n] = <<p, Epoll[k], i>>
    BY <2>2, EpollMembers
  <2>5. Shape'
    <3>1. WatcherShape' BY <1>2 DEF Shape, WatcherShape, Construct, watchVars
    <3>2. UserShape' BY <1>2 DEF TypeOK, Shape, UserShape, Construct, UserGoto
    <3>3. EpollShape' BY <2>4 DEF Shape, EpollShape
    <3> QED BY <3>1, <3>2, <3>3 DEF Shape
  <2> QED BY <2>3, <2>5
<1>3. ASSUME NEW o \in Operators, NEW k \in Kinds, Watch(o, k) PROVE TypeInv'
  <2>1. /\ table' \in [Numbers -> Files \cup {Nil}]
        /\ number' \in [Operators -> [Members -> Numbers \cup {-1}]]
        /\ inotifies' \in [Operators -> SUBSET (1..MaxWatches)]
        /\ \A n \in Numbers, p \in Operators, j \in Kinds, i \in 0..MaxWatches :
             table'[n] = <<p, Epoll[j], i>> => table[n] = <<p, Epoll[j], i>>
    BY <1>3, BeginFiles DEF Watch
  <2>2. TypeOK'
    BY <1>3, <2>1 DEF TypeOK, OneHolder, Watch, UserGoto, UserLabels, watchVars
  <2>3. Shape'
    <3>1. WatcherShape' BY <1>3 DEF Shape, WatcherShape, Watch, watchVars
    <3>2. UserShape' BY <1>3 DEF TypeOK, Shape, UserShape, Watch, UserGoto
    <3>3. EpollShape' BY <2>1 DEF Shape, EpollShape
    <3> QED BY <3>1, <3>2, <3>3 DEF Shape
  <2> QED BY <2>2, <2>3
<1>4. ASSUME NEW o \in Operators, NEW k \in Kinds, Isolate(o, k) PROVE TypeInv'
  <2>1. /\ table' \in [Numbers -> Files \cup {Nil}]
        /\ number' \in [Operators -> [Members -> Numbers \cup {-1}]]
        /\ inotifies' \in [Operators -> SUBSET (1..MaxWatches)]
        /\ \A n \in Numbers, p \in Operators, j \in Kinds, i \in 0..MaxWatches :
             table'[n] = <<p, Epoll[j], i>> => table[n] = <<p, Epoll[j], i>>
    BY <1>4, BeginFiles DEF Isolate
  <2>2. <<o, "isolate", k>> \in Calls
    BY <1>4 DEF Isolate, BeginWatch, May
  <2>3. Isolated(o, k) \in Watchers /\ Isolated(o, k)[1] = o
    BY <2>2 DEF Isolated, Watchers
  <2>4. at' = [at EXCEPT ![Isolated(o, k)] = "start"] /\ at[Isolated(o, k)] = "off"
    BY <1>4 DEF Isolate, Goto
  <2>5. TypeOK'
    BY <1>4, <2>1, <2>4 DEF TypeOK, OneHolder, Isolate, WatchLabels
  <2>6. Shape'
    <3>1. WatcherShape'
      BY <1>4, <2>3, <2>4 DEF Isolate, TypeOK, Shape, WatcherShape
    <3>2. UserShape' BY <1>4 DEF Shape, UserShape, Isolate
    <3>3. EpollShape' BY <2>1 DEF Shape, EpollShape
    <3> QED BY <3>1, <3>2, <3>3 DEF Shape
  <2> QED BY <2>5, <2>6
<1>5. ASSUME NEW o \in Operators, NEW k \in Kinds, Answer(o, k) PROVE TypeInv'
  BY <1>5 DEF Answer, TypeOK, OneHolder, Shape, WatcherShape, UserShape, EpollShape, fileVars, userVars, watchVars
<1>6. ASSUME NEW o \in Operators, EnterMap(o) PROVE TypeInv'
  BY <1>6 DEF EnterMap, TypeOK, OneHolder, Shape, WatcherShape, UserShape, EpollShape, fileVars, watchVars, UserGoto, UserLabels
<1>7. ASSUME NEW o \in Operators, AddWatch(o) PROVE TypeInv'
  <2>1. Interest(o, watching[o]) \subseteq Files \X Operators
    BY InterestType
  <2>2. TypeOK'
    BY <1>7, <2>1 DEF TypeOK, OneHolder, AddWatch, UserGoto, UserLabels, fileVars, watchVars
  <2>3. Shape'
    BY <1>7 DEF TypeOK, Shape, WatcherShape, UserShape, EpollShape, AddWatch, UserGoto, fileVars, watchVars
  <2> QED BY <2>2, <2>3
<1>8. ASSUME NEW o \in Operators, Close(o) \/ Destroy(o) PROVE TypeInv'
  <2>1. /\ table' \in [Numbers -> Files \cup {Nil}]
        /\ number' = number
        /\ interest' \in [Watchers -> SUBSET (Files \X Operators)]
        /\ readable' \subseteq Files /\ fault' \in BOOLEAN
        /\ \A n \in Numbers : table'[n] = table[n] \/ table'[n] = Nil
    BY <1>8, CloseType DEF Close, Destroy
  <2>2. TypeOK'
    BY <1>8, <2>1 DEF TypeOK, OneHolder, Close, Destroy, UserGoto, UserLabels, watchVars
  <2>3. \A n \in Numbers, p \in Operators, j \in Kinds, i \in 0..MaxWatches :
           table'[n] = <<p, Epoll[j], i>> => table[n] = <<p, Epoll[j], i>>
    <3>1. \A p \in Operators, j \in Kinds, i \in 0..MaxWatches : <<p, Epoll[j], i>> \in Files
      BY EpollMembers DEF Files
    <3> QED BY <1>1, <2>1, <3>1
  <2>4. CASE Close(o)
    BY <2>2, <2>3, <2>4 DEF Shape, WatcherShape, UserShape, EpollShape, Close, watchVars
  <2>5. CASE Destroy(o)
    <3>1. Shape'
      <4>1. WatcherShape' BY <2>5 DEF Shape, WatcherShape, Destroy, watchVars
      <4>2. UserShape' BY <2>5 DEF TypeOK, Shape, UserShape, Destroy, UserGoto
      <4>3. EpollShape' BY <2>3 DEF Shape, EpollShape
      <4> QED BY <4>1, <4>2, <4>3 DEF Shape
    <3> QED BY <2>2, <3>1
  <2> QED BY <1>8, <2>4, <2>5
<1>9. ASSUME NEW o \in Operators, EndObject(o) PROVE TypeInv'
  BY <1>9 DEF EndObject, TypeOK, OneHolder, Shape, WatcherShape, UserShape, EpollShape, fileVars, watchVars, UserGoto, UserLabels
<1>10. ASSUME NEW w \in Watchers, Start(w) PROVE TypeInv'
  <2> DEFINE o == w[1]
             k == w[2]
  <2>1. o \in Operators /\ k \in Kinds /\ w = Isolated(o, k)
    BY <1>10, <1>1, WatcherType DEF Start, Shape, WatcherShape, UserShape, EpollShape, Shared
  <2>2. CASE user[o] = "gone"
    BY <1>10, <2>2 DEF Start, TypeOK, OneHolder, Shape, WatcherShape, UserShape, EpollShape, fileVars, userVars
  <2>3. CASE user[o] # "gone"
    <3>1. Epoll[k] \in Members
      BY <2>1, EpollMembers
    <3>2. Open(o, Epoll[k], 0)
      BY <1>10, <2>3 DEF Start
    <3>3. /\ table' \in [Numbers -> Files \cup {Nil}]
          /\ number' \in [Operators -> [Members -> Numbers \cup {-1}]]
          /\ \A n \in Numbers : table'[n] = table[n] \/ table'[n] = <<o, Epoll[k], 0>>
      BY <1>1, <2>1, <3>1, <3>2, OpenType
    <3>4. Interest(o, k) \subseteq Files \X Operators
      BY <2>1, InterestType
    <3>5. TypeOK'
      <4>1. at' \in [Watchers -> WatchLabels]
        BY <1>10, <2>3 DEF Start, TypeOK, Goto, WatchLabels
      <4>2. interest' \in [Watchers -> SUBSET (Files \X Operators)]
        BY <1>10, <2>3, <3>4 DEF Start, TypeOK
      <4> QED
        BY <1>10, <2>3, <3>3, <4>1, <4>2 DEF Start, TypeOK, OneHolder, userVars
    <3>6. \A n \in Numbers, p \in Operators, j \in Kinds, i \in 0..MaxWatches :
             table'[n] = <<p, Epoll[j], i>> =>
               table[n] = <<p, Epoll[j], i>> \/ Isolated(p, j) = w
      BY <2>1, <3>3 DEF Isolated, Epoll, Kinds
    <3>7. Shape'
      BY <1>10, <2>1, <2>3, <3>6 DEF Start, TypeOK, Shape, WatcherShape, UserShape, EpollShape, Goto, userVars
    <3> QED BY <3>5, <3>7
  <2> QED BY <2>2, <2>3
<1>11. ASSUME NEW w \in Watchers, Call(w) PROVE TypeInv'
  <2> DEFINE f == File(w[1], Epoll[w[2]])
  <2>1. w[1] \in Operators
    BY <1>11 DEF Call, Shape, WatcherShape, UserShape, EpollShape
  <2>2. f \in Files \cup {Nil}
    BY FileType DEF File
  <2>3. ASSUME NEW k \in Kinds, f # Nil, f[2] = Epoll[k]
        PROVE  Isolated(f[1], k) \in Watchers
    <3>1. PICK n \in Numbers : table[n] = f
      BY <2>3 DEF File, FileAt
    <3>2. f[1] \in Operators /\ f[3] \in 0..MaxWatches /\ f = <<f[1], Epoll[k], f[3]>>
      BY <2>2, <2>3 DEF Files
    <3> QED BY <3>1, <3>2 DEF Shape, EpollShape
  <2> HIDE DEF f
  <2>4. TypeOK'
    <3>1. at' \in [Watchers -> WatchLabels]
      BY <1>11 DEF Call, TypeOK, Goto, WatchLabels
    <3>2. waits' \in [Watchers -> Watchers]
      BY <1>11, <2>3 DEF Call, TypeOK, f
    <3> QED
      BY <1>11, <3>1, <3>2 DEF Call, TypeOK, OneHolder, fileVars, userVars
  <2>5. Shape'
    BY <1>11, <2>1 DEF Call, TypeOK, Shape, WatcherShape, UserShape, EpollShape, Goto, fileVars, userVars, f
  <2> QED BY <2>4, <2>5
<1>12. ASSUME NEW w \in Watchers, Wait(w) PROVE TypeInv'
  <2>1. batch' \in [Watchers -> SUBSET Operators]
    BY <1>12 DEF Wait, TypeOK
  <2>2. TypeOK'
    BY <1>12, <2>1 DEF Wait, TypeOK, OneHolder, Goto, WatchLabels, fileVars, userVars
  <2>3. Shape'
    BY <1>12 DEF Wait, TypeOK, Shape, WatcherShape, UserShape, EpollShape, Goto, fileVars, userVars
  <2> QED BY <2>2, <2>3
<1>13. ASSUME NEW w \in Watchers, Look(w) PROVE TypeInv'
  <2>1. PICK o \in batch[w] :
          /\ batch' = [batch EXCEPT ![w] = @ \ {o}]
          /\ \/ Skip(w)
             \/ /\ event' = [event EXCEPT ![w] = o]
                /\ \E label \in {"read", "emit"} : at' = [at EXCEPT ![w] = label]
    BY <1>13 DEF Look, Lookup, Goto
  <2>2. o \in Operators /\ at[w] = "look" /\ \A v \in Watchers : event[v] = Nil
    BY <1>13, <2>1 DEF Look, Lookup, MapFree, TypeOK
  <2>3. \/ /\ event' = [event EXCEPT ![w] = Nil]
           /\ \E label \in {"wait", "call", "look"} :
                at' = [at EXCEPT ![w] = label] /\ (label = "call" => w[1] # Nil)
        \/ /\ event' = [event EXCEPT ![w] = o]
           /\ \E label \in {"read", "emit"} : at' = [at EXCEPT ![w] = label]
    BY <2>1, NextEventType DEF Skip
  <2>4. TypeOK'
    <3>1. at' \in [Watchers -> WatchLabels]
      BY <2>3 DEF TypeOK, WatchLabels
    <3>2. event' \in [Watchers -> Operators \cup {Nil}]
      BY <2>2, <2>3 DEF TypeOK
    <3>3. batch' \in [Watchers -> SUBSET Operators]
      BY <2>1 DEF TypeOK
    <3> QED
      BY <1>13, <2>2, <2>3, <3>1, <3>2, <3>3 DEF Look, Lookup, TypeOK, OneHolder, fileVars, userVars
  <2>5. Shape'
    BY <1>13, <1>1, <2>2, <2>3, WatcherType DEF Look, Lookup, TypeOK, Shape, WatcherShape, UserShape, EpollShape, fileVars, userVars
  <2> QED BY <2>4, <2>5
<1>14. ASSUME NEW w \in Watchers, Read(w) PROVE TypeInv'
  <2>1. /\ batch' = batch /\ readable' \subseteq Files
        /\ \/ /\ event' = [event EXCEPT ![w] = Nil]
              /\ \E label \in {"wait", "call", "look"} :
                   at' = [at EXCEPT ![w] = label] /\ (label = "call" => w[1] # Nil)
           \/ /\ event' = event
              /\ \E label \in {"blocked", "emit"} : at' = [at EXCEPT ![w] = label]
    BY <1>14, NextEventType DEF Read, Goto, TypeOK
  <2>2. at[w] = "read" BY <1>14 DEF Read
  <2>3. reading' \in [Watchers -> Files \cup {Nil}]
    <3>1. Inputs \subseteq Files BY DEF Inputs, Files, Members
    <3>2. CASE UNCHANGED reading BY <3>2 DEF TypeOK
    <3>3. ASSUME NEW f \in Files, reading' = [reading EXCEPT ![w] = f]
          PROVE  reading' \in [Watchers -> Files \cup {Nil}]
      BY <3>3 DEF TypeOK
    <3> QED BY <1>14, <3>1, <3>2, <3>3 DEF Read
  <2>4. TypeOK'
    <3>1. at' \in [Watchers -> WatchLabels]
      BY <2>1 DEF TypeOK, WatchLabels
    <3>2. event' \in [Watchers -> Operators \cup {Nil}] /\ OneHolder'
      BY <2>1 DEF TypeOK, OneHolder
    <3> QED
      BY <1>14, <2>1, <2>3, <3>1, <3>2 DEF Read, TypeOK, fileVars, userVars
  <2>5. Shape'
    BY <1>14, <1>1, <2>1, <2>2, WatcherType DEF Read, TypeOK, Shape, WatcherShape, UserShape, EpollShape, fileVars, userVars
  <2> QED BY <2>4, <2>5
<1>18. ASSUME NEW w \in Watchers, EndRead(w) PROVE TypeInv'
  <2>1. /\ interest' \in [Watchers -> SUBSET (Files \X Operators)]
        /\ readable' \subseteq Files
    BY <1>18, ReleaseType DEF EndRead, TypeOK
  <2>2. reading' \in [Watchers -> Files \cup {Nil}]
    BY <1>18 DEF EndRead, TypeOK
  <2>3. /\ at' = [at EXCEPT ![w] = "emit"] /\ at[w] = "blocked"
        /\ UNCHANGED <<table, number, user, watching, event, batch, waits>>
    BY <1>18 DEF EndRead, Goto, fileVars, userVars
  <2>4. TypeOK'
    BY <1>18, <2>1, <2>2, <2>3 DEF EndRead, TypeOK, OneHolder, WatchLabels, fileVars, userVars
  <2>5. Shape'
    BY <2>3 DEF TypeOK, Shape, WatcherShape, UserShape, EpollShape
  <2> QED BY <2>4, <2>5
<1>15. ASSUME NEW w \in Watchers, Emit(w) PROVE TypeInv'
  <2>1. CASE user[event[w]] = "members"
    BY <1>15, <2>1 DEF Emit, TypeOK, OneHolder, Shape, WatcherShape, UserShape, EpollShape, fileVars, userVars, watchVars
  <2>2. CASE user[event[w]] # "members"
    <3>1. /\ batch' = batch /\ waits' = waits /\ fault' = fault
          /\ reported' = reported \cup {<<event[w], w[2]>>}
          /\ event' = [event EXCEPT ![w] = Nil]
          /\ \E label \in {"wait", "call", "look"} :
               at' = [at EXCEPT ![w] = label] /\ (label = "call" => w[1] # Nil)
      BY <1>15, <2>2, NextEventType DEF Emit
    <3>2. event[w] \in Operators /\ w[2] \in Kinds /\ at[w] = "emit"
      BY <1>15, WatcherType DEF Emit, TypeOK, Shape, WatcherShape, UserShape, EpollShape
    <3>3. TypeOK'
      <4>1. OneHolder' BY <3>1 DEF TypeOK, OneHolder
      <4>2. at' \in [Watchers -> WatchLabels] BY <3>1 DEF TypeOK, WatchLabels
      <4>3. event' \in [Watchers -> Operators \cup {Nil}] BY <3>1 DEF TypeOK
      <4>4. reported' \subseteq Operators \X Kinds BY <3>1, <3>2 DEF TypeOK
      <4>5. UNCHANGED <<fileVars, userVars, map, alive, interest, readable, waits, batch,
                        reading, events, fault>>
        BY <1>15, <2>2, <3>1 DEF Emit
      <4> QED BY <4>1, <4>2, <4>3, <4>4, <4>5 DEF TypeOK, fileVars, userVars
    <3>4. Shape'
      BY <1>15, <1>1, <3>1, <3>2, WatcherType DEF Emit, TypeOK, Shape, WatcherShape, UserShape, EpollShape, fileVars, userVars
    <3> QED BY <3>3, <3>4
  <2> QED BY <2>1, <2>2
<1>16. ASSUME NEW f \in Files, Arrive(f) PROVE TypeInv'
  BY <1>16, <1>1 DEF Arrive, TypeOK, OneHolder, Shape, WatcherShape, UserShape, EpollShape, fileVars, userVars, watchVars
<1>17. CASE UNCHANGED vars
  BY <1>17 DEF vars, fileVars, userVars, watchVars, TypeOK, OneHolder, Shape, WatcherShape, UserShape, EpollShape
<1> QED
  BY <1>2, <1>3, <1>4, <1>5, <1>6, <1>7, <1>8, <1>9, <1>10, <1>11, <1>12,
     <1>13, <1>14, <1>15, <1>16, <1>17, <1>18
  DEF Next, UserCall, UserStep, WatchStep

LEMMA TypeInit == ASSUME Init PROVE TypeInv
<1>1. Nil \notin Operators /\ Nil \notin Files
  BY FdAssumption
<1>2. Unset \in Numbers \cup {-1} BY DEF Unset
<1>3. TypeOK
  <2>1. MaxEvents \in Nat BY FdAssumption
  <2>2. /\ table \in [Numbers -> Files \cup {Nil}]
        /\ number \in [Operators -> [Members -> Numbers \cup {-1}]]
    BY <1>2 DEF Init
  <2>3. /\ user \in [Operators -> UserLabels]
        /\ watching \in [Operators -> Kinds \cup {Nil}]
    BY DEF Init, UserLabels
  <2>4. at \in [Watchers -> WatchLabels] /\ waits \in [Watchers -> Watchers]
    BY DEF Init, WatchLabels
  <2>5. /\ interest \in [Watchers -> SUBSET (Files \X Operators)]
        /\ batch \in [Watchers -> SUBSET Operators]
        /\ event \in [Watchers -> Operators \cup {Nil}]
        /\ reading \in [Watchers -> Files \cup {Nil}] /\ OneHolder
    BY DEF Init, OneHolder
  <2>6. /\ inotifies \in [Operators -> SUBSET (1..MaxWatches)] /\ closed \subseteq Operators
        /\ map \subseteq Operators /\ alive \subseteq Operators
        /\ readable \subseteq Files /\ reported \subseteq Operators \X Kinds
    BY DEF Init
  <2>7. events \in 0..MaxEvents
    <3>1. events = 0 BY DEF Init
    <3> QED BY <2>1, <3>1
  <2>8. fault \in BOOLEAN BY DEF Init
  <2> QED BY <2>2, <2>3, <2>4, <2>5, <2>6, <2>7, <2>8 DEF TypeOK
<1>4. WatcherShape
  BY <1>1, WatcherType DEF Init, WatcherShape
<1>5. UserShape
  BY DEF Init, UserShape
<1>6. EpollShape
  <2>1. \A o \in Operators, k \in Kinds, i \in 0..MaxWatches : <<o, Epoll[k], i>> \in Files
    BY EpollMembers DEF Files
  <2> QED BY <1>1, <2>1 DEF Init, EpollShape
<1> QED BY <1>3, <1>4, <1>5, <1>6 DEF TypeInv, Shape

(* Every variable keeps its type, whatever users call: a watcher never     *)
(* looks up or reads for an operator that is none, and never waits on an   *)
(* epoll file that is none.                                                *)
THEOREM FdTypeCorrect == Spec => []TypeOK
<1>1. Init => TypeInv BY TypeInit
<1>2. TypeInv /\ [Next]_vars => TypeInv' BY TypeStep
<1>3. TypeInv => TypeOK BY DEF TypeInv
<1> QED BY <1>1, <1>2, <1>3, PTL DEF Spec
-----------------------------------------------------------------------------
(* OwnNumbers.                                                             *)

Live(o) == o \notin closed /\ user[o] \notin {"members", "gone"}

LEMMA OwnType ==
  ASSUME OwnNumbers, ~ fault, NEW o \in Operators, NEW m \in Members, Live(o),
         number[o][m] # -1
  PROVE  /\ OwnFile(o, m)
         /\ File(o, m) \in Files /\ File(o, m)[1] = o /\ File(o, m)[2] = m
         /\ File(o, m) # Nil
<1>1. OwnFile(o, m) BY DEF OwnNumbers, Live
<1>2. PICK i \in 0..MaxWatches : File(o, m) = <<o, m, i>>
  BY <1>1 DEF OwnFile
<1>3. <<o, m, i>> \in Files BY DEF Files
<1> QED BY <1>1, <1>2, <1>3, FdAssumption

LEMMA NumberFile ==
  ASSUME TypeInv, NEW o \in Operators, NEW m \in Members, File(o, m) # Nil
  PROVE  number[o][m] \in Numbers /\ table[number[o][m]] = File(o, m) /\ number[o][m] # -1
BY DEF TypeInv, TypeOK, File, FileAt, Numbers

(* Opening a file of one operator changes no number of another, and at     *)
(* most the file behind a number that had none.                            *)
LEMMA OpenFiles ==
  ASSUME TypeInv, NEW o \in Operators, NEW m \in Members, NEW i, Open(o, m, i),
         NEW p \in Operators, NEW q \in Members
  PROVE  /\ p = o /\ q = m => File(p, q)' = <<o, m, i>> /\ number'[p][q] # -1
         /\ ~ (p = o /\ q = m) => number'[p][q] = number[p][q]
         /\ ~ (p = o /\ q = m) =>
              \/ File(p, q)' = File(p, q)
              \/ File(p, q) = Nil /\ File(p, q)' = <<o, m, i>>
<1>1. PICK n \in Numbers :
        /\ table[n] = Nil
        /\ table' = [table EXCEPT ![n] = <<o, m, i>>]
        /\ number' = [number EXCEPT ![o][m] = n]
  BY DEF Open
<1>2. CASE p = o /\ q = m
  <2>1. number'[p][q] = n BY <1>1, <1>2 DEF TypeInv, TypeOK
  <2> QED BY <1>1, <1>2, <2>1 DEF File, FileAt, Numbers, TypeInv, TypeOK
<1>3. CASE ~ (p = o /\ q = m)
  <2>1. number'[p][q] = number[p][q]
    BY <1>1, <1>3 DEF TypeInv, TypeOK
  <2> QED BY <1>1, <1>3, <2>1 DEF File, FileAt, TypeInv, TypeOK
<1> QED BY <1>2, <1>3

(* The lowest free number is nobody's.                                     *)
LEMMA OpenKeeps ==
  ASSUME TypeInv, OwnNumbers, ~ fault,
         NEW o \in Operators, NEW m \in Members, NEW i \in 0..MaxWatches, Open(o, m, i),
         m # "inotify" => inotifies' = inotifies,
         m = "inotify" => /\ inotifies' = [inotifies EXCEPT ![o] = @ \cup {i}]
                          /\ \A j \in inotifies[o] : j < i,
         NEW p \in Operators, NEW q \in Members, Live(p), number'[p][q] # -1
  PROVE  OwnFile(p, q)'
<1>1. CASE p = o /\ q = m
  <2>1. File(p, q)' = <<p, q, i>> BY <1>1, OpenFiles
  <2>2. q = "inotify" => \A j \in inotifies'[p] : j <= i
    BY <1>1 DEF TypeInv, TypeOK
  <2> QED BY <2>1, <2>2 DEF OwnFile
<1>2. CASE ~ (p = o /\ q = m)
  <2>1. number[p][q] # -1 BY <1>2, OpenFiles
  <2>2. PICK l \in 0..MaxWatches : /\ File(p, q) = <<p, q, l>>
                                   /\ q = "inotify" => \A j \in inotifies[p] : j <= l
    BY <2>1, OwnType DEF OwnFile
  <2>3. File(p, q)' = <<p, q, l>> BY <1>2, <2>1, <2>2, OwnType, OpenFiles
  <2>4. q = "inotify" => inotifies'[p] = inotifies[p]
    BY <1>2 DEF TypeInv, TypeOK
  <2> QED BY <2>2, <2>3, <2>4 DEF OwnFile
<1> QED BY <1>1, <1>2

(* An operator closes its own files, or, a second time, none, or fault is  *)
(* set.                                                                    *)
LEMMA CloseFiles ==
  ASSUME TypeInv, OwnNumbers, ~ fault, ~ fault',
         NEW o \in Operators, CloseAll(o), user[o] = "idle"
  PROVE  \E fs :
           /\ Release(fs \ Held) /\ number' = number
           /\ \A f \in fs : f = Nil \/ f[1] = o
           /\ \A p \in Operators, q \in Members :
                /\ File(p, q)' \in {File(p, q), Nil}
                /\ File(p, q) \notin fs => File(p, q)' = File(p, q)
<1> DEFINE ns == {number[o][m] : m \in Members} \cap Numbers
           fs == {table[n] : n \in ns}
<1>1. /\ table' = [n \in Numbers |-> IF n \in ns THEN Nil ELSE table[n]]
      /\ Release(fs \ Held)
      /\ fault' = (o \in closed /\ ~ fs \subseteq {Nil})
      /\ number' = number
  BY DEF CloseAll
<1>2. \A f \in fs : f = Nil \/ f[1] = o
  <2>1. CASE o \in closed BY <1>1, <2>1
  <2>2. CASE o \notin closed
    <3>1. SUFFICES ASSUME NEW m \in Members, number[o][m] \in Numbers
                   PROVE  table[number[o][m]] = Nil \/ table[number[o][m]][1] = o
      OBVIOUS
    <3>2. number[o][m] # -1 /\ Live(o) BY <2>2, <3>1 DEF Numbers, Live
    <3>3. File(o, m)[1] = o BY <3>2, OwnType
    <3> QED BY <3>1, <3>3 DEF File, FileAt
  <2> QED BY <2>1, <2>2
<1>3. ASSUME NEW p \in Operators, NEW q \in Members
      PROVE  /\ File(p, q)' \in {File(p, q), Nil}
             /\ File(p, q) \notin fs => File(p, q)' = File(p, q)
  <2>1. CASE number[p][q] \in Numbers
    <3>1. File(p, q) \notin fs => number[p][q] \notin ns
      BY <2>1 DEF File, FileAt
    <3> HIDE DEF ns, fs
    <3> QED BY <1>1, <2>1, <3>1 DEF File, FileAt
  <2>2. CASE number[p][q] \notin Numbers
    BY <1>1, <2>2 DEF File, FileAt
  <2> QED BY <2>1, <2>2
<1> HIDE DEF ns, fs
<1> WITNESS fs
<1> QED BY <1>1, <1>2, <1>3

LEMMA CloseKeeps ==
  ASSUME TypeInv, OwnNumbers, ~ fault, ~ fault',
         NEW o \in Operators, CloseAll(o), user[o] = "idle", inotifies' = inotifies,
         NEW p \in Operators, NEW q \in Members, Live(p), p # o, number[p][q] # -1
  PROVE  OwnFile(p, q)' /\ File(p, q)' = File(p, q)
<1>1. File(p, q) # Nil /\ File(p, q)[1] = p /\ OwnFile(p, q) BY OwnType
<1>2. File(p, q)' = File(p, q) BY <1>1, CloseFiles
<1> QED BY <1>1, <1>2 DEF OwnFile

LEMMA OwnStep ==
  ASSUME TypeInv, OwnNumbers, [Next]_vars
  PROVE  OwnNumbers'
<1> SUFFICES ASSUME ~ fault', NEW p \in Operators, NEW q \in Members,
                    Live(p)', number'[p][q] # -1
             PROVE  OwnFile(p, q)'
  BY DEF OwnNumbers, Live
<1>1. CASE UNCHANGED <<table, number, inotifies, user, closed, fault>>
  <2>1. OwnFile(p, q) BY <1>1 DEF OwnNumbers, Live
  <2> QED BY <1>1, <2>1 DEF OwnFile, File, FileAt
<1>3. ASSUME NEW o \in Operators, Close(o) \/ Destroy(o), ~ fault
      PROVE  OwnFile(p, q)'
  <2>1. CloseAll(o) /\ user[o] = "idle" /\ number' = number /\ inotifies' = inotifies
    BY <1>3 DEF Close, Destroy, May, CloseAll
  <2>2. Live(p) /\ p # o
    BY <1>3 DEF Live, Close, Destroy, UserGoto, TypeInv, TypeOK
  <2> QED BY <1>3, <2>1, <2>2, CloseKeeps
<1>4. ASSUME NEW o \in Operators, EnterMap(o) \/ AddWatch(o) \/ EndObject(o), ~ fault
      PROVE  OwnFile(p, q)'
  <2>1. UNCHANGED <<table, number, closed, inotifies>>
    BY <1>4 DEF EnterMap, AddWatch, EndObject, fileVars
  <2>2. Live(p)
    BY <1>4 DEF Live, EnterMap, AddWatch, EndObject, UserGoto, TypeInv, TypeOK
  <2>3. OwnFile(p, q) BY <1>4, <2>1, <2>2 DEF OwnNumbers, Live
  <2> QED BY <2>1, <2>3 DEF OwnFile, File, FileAt
<1>5. ASSUME ~ fault, NEW o \in Operators, Construct(o)
      PROVE  OwnFile(p, q)'
  <2>1. /\ Open(o, "data", 0) /\ inotifies' = inotifies /\ closed' = closed
        /\ user[o] = "none" /\ user' = [user EXCEPT ![o] = "idle"]
    BY <1>5 DEF Construct, UserGoto
  <2>2. Live(p) BY <2>1 DEF Live, TypeInv, TypeOK
  <2>3. "data" \in Members /\ 0 \in 0..MaxWatches BY FdAssumption DEF Members, Kinds
  <2> QED BY <1>5, <2>1, <2>2, <2>3, OpenKeeps
<1>6. ASSUME ~ fault, NEW o \in Operators, NEW k \in Kinds,
             Watch(o, k) \/ Isolate(o, k)
      PROVE  OwnFile(p, q)'
  <2>1. /\ closed' = closed /\ user[o] = "idle"
        /\ user' = user \/ user' = [user EXCEPT ![o] = "map"]
        /\ BeginWatch(o, "watch", k) \/ BeginWatch(o, "isolate", k)
    BY <1>6 DEF Watch, Isolate, BeginWatch, May, UserGoto
  <2>2. Live(p) BY <2>1 DEF Live, TypeInv, TypeOK
  <2>3. CASE UNCHANGED <<fileVars, inotifies>>
    <3>1. OwnFile(p, q) BY <1>6, <2>2, <2>3 DEF OwnNumbers, Live, fileVars
    <3> QED BY <2>3, <3>1 DEF OwnFile, File, FileAt, fileVars
  <2>4. ASSUME NEW i \in 1..MaxWatches, i \in 0..MaxWatches, k = "inotify",
               \A r \in Operators : \A j \in inotifies[r] : j < i,
               inotifies' = [inotifies EXCEPT ![o] = @ \cup {i}], Open(o, k, i)
        PROVE  OwnFile(p, q)'
    BY <1>6, <2>2, <2>4, OpenKeeps, EpollMembers
  <2> QED BY <2>1, <2>3, <2>4, BeginType DEF TypeInv
<1>7. ASSUME ~ fault, NEW w \in Watchers, Start(w)
      PROVE  OwnFile(p, q)'
  <2>1. w[1] \in Operators /\ Epoll[w[2]] \in Members /\ Epoll[w[2]] # "inotify"
    BY <1>7, WatcherType, EpollMembers DEF Start, TypeInv, Shape, WatcherShape
  <2>2. Open(w[1], Epoll[w[2]], 0) /\ user' = user /\ closed' = closed
        /\ inotifies' = inotifies /\ 0 \in 0..MaxWatches
    BY <1>7, FdAssumption DEF Start, userVars
  <2>3. Live(p) BY <2>2 DEF Live
  <2> QED BY <1>7, <2>1, <2>2, <2>3, OpenKeeps
<1>8. ASSUME ~ fault, NEW w \in Watchers,
             Call(w) \/ Wait(w) \/ Look(w) \/ Read(w) \/ EndRead(w) \/ Emit(w)
      PROVE  UNCHANGED <<table, number, inotifies, user, closed, fault>>
  BY <1>8 DEF Call, Wait, Look, Lookup, Read, EndRead, Emit, fileVars, userVars
<1>9. ASSUME ~ fault, NEW o \in Operators, NEW k \in Kinds, Answer(o, k)
      PROVE  UNCHANGED <<table, number, inotifies, user, closed, fault>>
  BY <1>9 DEF Answer, fileVars, userVars
<1>10. ASSUME NEW f \in Files, Arrive(f)
       PROVE  UNCHANGED <<table, number, inotifies, user, closed, fault>>
  BY <1>10 DEF Arrive, fileVars, userVars
<1>11. CASE UNCHANGED vars
  BY <1>1, <1>11 DEF vars, fileVars, userVars
<1> QED
  BY <1>1, <1>3, <1>4, <1>5, <1>6, <1>7, <1>8, <1>9, <1>10, <1>11
  DEF Next, UserCall, UserStep, WatchStep

(* Until an operator that was closed by hand closes somebody's files in    *)
(* its destructor, or memory is used after its end, every operator that    *)
(* lives keeps its own files behind its numbers, however many operators    *)
(* and threads open and close in whatever order.                           *)
THEOREM OperatorsKeepNumbers == Spec => []OwnNumbers
<1>1. Init => TypeInv /\ OwnNumbers
  <2>1. ASSUME Init PROVE OwnNumbers
    <3>1. ASSUME NEW o \in Operators, NEW m \in Members PROVE number[o][m] = -1
      BY <2>1 DEF Init, Unset
    <3> QED BY <3>1 DEF OwnNumbers
  <2> QED BY <2>1, TypeInit
<1>2. TypeInv /\ OwnNumbers /\ [Next]_vars => (TypeInv /\ OwnNumbers)'
  BY TypeStep, OwnStep
<1> QED BY <1>1, <1>2, PTL DEF Spec
-----------------------------------------------------------------------------
(* HoldsBriefly.                                                           *)

Twice(o) == \E i, j \in inotifies[o] : i # j
InotifyWatchers == {w \in Watchers : w[2] = "inotify"}

(* The operators a watcher is about to read for.                           *)
InHand(w) == batch[w] \cup (IF at[w] = "read" THEN {event[w]} ELSE {})

(* A watcher is about to emit a signal that is being destroyed: fault.     *)
Doomed == \E w \in Watchers : at[w] = "emit" /\ user[event[w]] = "members"

AliveShape ==
  \A o \in Operators :
    /\ o \in alive => user[o] \notin {"none", "gone"}
    /\ o \in closed => user[o] \notin {"map", "add"}

ReadShape ==
  \A w \in Watchers :
    /\ event[w] # Nil => event[w] \in alive /\ event[w] \notin batch[w]
    /\ at[w] \in {"read", "blocked"} => w[2] = "inotify"
    /\ at[w] = "blocked" <=> reading[w] # Nil
    /\ at[w] \in {"off", "start", "call", "wait", "ended"} => batch[w] = {}
    /\ at[w] \in {"off", "start"} => waits[w] = w

(* A file that is there has been made.                                     *)
FileShape ==
  \A o \in Operators, i \in 0..MaxWatches :
    /\ \A n \in Numbers : table[n] = <<o, "inotify", i>> => i \in inotifies[o]
    /\ \A w \in Watchers : reading[w] = <<o, "inotify", i>> => i \in inotifies[o]

(* What is watched: as long as an operator lives and has one inotify file, *)
(* that file.                                                              *)
InterestShape ==
  /\ \A w \in Watchers : \A e \in interest[w] : w[1] = Nil \/ w[1] = e[2]
  /\ \A w \in InotifyWatchers : \A e \in interest[w] :
       /\ inotifies[e[2]] # {}
       /\ Live(e[2]) /\ ~ Twice(e[2]) => e[1] = File(e[2], "inotify")

(* Two ways of watching are two calls of inotifyWatch.                     *)
OwnWay(o) ==
  LET w == Isolated(o, "inotify") IN w \in Watchers /\ at[w] # "off"

SharedWay(o) ==
  watching[o] = "inotify" \/ \E e \in interest[Shared("inotify")] : e[2] = o

WayShape ==
  \A o \in Operators :
    /\ OwnWay(o) \/ SharedWay(o) => inotifies[o] # {}
    /\ OwnWay(o) /\ SharedWay(o) => Twice(o)

(* A watcher that waits on the epoll file of a living operator's watch     *)
(* still has it behind its own number.                                     *)
Stray(w) ==
  /\ w[1] \in Operators /\ waits[w][1] \in Operators
  /\ Live(waits[w][1]) =>
       \E i \in 0..MaxWatches :
         File(w[1], Epoll[w[2]]) = <<waits[w][1], Epoll[waits[w][2]], i>>

StrayShape == \A w \in Watchers : waits[w] # w => Stray(w)

(* What a watcher has in hand of a living operator that is not disturbed   *)
(* is there to read, and it watches that file itself.                      *)
HandShape ==
  \A w \in InotifyWatchers : \A o \in InHand(w) :
    Live(o) =>
      \/ Disturbed(o) \/ Doomed
      \/ <<File(o, "inotify"), o>> \in interest[w] /\ File(o, "inotify") \in readable

(* Nobody waits for the file of a living operator that is not disturbed,   *)
(* unless it will emit a signal that is being destroyed.                   *)
BlockedShape ==
  \A w \in Watchers :
    at[w] = "blocked" =>
      /\ Disturbed(event[w])
      /\ \/ user[event[w]] = "members"
         \/ \A o \in Operators : Live(o) /\ reading[w] = File(o, "inotify") => Disturbed(o)

HoldShape ==
  /\ AliveShape /\ ReadShape /\ FileShape /\ InterestShape /\ WayShape
  /\ StrayShape /\ HandShape /\ BlockedShape

(* All of it, as long as nothing went wrong for good.                      *)
HoldInv == TypeInv /\ OwnNumbers /\ (~ fault => HoldShape)

LEMMA NextEventShape ==
  ASSUME TypeOK, NEW w \in Watchers, NextEvent(w)
  PROVE  /\ event' = [event EXCEPT ![w] = Nil]
         /\ \E label \in {"wait", "call", "look"} :
              at' = [at EXCEPT ![w] = label] /\ (label # "look" => batch'[w] = {})
BY DEF NextEvent, Goto, WaitAgain

LEMMA AliveStep ==
  ASSUME TypeInv, AliveShape, [Next]_vars
  PROVE  AliveShape'
<1>1. ASSUME NEW o \in Operators, Construct(o) PROVE AliveShape'
  BY <1>1 DEF Construct, UserGoto, AliveShape, TypeInv, TypeOK
<1>2. ASSUME NEW o \in Operators, NEW k \in Kinds, Watch(o, k) PROVE AliveShape'
  BY <1>2 DEF Watch, BeginWatch, May, UserGoto, AliveShape, TypeInv, TypeOK
<1>3. ASSUME NEW o \in Operators, EnterMap(o) \/ AddWatch(o) PROVE AliveShape'
  BY <1>3 DEF EnterMap, AddWatch, UserGoto, AliveShape, TypeInv, TypeOK
<1>4. ASSUME NEW o \in Operators, Destroy(o) PROVE AliveShape'
  BY <1>4 DEF Destroy, UserGoto, AliveShape, TypeInv, TypeOK
<1>5. ASSUME NEW o \in Operators, EndObject(o) PROVE AliveShape'
  BY <1>5 DEF EndObject, UserGoto, AliveShape, TypeInv, TypeOK
<1>6. CASE UNCHANGED <<user, closed, alive>>
  BY <1>6 DEF AliveShape
<1>7. ASSUME NEW o \in Operators, NEW k \in Kinds, Isolate(o, k) \/ Answer(o, k)
      PROVE  UNCHANGED <<user, closed, alive>>
  BY <1>7 DEF Isolate, BeginWatch, Answer, userVars
<1>8. ASSUME NEW w \in Watchers, WatchStep(w) PROVE UNCHANGED <<user, closed, alive>>
  BY <1>8 DEF WatchStep, Start, Call, Wait, Look, Lookup, Read, EndRead, Emit, userVars
<1>9. ASSUME NEW f \in Files, Arrive(f) PROVE UNCHANGED <<user, closed, alive>>
  BY <1>9 DEF Arrive, userVars
<1>10. ASSUME NEW o \in Operators, Close(o) PROVE AliveShape'
  BY <1>10 DEF Close, May, AliveShape
<1>11. CASE UNCHANGED vars
  BY <1>6, <1>11 DEF vars, userVars
<1> QED
  BY <1>1, <1>2, <1>3, <1>4, <1>5, <1>6, <1>7, <1>8, <1>9, <1>10, <1>11
  DEF Next, UserCall, UserStep

(* What a step of a watcher does to its place.                             *)
LEMMA ReadStep ==
  ASSUME TypeInv, ReadShape, [Next]_vars, ~ fault, ~ fault'
  PROVE  ReadShape'
<1> USE DEF TypeInv, TypeOK, Shape, WatcherShape, ReadShape
<1>1. Nil \notin Operators /\ Nil \notin Files BY FdAssumption
<1>2. ASSUME UNCHANGED watchVars, alive \subseteq alive' PROVE ReadShape'
  BY <1>2 DEF watchVars
<1>3. ASSUME NEW o \in Operators, NEW k \in Kinds, Isolate(o, k) PROVE ReadShape'
  <2>1. /\ at' = [at EXCEPT ![Isolated(o, k)] = "start"] /\ at[Isolated(o, k)] = "off"
        /\ UNCHANGED <<waits, batch, event, reading, alive>>
    BY <1>3 DEF Isolate, Goto
  <2> QED BY <2>1
<1>4. ASSUME NEW o \in Operators, EndObject(o) PROVE ReadShape'
  BY <1>4 DEF EndObject, watchVars
<1>5. ASSUME NEW w \in Watchers, Start(w) PROVE ReadShape'
  <2>1. at[w] = "start" /\ UNCHANGED <<waits, batch, event, reading, alive>>
        /\ (at' = at \/ at' = [at EXCEPT ![w] = "call"])
    BY <1>5 DEF Start, Goto
  <2> QED BY <2>1
<1>6. ASSUME NEW w \in Watchers, Call(w) PROVE ReadShape'
  <2>1. /\ at[w] = "call" /\ UNCHANGED <<batch, event, reading, alive>>
        /\ \E label \in {"call", "ended", "wait"} : at' = [at EXCEPT ![w] = label]
        /\ \A v \in Watchers \ {w} : waits'[v] = waits[v]
    BY <1>6 DEF Call, Goto
  <2> QED BY <2>1
<1>7. ASSUME NEW w \in Watchers, Wait(w) PROVE ReadShape'
  <2>1. /\ at[w] = "wait" /\ UNCHANGED <<waits, event, reading, alive>>
        /\ at' = [at EXCEPT ![w] = "look"]
        /\ \A v \in Watchers \ {w} : batch'[v] = batch[v]
    BY <1>7 DEF Wait, Goto
  <2> QED BY <2>1
<1>8. ASSUME NEW w \in Watchers, Look(w) PROVE ReadShape'
  <2>1. PICK o \in batch[w] :
          /\ batch' = [batch EXCEPT ![w] = @ \ {o}]
          /\ \/ o \notin map \cap alive /\ NextEvent(w)
             \/ /\ o \in map \cap alive
                /\ event' = [event EXCEPT ![w] = o]
                /\ Goto(w, IF w[2] = "inotify" THEN "read" ELSE "emit")
    BY <1>8 DEF Look, Lookup, Skip
  <2>2. UNCHANGED <<waits, alive, reading>> /\ at[w] = "look"
    BY <1>8 DEF Look, Lookup
  <2>3. CASE NextEvent(w)
    <3>1. PICK label \in {"wait", "call", "look"} :
            at' = [at EXCEPT ![w] = label] /\ (label # "look" => batch'[w] = {})
      BY <2>3, NextEventShape
    <3>2. event' = [event EXCEPT ![w] = Nil] BY <2>3, NextEventShape
    <3> QED BY <2>1, <2>2, <3>1, <3>2
  <2>4. CASE o \in alive /\ event' = [event EXCEPT ![w] = o]
             /\ Goto(w, IF w[2] = "inotify" THEN "read" ELSE "emit")
    BY <1>1, <2>1, <2>2, <2>4 DEF Goto
  <2> QED BY <2>1, <2>3, <2>4
<1>9. ASSUME NEW w \in Watchers, Read(w) PROVE ReadShape'
  <2>1. UNCHANGED <<waits, alive, batch>> /\ at[w] = "read" BY <1>9 DEF Read
  <2>2. CASE NextEvent(w) /\ UNCHANGED reading
    <3>1. PICK label \in {"wait", "call", "look"} :
            at' = [at EXCEPT ![w] = label] /\ (label # "look" => batch'[w] = {})
      BY <2>2, NextEventShape
    <3>2. event' = [event EXCEPT ![w] = Nil] BY <2>2, NextEventShape
    <3> QED BY <2>1, <2>2, <3>1, <3>2
  <2>3. CASE Goto(w, "emit") /\ UNCHANGED <<event, reading>>
    BY <2>1, <2>3 DEF Goto
  <2>4. ASSUME NEW f \in Inputs, reading' = [reading EXCEPT ![w] = f],
               Goto(w, "blocked"), UNCHANGED event
        PROVE  ReadShape'
    <3>1. f # Nil BY <1>1 DEF Inputs, Files, Members
    <3> QED BY <2>1, <2>4, <3>1 DEF Goto
  <2> QED BY <1>9, <2>2, <2>3, <2>4 DEF Read
<1>10. ASSUME NEW w \in Watchers, EndRead(w) PROVE ReadShape'
  <2>1. /\ UNCHANGED <<waits, alive, batch, event>> /\ at[w] = "blocked"
        /\ at' = [at EXCEPT ![w] = "emit"] /\ reading' = [reading EXCEPT ![w] = Nil]
    BY <1>10 DEF EndRead, Goto
  <2> QED BY <2>1
<1>11. ASSUME NEW w \in Watchers, Emit(w) PROVE ReadShape'
  <2>1. /\ UNCHANGED <<waits, alive, batch, reading>> /\ NextEvent(w) /\ at[w] = "emit"
    BY <1>11 DEF Emit
  <2>2. PICK label \in {"wait", "call", "look"} :
          at' = [at EXCEPT ![w] = label] /\ (label # "look" => batch'[w] = {})
    BY <2>1, NextEventShape
  <2>3. event' = [event EXCEPT ![w] = Nil] BY <2>1, NextEventShape
  <2> QED BY <2>1, <2>2, <2>3
<1>12. ASSUME NEW o \in Operators,
              Construct(o) \/ EnterMap(o) \/ AddWatch(o) \/ Close(o) \/ Destroy(o)
       PROVE  ReadShape'
  BY <1>2, <1>12 DEF Construct, EnterMap, AddWatch, Close, Destroy
<1>13. ASSUME NEW o \in Operators, NEW k \in Kinds, Watch(o, k) \/ Answer(o, k)
       PROVE  ReadShape'
  BY <1>2, <1>13 DEF Watch, Answer
<1>14. ASSUME NEW f \in Files, Arrive(f) PROVE ReadShape'
  BY <1>2, <1>14 DEF Arrive
<1>15. CASE UNCHANGED vars
  BY <1>2, <1>15 DEF vars
<1> QED
  BY <1>3, <1>4, <1>5, <1>6, <1>7, <1>8, <1>9, <1>10, <1>11, <1>12, <1>13, <1>14, <1>15
  DEF Next, UserCall, UserStep, WatchStep
-----------------------------------------------------------------------------
(* What steps do to files.                                                 *)

(* Which files are opened and closed in a step.                            *)
NewInotify(o, i) ==
  /\ user[o] = "idle" /\ o \notin closed /\ Open(o, "inotify", i)
  /\ \A j \in inotifies[o] : j < i
  /\ inotifies' = [inotifies EXCEPT ![o] = @ \cup {i}]

FilesMove ==
  \/ UNCHANGED <<table, number, inotifies>>
  \/ \E o \in Operators :
       user[o] = "none" /\ Open(o, "data", 0) /\ inotifies' = inotifies
  \/ \E o \in Operators : \E i \in 1..MaxWatches : i \in 0..MaxWatches /\ NewInotify(o, i)
  \/ \E w \in Watchers :
       /\ w[1] \in Operators /\ at[w] = "start" /\ inotifies' = inotifies
       /\ Open(w[1], Epoll[w[2]], 0)
  \/ \E o \in Operators :
       user[o] = "idle" /\ CloseAll(o) /\ ~ Live(o)' /\ inotifies' = inotifies

LEMMA BeginMove ==
  ASSUME TypeInv, NEW o \in Operators, NEW op, NEW k \in Kinds, BeginWatch(o, op, k),
         op # "destroy"
  PROVE  \/ UNCHANGED <<table, number, inotifies>>
         \/ \E i \in 1..MaxWatches : i \in 0..MaxWatches /\ NewInotify(o, i)
<1>1. user[o] = "idle" /\ o \notin closed BY DEF BeginWatch, May
<1>2. CASE UNCHANGED <<fileVars, inotifies>> BY <1>2 DEF fileVars
<1>3. ASSUME NEW i \in 1..MaxWatches, i \in 0..MaxWatches, k = "inotify",
             \A p \in Operators : \A j \in inotifies[p] : j < i,
             inotifies' = [inotifies EXCEPT ![o] = @ \cup {i}], Open(o, k, i)
      PROVE  NewInotify(o, i)
  BY <1>1, <1>3 DEF NewInotify
<1> QED BY <1>2, <1>3, BeginType DEF TypeInv

LEMMA FilesStep ==
  ASSUME TypeInv, [Next]_vars, ~ fault, ~ fault'
  PROVE  FilesMove
<1>1. ASSUME NEW o \in Operators, Construct(o) PROVE FilesMove
  BY <1>1 DEF Construct, FilesMove
<1>2. ASSUME NEW o \in Operators, NEW k \in Kinds, Watch(o, k) \/ Isolate(o, k)
      PROVE  FilesMove
  BY <1>2, BeginMove DEF Watch, Isolate, FilesMove
<1>3. ASSUME NEW w \in Watchers, Start(w) PROVE FilesMove
  BY <1>3, FdAssumption DEF Start, FilesMove, userVars, TypeInv, Shape, WatcherShape
<1>4. ASSUME NEW o \in Operators, Close(o) PROVE FilesMove
  BY <1>4 DEF Close, May, FilesMove, Live
<1>5. ASSUME NEW o \in Operators, Destroy(o) PROVE FilesMove
  <2>1. user'[o] = "members" BY <1>5 DEF Destroy, UserGoto, TypeInv, TypeOK
  <2> QED BY <1>5, <2>1 DEF Destroy, May, FilesMove, Live
<1>6. CASE UNCHANGED <<table, number, inotifies>> BY <1>6 DEF FilesMove
<1>7. ASSUME NEW o \in Operators, EnterMap(o) \/ AddWatch(o) \/ EndObject(o)
      PROVE  UNCHANGED <<table, number, inotifies>>
  BY <1>7 DEF EnterMap, AddWatch, EndObject, fileVars
<1>8. ASSUME NEW w \in Watchers,
             Call(w) \/ Wait(w) \/ Look(w) \/ Read(w) \/ EndRead(w) \/ Emit(w)
      PROVE  UNCHANGED <<table, number, inotifies>>
  BY <1>8 DEF Call, Wait, Look, Lookup, Read, EndRead, Emit, fileVars, userVars
<1>9. ASSUME NEW o \in Operators, NEW k \in Kinds, Answer(o, k)
      PROVE  UNCHANGED <<table, number, inotifies>>
  BY <1>9 DEF Answer, fileVars, userVars
<1>10. ASSUME NEW f \in Files, Arrive(f) PROVE UNCHANGED <<table, number, inotifies>>
  BY <1>10 DEF Arrive, fileVars, userVars
<1>11. CASE UNCHANGED vars
  BY <1>6, <1>11 DEF vars, fileVars, userVars
<1> QED
  BY <1>1, <1>2, <1>3, <1>4, <1>5, <1>6, <1>7, <1>8, <1>9, <1>10, <1>11
  DEF Next, UserCall, UserStep, WatchStep

(* Nobody comes back to life.                                              *)
LEMMA LiveStep ==
  ASSUME TypeInv, [Next]_vars
  PROVE  /\ \A o \in Operators : Live(o)' => Live(o)
         /\ closed \subseteq closed'
         /\ \A o \in Operators : user'[o] = "gone" => user[o] \in {"members", "gone"}
         /\ \A o \in Operators : user[o] = "members" => user'[o] \in {"members", "gone"}
<1> DEFINE Kept ==
      /\ \A o \in Operators : Live(o)' => Live(o)
      /\ closed \subseteq closed'
      /\ \A o \in Operators : user'[o] = "gone" => user[o] \in {"members", "gone"}
      /\ \A o \in Operators : user[o] = "members" => user'[o] \in {"members", "gone"}
<1>1. CASE closed \subseteq closed' /\ user' = user BY <1>1 DEF Live
<1>2. ASSUME NEW o \in Operators, NEW label \in UserLabels, closed' = closed,
             user' = [user EXCEPT ![o] = label],
             label = "gone" => user[o] = "members",
             user[o] # "gone" /\ (user[o] = "members" => label = "gone")
      PROVE  Kept
  BY <1>2 DEF Live, TypeInv, TypeOK
<1>3. ASSUME NEW o \in Operators,
             Construct(o) \/ EnterMap(o) \/ AddWatch(o) \/ EndObject(o) \/ Destroy(o)
      PROVE  Kept
  <2>1. closed' = closed
    BY <1>3 DEF Construct, EnterMap, AddWatch, EndObject, Destroy
  <2>2. CASE Construct(o) BY <1>2, <2>1, <2>2 DEF Construct, UserGoto, UserLabels
  <2>3. CASE EnterMap(o) BY <1>2, <2>1, <2>3 DEF EnterMap, UserGoto, UserLabels
  <2>4. CASE AddWatch(o) BY <1>2, <2>1, <2>4 DEF AddWatch, UserGoto, UserLabels
  <2>5. CASE EndObject(o) BY <1>2, <2>1, <2>5 DEF EndObject, UserGoto, UserLabels
  <2>6. CASE Destroy(o) BY <1>2, <2>1, <2>6 DEF Destroy, May, UserGoto, UserLabels
  <2> QED BY <1>3, <2>2, <2>3, <2>4, <2>5, <2>6
<1>4. ASSUME NEW o \in Operators, NEW k \in Kinds, Watch(o, k) PROVE Kept
  BY <1>2, <1>4 DEF Watch, BeginWatch, May, UserGoto, UserLabels
<1>5. ASSUME NEW o \in Operators, NEW k \in Kinds, Isolate(o, k) \/ Answer(o, k)
      PROVE  UNCHANGED <<closed, user>>
  BY <1>5 DEF Isolate, Answer, userVars
<1>6. ASSUME NEW o \in Operators, Close(o) PROVE closed \subseteq closed' /\ user' = user
  BY <1>6 DEF Close
<1>7. ASSUME NEW w \in Watchers, WatchStep(w) PROVE UNCHANGED <<closed, user>>
  BY <1>7 DEF WatchStep, Start, Call, Wait, Look, Lookup, Read, EndRead, Emit, userVars
<1>8. ASSUME NEW f \in Files, Arrive(f) PROVE UNCHANGED <<closed, user>>
  BY <1>8 DEF Arrive, userVars
<1>9. CASE UNCHANGED vars BY <1>1, <1>9 DEF vars, userVars
<1> QED
  BY <1>1, <1>3, <1>4, <1>5, <1>6, <1>7, <1>8, <1>9 DEF Next, UserCall, UserStep

LEMMA InotifiesStep ==
  ASSUME TypeInv, FilesMove
  PROVE  \A o \in Operators :
           /\ inotifies[o] \subseteq inotifies'[o] /\ (Twice(o) => Twice(o)')
           /\ number'[o]["inotify"] # number[o]["inotify"] =>
                \E i \in 1..MaxWatches : i \in 0..MaxWatches /\ NewInotify(o, i)
<1>1. \A o \in Operators : inotifies[o] \subseteq inotifies'[o]
  BY DEF FilesMove, NewInotify, TypeInv, TypeOK
<1>2. \A o \in Operators : Twice(o) => Twice(o)' BY <1>1 DEF Twice
<1>3. ASSUME NEW o \in Operators, number'[o]["inotify"] # number[o]["inotify"]
      PROVE  \E i \in 1..MaxWatches : i \in 0..MaxWatches /\ NewInotify(o, i)
  <2>1. "inotify" \in Members /\ "data" \in Members BY DEF Members, Kinds
  <2>2. ASSUME NEW p \in Operators, NEW m \in Members, NEW i, Open(p, m, i),
               m # "inotify"
        PROVE  FALSE
    BY <1>3, <2>1, <2>2, OpenFiles
  <2>3. ASSUME NEW p \in Operators, NEW i, NewInotify(p, i) PROVE p = o
    BY <1>3, <2>1, <2>3, OpenFiles DEF NewInotify
  <2>4. ASSUME NEW w \in Watchers PROVE Epoll[w[2]] \in Members /\ Epoll[w[2]] # "inotify"
    BY WatcherType, EpollMembers
  <2> QED BY <1>3, <2>1, <2>2, <2>3, <2>4 DEF FilesMove, CloseAll
<1> QED BY <1>1, <1>2, <1>3

(* The file of a living operator stays behind every number that keeps it.  *)
LEMMA KeepOthers ==
  ASSUME TypeInv, OwnNumbers, FilesMove, ~ fault, ~ fault',
         NEW o \in Operators, Live(o)', NEW p \in Operators, NEW q \in Members,
         File(p, q) # Nil, File(p, q)[1] = o, number'[p][q] = number[p][q]
  PROVE  File(p, q)' = File(p, q)
<1>1. CASE UNCHANGED <<table, number>> BY <1>1 DEF File, FileAt
<1>2. ASSUME NEW r \in Operators, NEW s \in Members, NEW i, Open(r, s, i)
      PROVE  File(p, q)' = File(p, q)
  <2>1. CASE p = r /\ q = s
    <3>1. PICK n \in Numbers : /\ table[n] = Nil
                               /\ number' = [number EXCEPT ![r][s] = n]
      BY <1>2 DEF Open
    <3>2. number'[p][q] = n BY <2>1, <3>1 DEF TypeInv, TypeOK
    <3> QED BY <3>1, <3>2 DEF File, FileAt
  <2>2. CASE ~ (p = r /\ q = s) BY <1>2, <2>2, OpenFiles
  <2> QED BY <2>1, <2>2
<1>3. ASSUME NEW r \in Operators, user[r] = "idle", CloseAll(r), ~ Live(r)'
      PROVE  File(p, q)' = File(p, q)
  <2>1. PICK fs :
          /\ Release(fs \ Held) /\ number' = number
          /\ \A f \in fs : f = Nil \/ f[1] = r
          /\ \A t \in Operators, m \in Members :
               /\ File(t, m)' \in {File(t, m), Nil}
               /\ File(t, m) \notin fs => File(t, m)' = File(t, m)
    BY <1>3, CloseFiles
  <2>2. r # o BY <1>3
  <2>3. File(p, q) \notin fs BY <2>1, <2>2
  <2> QED BY <2>1, <2>3
<1>4. "inotify" \in Members /\ "data" \in Members BY DEF Members, Kinds
<1>5. ASSUME NEW w \in Watchers PROVE Epoll[w[2]] \in Members
  BY WatcherType, EpollMembers
<1> QED BY <1>1, <1>2, <1>3, <1>4, <1>5 DEF FilesMove, NewInotify

(* In particular behind its own one, until it makes another.               *)
LEMMA KeepOwn ==
  ASSUME TypeInv, OwnNumbers, FilesMove, ~ fault, ~ fault',
         NEW o \in Operators, Live(o), Live(o)',
         number'[o]["inotify"] = number[o]["inotify"]
  PROVE  File(o, "inotify")' = File(o, "inotify")
<1>1. "inotify" \in Members BY DEF Members, Kinds
<1>2. CASE number[o]["inotify"] = -1
  <2>1. -1 \notin Numbers BY DEF Numbers
  <2> QED BY <1>2, <2>1 DEF File, FileAt
<1>3. CASE number[o]["inotify"] # -1
  BY <1>1, <1>3, OwnType, KeepOthers
<1> QED BY <1>2, <1>3

LEMMA FileStep ==
  ASSUME TypeInv, FileShape, [Next]_vars, ~ fault, ~ fault'
  PROVE  FileShape'
<1>1. FilesMove BY FilesStep
<1>2. \A o \in Operators : inotifies[o] \subseteq inotifies'[o]
  BY <1>1, InotifiesStep
<1>3. Nil \notin Files BY FdAssumption
<1>4. "inotify" \in Members /\ "data" \in Members BY DEF Members, Kinds
<1>5. ASSUME NEW o \in Operators, NEW i \in 0..MaxWatches, NEW n \in Numbers,
             table'[n] = <<o, "inotify", i>>
      PROVE  i \in inotifies'[o]
  <2>1. <<o, "inotify", i>> \in Files BY <1>4 DEF Files
  <2>2. CASE table'[n] = table[n] BY <1>2, <1>5, <2>2 DEF FileShape
  <2>3. ASSUME NEW p \in Operators, NEW m \in Members, NEW j \in 0..MaxWatches,
               Open(p, m, j), m # "inotify"
        PROVE  table'[n] = table[n]
    <3>1. table'[n] = table[n] \/ table'[n] = <<p, m, j>>
      BY <2>3, OpenType DEF TypeInv
    <3> QED BY <1>5, <2>3, <3>1
  <2>4. ASSUME NEW p \in Operators, NEW j \in 0..MaxWatches, NewInotify(p, j)
        PROVE  table'[n] = table[n] \/ i \in inotifies'[o]
    <3>1. table'[n] = table[n] \/ table'[n] = <<p, "inotify", j>>
      BY <1>4, <2>4, OpenType DEF TypeInv, NewInotify
    <3>2. j \in inotifies'[p] BY <2>4 DEF NewInotify, TypeInv, TypeOK
    <3> QED BY <1>5, <3>1, <3>2
  <2>5. ASSUME NEW p \in Operators, CloseAll(p) PROVE table'[n] = table[n]
    BY <1>3, <1>5, <2>1, <2>5, CloseType DEF TypeInv
  <2>6. ASSUME NEW w \in Watchers PROVE Epoll[w[2]] \in Members /\ Epoll[w[2]] # "inotify"
    BY WatcherType, EpollMembers
  <2>7. 0 \in 0..MaxWatches BY FdAssumption
  <2> QED BY <1>1, <1>4, <2>2, <2>3, <2>4, <2>5, <2>6, <2>7 DEF FilesMove
<1>6. ASSUME NEW o \in Operators, NEW i \in 0..MaxWatches, NEW w \in Watchers,
             reading'[w] = <<o, "inotify", i>>
      PROVE  i \in inotifies'[o]
  <2>1. <<o, "inotify", i>> # Nil
    <3>1. <<o, "inotify", i>> \in Files BY <1>4 DEF Files
    <3> QED BY <1>3, <3>1
  <2>2. CASE reading'[w] = reading[w] BY <1>2, <1>6, <2>2 DEF FileShape
  <2>3. ASSUME NEW v \in Watchers, Read(v) PROVE i \in inotifies'[o]
    <3>1. \/ reading' = reading
          \/ reading' = [reading EXCEPT ![v] = File(event[v], "inotify")]
      BY <2>3 DEF Read
    <3>2. reading'[w] = reading[w] \/ reading'[w] = File(event[v], "inotify")
      BY <3>1 DEF TypeInv, TypeOK
    <3>3. CASE reading'[w] = File(event[v], "inotify")
      <4>1. \E n \in Numbers : table[n] = <<o, "inotify", i>>
        BY <1>6, <2>1, <3>3 DEF File, FileAt
      <4> QED BY <1>2, <4>1 DEF FileShape
    <3> QED BY <2>2, <3>2, <3>3
  <2>4. ASSUME NEW v \in Watchers, EndRead(v) PROVE i \in inotifies'[o]
    <3>1. reading' = [reading EXCEPT ![v] = Nil] BY <2>4 DEF EndRead
    <3>2. reading'[w] = reading[w]
      BY <1>6, <2>1, <3>1 DEF TypeInv, TypeOK
    <3> QED BY <2>2, <3>2
  <2>5. ASSUME NEW v \in Watchers, Start(v) \/ Call(v) \/ Wait(v) \/ Look(v) \/ Emit(v)
        PROVE  reading' = reading
    BY <2>5 DEF Start, Call, Wait, Look, Lookup, Emit, watchVars
  <2>6. ASSUME NEW p \in Operators, NEW k \in Kinds, Watch(p, k) \/ Isolate(p, k) \/ Answer(p, k)
        PROVE  reading' = reading
    BY <2>6 DEF Watch, Isolate, Answer, watchVars
  <2>7. ASSUME NEW p \in Operators,
               Construct(p) \/ Close(p) \/ Destroy(p) \/ EnterMap(p) \/ AddWatch(p)
                 \/ EndObject(p)
        PROVE  reading' = reading
    BY <2>7 DEF Construct, Close, Destroy, EnterMap, AddWatch, EndObject, watchVars
  <2>8. ASSUME NEW f \in Files, Arrive(f) PROVE reading' = reading
    BY <2>8 DEF Arrive, watchVars
  <2>9. CASE UNCHANGED vars BY <2>2, <2>9 DEF vars, watchVars
  <2> QED
    BY <2>2, <2>3, <2>4, <2>5, <2>6, <2>7, <2>8, <2>9
    DEF Next, UserCall, UserStep, WatchStep
<1> QED BY <1>5, <1>6 DEF FileShape
-----------------------------------------------------------------------------
(* What is watched.                                                        *)

(* A living operator with one inotify file keeps it.                       *)
LEMMA KeepWatched ==
  ASSUME TypeInv, OwnNumbers, FilesMove, ~ fault, ~ fault',
         NEW o \in Operators, Live(o), Live(o)', inotifies[o] # {}, ~ Twice(o)'
  PROVE  /\ ~ Twice(o) /\ File(o, "inotify")' = File(o, "inotify")
         /\ number'[o]["inotify"] = number[o]["inotify"]
<1>1. ~ Twice(o) BY InotifiesStep
<1>2. number'[o]["inotify"] = number[o]["inotify"]
  <2>1. SUFFICES ASSUME NEW i \in 1..MaxWatches, NewInotify(o, i) PROVE FALSE
    BY InotifiesStep
  <2>2. PICK j \in inotifies[o] : TRUE OBVIOUS
  <2>3. j < i /\ i \in inotifies'[o] /\ j \in inotifies'[o]
    BY <2>1, <2>2 DEF NewInotify, TypeInv, TypeOK
  <2>4. i # j BY <2>3 DEF TypeInv, TypeOK
  <2> QED BY <2>3, <2>4 DEF Twice
<1> QED BY <1>1, <1>2, KeepOwn

LEMMA InterestMove ==
  ASSUME TypeInv, [Next]_vars, ~ fault, ~ fault'
  PROVE  \/ \A w \in Watchers : interest'[w] \subseteq interest[w]
         \/ \E o \in Operators :
              /\ watching[o] \in Kinds
              /\ interest' = [interest EXCEPT ![Shared(watching[o])]
                                = @ \cup Interest(o, watching[o])]
         \/ \E w \in Watchers :
              /\ w[1] \in Operators /\ at[w] = "start"
              /\ interest' = [interest EXCEPT ![w] = Interest(w[1], w[2])]
<1> DEFINE Goal ==
      \/ \A w \in Watchers : interest'[w] \subseteq interest[w]
      \/ \E o \in Operators :
           /\ watching[o] \in Kinds
           /\ interest' = [interest EXCEPT ![Shared(watching[o])]
                             = @ \cup Interest(o, watching[o])]
      \/ \E w \in Watchers :
           /\ w[1] \in Operators /\ at[w] = "start"
           /\ interest' = [interest EXCEPT ![w] = Interest(w[1], w[2])]
<1>1. CASE interest' = interest BY <1>1
<1>2. ASSUME NEW fs, Release(fs) PROVE Goal BY <1>2 DEF Release, TypeInv, TypeOK
<1>3. ASSUME NEW o \in Operators, AddWatch(o) PROVE Goal
  BY <1>3 DEF AddWatch, TypeInv, Shape, UserShape
<1>4. ASSUME NEW w \in Watchers, Start(w) PROVE Goal
  BY <1>4 DEF Start, TypeInv, Shape, WatcherShape
<1>5. ASSUME NEW o \in Operators, Close(o) \/ Destroy(o) PROVE Goal
  BY <1>2, <1>5 DEF Close, Destroy, CloseAll
<1>6. ASSUME NEW w \in Watchers, EndRead(w) PROVE Goal
  BY <1>1, <1>2, <1>6 DEF EndRead
<1>7. ASSUME NEW o \in Operators, NEW k \in Kinds, Watch(o, k) \/ Isolate(o, k) \/ Answer(o, k)
      PROVE  interest' = interest
  BY <1>7 DEF Watch, Isolate, Answer
<1>8. ASSUME NEW o \in Operators, Construct(o) \/ EnterMap(o) \/ EndObject(o)
      PROVE  interest' = interest
  BY <1>8 DEF Construct, EnterMap, EndObject
<1>9. ASSUME NEW w \in Watchers, Call(w) \/ Wait(w) \/ Look(w) \/ Read(w) \/ Emit(w)
      PROVE  interest' = interest
  BY <1>9 DEF Call, Wait, Look, Lookup, Read, Emit
<1>10. ASSUME NEW f \in Files, Arrive(f) PROVE interest' = interest
  BY <1>10 DEF Arrive
<1>11. CASE UNCHANGED vars BY <1>1, <1>11 DEF vars
<1> HIDE DEF Goal
<1> QED
  <2>1. Goal
    BY <1>1, <1>3, <1>4, <1>5, <1>6, <1>7, <1>8, <1>9, <1>10, <1>11
    DEF Next, UserCall, UserStep, WatchStep, Goal
  <2> QED BY <2>1 DEF Goal

LEMMA InterestStep ==
  ASSUME TypeInv, OwnNumbers, InterestShape, WayShape, [Next]_vars, ~ fault, ~ fault'
  PROVE  InterestShape'
<1>1. FilesMove BY FilesStep
<1>2. \A o \in Operators : Live(o)' => Live(o) BY LiveStep
<1>3. \A o \in Operators : inotifies[o] \subseteq inotifies'[o]
  BY <1>1, InotifiesStep
<1> DEFINE Good(w, e) ==
      /\ w[1] = Nil \/ w[1] = e[2]
      /\ w[2] = "inotify" =>
           /\ inotifies[e[2]] # {}
           /\ Live(e[2]) /\ ~ Twice(e[2]) => e[1] = File(e[2], "inotify")
<1>4. ASSUME NEW w \in Watchers, NEW e, e[2] \in Operators, Good(w, e)
      PROVE  Good(w, e)'
  <2>1. SUFFICES ASSUME w[2] = "inotify"
                 PROVE  /\ inotifies'[e[2]] # {}
                        /\ Live(e[2])' /\ ~ Twice(e[2])' => e[1] = File(e[2], "inotify")'
    BY <1>4
  <2>2. inotifies'[e[2]] # {} BY <1>3, <1>4, <2>1
  <2>3. ASSUME Live(e[2])', ~ Twice(e[2])' PROVE e[1] = File(e[2], "inotify")'
    <3>1. Live(e[2]) /\ inotifies[e[2]] # {} BY <1>2, <1>4, <2>1, <2>3
    <3>2. ~ Twice(e[2]) /\ File(e[2], "inotify")' = File(e[2], "inotify")
      BY <1>1, <1>4, <2>3, <3>1, KeepWatched
    <3> QED BY <1>4, <2>1, <3>1, <3>2
  <2> QED BY <2>2, <2>3
<1>5. \A w \in Watchers : \A e \in interest[w] : e[2] \in Operators /\ Good(w, e)
  BY DEF InterestShape, InotifyWatchers, TypeInv, TypeOK
<1>6. ASSUME NEW w \in Watchers, NEW e \in interest'[w]
      PROVE  e[2] \in Operators /\ Good(w, e)
  <2>1. CASE \A v \in Watchers : interest'[v] \subseteq interest[v]
    BY <1>5, <1>6, <2>1
  <2>2. ASSUME NEW o \in Operators, watching[o] \in Kinds,
               interest' = [interest EXCEPT ![Shared(watching[o])]
                              = @ \cup Interest(o, watching[o])]
        PROVE  e[2] \in Operators /\ Good(w, e)
    <3>1. CASE e \in interest[w] BY <1>5, <3>1
    <3>2. CASE e \notin interest[w]
      <4>1. w = Shared(watching[o]) /\ e \in Interest(o, watching[o])
        BY <1>6, <2>2, <3>2 DEF TypeInv, TypeOK
      <4>2. w[1] = Nil /\ w[2] = watching[o] /\ e = <<File(o, watching[o]), o>>
        BY <4>1 DEF Shared, Interest
      <4>3. watching[o] = "inotify" => inotifies[o] # {}
        BY DEF WayShape, SharedWay
      <4> QED BY <4>2, <4>3
    <3> QED BY <3>1, <3>2
  <2>3. ASSUME NEW v \in Watchers, v[1] \in Operators, at[v] = "start",
               interest' = [interest EXCEPT ![v] = Interest(v[1], v[2])]
        PROVE  e[2] \in Operators /\ Good(w, e)
    <3>1. CASE w # v BY <1>5, <1>6, <2>3, <3>1 DEF TypeInv, TypeOK
    <3>2. CASE w = v
      <4>1. e \in Interest(v[1], v[2]) BY <1>6, <2>3, <3>2 DEF TypeInv, TypeOK
      <4>2. e = <<File(v[1], v[2]), v[1]>> BY <4>1 DEF Interest
      <4>3. v[2] = "inotify" => v = Isolated(v[1], "inotify")
        <5>1. v = Shared(v[2]) \/ v = Isolated(v[1], v[2])
          BY WatcherType
        <5>2. v # Shared(v[2]) BY <2>3, FdAssumption DEF Shared
        <5> QED BY <5>1, <5>2
      <4>4. v[2] = "inotify" => inotifies[v[1]] # {}
        BY <2>3, <4>3 DEF WayShape, OwnWay
      <4> QED BY <2>3, <3>2, <4>2, <4>4
    <3> QED BY <3>1, <3>2
  <2> QED BY <2>1, <2>2, <2>3, InterestMove
<1>7. \A w \in Watchers : \A e \in interest'[w] : Good(w, e)' BY <1>4, <1>6
<1> QED BY <1>7 DEF InterestShape, InotifyWatchers

(* When a watcher starts, and when a watch is begun.                       *)
LEMMA WayMove ==
  ASSUME TypeInv, [Next]_vars, ~ fault, ~ fault', NEW o \in Operators
  PROVE  /\ OwnWay(o)' => OwnWay(o) \/ Isolate(o, "inotify")
         /\ watching'[o] = "inotify" => watching[o] = "inotify" \/ Watch(o, "inotify")
<1> USE DEF TypeInv, TypeOK, Shape, WatcherShape
<1> DEFINE v == Isolated(o, "inotify")
           Quiet == /\ at[v] = "off" => at'[v] = "off" \/ v \notin Watchers
                    /\ watching'[o] \in {watching[o], Nil}
           Goal == /\ OwnWay(o)' => OwnWay(o) \/ Isolate(o, "inotify")
                   /\ watching'[o] = "inotify" => watching[o] = "inotify" \/ Watch(o, "inotify")
<1>1. CASE Quiet
  BY <1>1, FdAssumption DEF OwnWay, Kinds
<1>2. ASSUME NEW p \in Operators, NEW k \in Kinds, Watch(p, k) PROVE Goal
  <2>1. at' = at /\ watching' = [watching EXCEPT ![p] = k]
    BY <1>2 DEF Watch, watchVars
  <2>2. watching'[o] = "inotify" => watching[o] = "inotify" \/ (p = o /\ k = "inotify")
    BY <2>1
  <2> QED BY <1>2, <2>1, <2>2 DEF OwnWay
<1>3. ASSUME NEW p \in Operators, NEW k \in Kinds, Isolate(p, k) PROVE Goal
  <2>1. watching' = watching /\ at' = [at EXCEPT ![Isolated(p, k)] = "start"]
    BY <1>3 DEF Isolate, Goto
  <2>2. CASE p = o /\ k = "inotify" BY <1>3, <2>1, <2>2
  <2>3. CASE ~ (p = o /\ k = "inotify")
    <3>1. Isolated(p, k) # v BY <2>3 DEF Isolated
    <3> QED BY <2>1, <3>1 DEF OwnWay
  <2> QED BY <2>2, <2>3
<1>4. ASSUME NEW p \in Operators,
             Construct(p) \/ Close(p) \/ Destroy(p) \/ EnterMap(p) \/ AddWatch(p)
               \/ EndObject(p)
      PROVE  Quiet
  <2>1. at' = at
    BY <1>4 DEF Construct, Close, Destroy, EnterMap, AddWatch, EndObject, watchVars
  <2>2. watching' = watching \/ watching' = [watching EXCEPT ![p] = Nil]
    BY <1>4 DEF Construct, Close, Destroy, EnterMap, AddWatch, EndObject
  <2> QED BY <2>1, <2>2
<1>5. ASSUME NEW p \in Operators, NEW k \in Kinds, Answer(p, k) PROVE Quiet
  BY <1>5 DEF Answer, userVars, watchVars
<1>6. ASSUME NEW w \in Watchers, WatchStep(w) PROVE Quiet
  <2>1. watching' = watching
    BY <1>6 DEF WatchStep, Start, Call, Wait, Look, Lookup, Read, EndRead, Emit, userVars
  <2>2. at[w] # "off"
    BY <1>6 DEF WatchStep, Start, Call, Wait, Look, Lookup, Read, EndRead, Emit
  <2>3. \A u \in Watchers \ {w} : at'[u] = at[u]
    BY <1>6, NextEventType
    DEF WatchStep, Start, Call, Wait, Look, Lookup, Skip, Read, EndRead, Emit, Goto, watchVars
  <2> QED BY <2>1, <2>2, <2>3
<1>7. ASSUME NEW f \in Files, Arrive(f) PROVE Quiet
  BY <1>7 DEF Arrive, userVars, watchVars
<1>8. CASE UNCHANGED vars
  <2>1. Quiet BY <1>8 DEF vars, userVars, watchVars
  <2> QED BY <1>1, <2>1
<1> HIDE DEF Quiet
<1> QED
  BY <1>1, <1>2, <1>3, <1>4, <1>5, <1>6, <1>7, <1>8 DEF Next, UserCall, UserStep

LEMMA WayStep ==
  ASSUME TypeInv, WayShape, [Next]_vars, ~ fault, ~ fault'
  PROVE  WayShape'
<1>1. FilesMove BY FilesStep
<1>2. SUFFICES ASSUME NEW o \in Operators
               PROVE  /\ OwnWay(o)' \/ SharedWay(o)' => inotifies'[o] # {}
                      /\ OwnWay(o)' /\ SharedWay(o)' => Twice(o)'
  BY DEF WayShape
<1>3. inotifies[o] \subseteq inotifies'[o] /\ (Twice(o) => Twice(o)')
  BY <1>1, InotifiesStep
<1>4. SharedWay(o)' => SharedWay(o) \/ Watch(o, "inotify")
  <2>1. SUFFICES ASSUME NEW e \in interest'[Shared("inotify")], e[2] = o
                 PROVE  SharedWay(o)
    BY WayMove DEF SharedWay
  <2>2. Shared("inotify") \in Watchers BY DEF Watchers, Kinds
  <2>3. CASE e \in interest[Shared("inotify")] BY <2>1, <2>3 DEF SharedWay
  <2>4. ASSUME NEW p \in Operators, watching[p] \in Kinds,
               interest' = [interest EXCEPT ![Shared(watching[p])]
                              = @ \cup Interest(p, watching[p])],
               e \notin interest[Shared("inotify")]
        PROVE  SharedWay(o)
    <3>1. Shared(watching[p]) = Shared("inotify") /\ e \in Interest(p, watching[p])
      BY <2>1, <2>2, <2>4 DEF TypeInv, TypeOK
    <3>2. watching[p] = "inotify" /\ e[2] = p
      BY <3>1 DEF Shared, Interest
    <3> QED BY <2>1, <3>2 DEF SharedWay
  <2>5. ASSUME NEW v \in Watchers, v[1] \in Operators,
               interest' = [interest EXCEPT ![v] = Interest(v[1], v[2])]
        PROVE  e \in interest[Shared("inotify")]
    <3>1. v # Shared("inotify") BY <2>5, FdAssumption DEF Shared
    <3> QED BY <2>1, <2>2, <2>5, <3>1 DEF TypeInv, TypeOK
  <2> QED BY <2>2, <2>3, <2>4, <2>5, InterestMove
<1>5. ASSUME NEW op, op # "destroy", BeginWatch(o, op, "inotify")
      PROVE  /\ inotifies'[o] # {}
             /\ inotifies[o] # {} => Twice(o)'
  <2>1. "inotify" \in Kinds BY DEF Kinds
  <2>2. PICK i \in 1..MaxWatches :
          /\ i \in 0..MaxWatches /\ \A p \in Operators : \A j \in inotifies[p] : j < i
          /\ inotifies' = [inotifies EXCEPT ![o] = @ \cup {i}]
          /\ Open(o, "inotify", i)
    BY <1>5, <2>1, BeginType DEF TypeInv
  <2>3. i \in inotifies'[o] BY <2>2 DEF TypeInv, TypeOK
  <2>4. ASSUME NEW j \in inotifies[o] PROVE Twice(o)'
    <3>1. j < i /\ j \in 1..MaxWatches BY <2>2, <2>4 DEF TypeInv, TypeOK
    <3>2. j # i BY <3>1
    <3> QED BY <1>3, <2>3, <2>4, <3>2 DEF Twice
  <2> QED BY <2>3, <2>4
<1>6. CASE Isolate(o, "inotify")
  <2>1. BeginWatch(o, "isolate", "inotify") /\ UNCHANGED <<watching, interest>>
    BY <1>6 DEF Isolate
  <2>2. SharedWay(o)' => SharedWay(o) BY <2>1 DEF SharedWay
  <2>3. SharedWay(o)' => inotifies[o] # {} BY <2>2 DEF WayShape
  <2> QED BY <1>5, <2>1, <2>3
<1>7. CASE Watch(o, "inotify")
  <2>1. BeginWatch(o, "watch", "inotify") /\ at' = at
    BY <1>7 DEF Watch, watchVars
  <2>2. OwnWay(o)' => OwnWay(o) BY <2>1 DEF OwnWay
  <2>3. OwnWay(o)' => inotifies[o] # {} BY <2>2 DEF WayShape
  <2> QED BY <1>5, <2>1, <2>3
<1>8. CASE ~ Isolate(o, "inotify") /\ ~ Watch(o, "inotify")
  <2>1. (OwnWay(o)' => OwnWay(o)) /\ (SharedWay(o)' => SharedWay(o))
    BY <1>4, <1>8, WayMove
  <2> QED BY <1>3, <2>1 DEF WayShape
<1> QED BY <1>6, <1>7, <1>8
-----------------------------------------------------------------------------
(* What is in hand.                                                        *)

(* A watcher moves by its own steps, and when a user starts it.            *)
LEMMA WatcherMove ==
  ASSUME TypeInv, [Next]_vars, NEW w \in Watchers
  PROVE  \/ WatchStep(w)
         \/ /\ waits'[w] = waits[w] /\ batch'[w] = batch[w] /\ event'[w] = event[w]
            /\ reading'[w] = reading[w]
            /\ at'[w] = at[w] \/ at'[w] = "start"
<1> USE DEF TypeInv, TypeOK
<1> DEFINE Same ==
      /\ waits'[w] = waits[w] /\ batch'[w] = batch[w] /\ event'[w] = event[w]
      /\ reading'[w] = reading[w]
      /\ at'[w] = at[w] \/ at'[w] = "start"
<1>1. CASE UNCHANGED watchVars BY <1>1 DEF watchVars
<1>2. ASSUME NEW o \in Operators, NEW k \in Kinds, Isolate(o, k) PROVE Same
  BY <1>2 DEF Isolate, Goto
<1>3. ASSUME NEW v \in Watchers, v # w, WatchStep(v) PROVE Same
  <2>1. CASE Start(v) \/ Call(v) \/ Wait(v) \/ EndRead(v)
    BY <1>3, <2>1 DEF Start, Call, Wait, EndRead, Goto
  <2>2. CASE Look(v) BY <1>3, <2>2 DEF Look, Lookup, Skip, NextEvent, Goto
  <2>3. CASE Read(v) BY <1>3, <2>3 DEF Read, NextEvent, Goto
  <2>4. CASE Emit(v) BY <1>3, <2>4 DEF Emit, NextEvent, Goto, watchVars
  <2> QED BY <1>3, <2>1, <2>2, <2>3, <2>4 DEF WatchStep
<1>4. ASSUME NEW o \in Operators,
             Construct(o) \/ EnterMap(o) \/ AddWatch(o) \/ Close(o) \/ Destroy(o)
               \/ EndObject(o)
      PROVE  UNCHANGED watchVars
  BY <1>4 DEF Construct, EnterMap, AddWatch, Close, Destroy, EndObject
<1>5. ASSUME NEW o \in Operators, NEW k \in Kinds, Watch(o, k) \/ Answer(o, k)
      PROVE  UNCHANGED watchVars
  BY <1>5 DEF Watch, Answer
<1>6. ASSUME NEW f \in Files, Arrive(f) PROVE UNCHANGED watchVars
  BY <1>6 DEF Arrive
<1>7. CASE UNCHANGED vars BY <1>1, <1>7 DEF vars
<1> HIDE DEF Same
<1> QED
  <2>1. WatchStep(w) \/ Same
    BY <1>1, <1>2, <1>3, <1>4, <1>5, <1>6, <1>7 DEF Next, UserCall, UserStep, Same
  <2> QED BY <2>1 DEF Same

LEMMA WatchUsers ==
  ASSUME NEW w, WatchStep(w)
  PROVE  UNCHANGED <<user, closed, inotifies, watching>>
BY DEF WatchStep, Start, Call, Wait, Look, Lookup, Read, EndRead, Emit, userVars

LEMMA WaitsMove ==
  ASSUME TypeInv, [Next]_vars, NEW w \in Watchers, waits'[w] # waits[w]
  PROVE  /\ w[1] \in Operators /\ UNCHANGED fileVars
         /\ \E k \in Kinds :
              /\ File(w[1], Epoll[w[2]]) # Nil /\ File(w[1], Epoll[w[2]])[2] = Epoll[k]
              /\ waits'[w] = Isolated(File(w[1], Epoll[w[2]])[1], k)
<1>1. WatchStep(w) BY WatcherMove
<1>2. Call(w)
  BY <1>1 DEF WatchStep, Start, Wait, Look, Lookup, Read, EndRead, Emit, watchVars
<1> QED BY <1>2 DEF Call, TypeInv, TypeOK, Shape, WatcherShape

LEMMA StrayStep ==
  ASSUME TypeInv, OwnNumbers, ReadShape, StrayShape, [Next]_vars, ~ fault, ~ fault'
  PROVE  StrayShape'
<1>1. FilesMove BY FilesStep
<1>2. SUFFICES ASSUME NEW w \in Watchers, waits'[w] # w PROVE Stray(w)'
  BY DEF StrayShape
<1>3. CASE waits'[w] # waits[w]
  <2>1. PICK k \in Kinds :
          /\ File(w[1], Epoll[w[2]]) # Nil /\ File(w[1], Epoll[w[2]])[2] = Epoll[k]
          /\ waits'[w] = Isolated(File(w[1], Epoll[w[2]])[1], k)
    BY <1>3, WaitsMove
  <2>2. PICK f : f = File(w[1], Epoll[w[2]]) OBVIOUS
  <2>3. f \in Files BY <2>1, <2>2, FileType DEF File, TypeInv
  <2>4. f[1] \in Operators /\ f[3] \in 0..MaxWatches /\ f = <<f[1], Epoll[k], f[3]>>
    BY <2>1, <2>2, <2>3 DEF Files
  <2>5. waits'[w][1] = f[1] /\ waits'[w][2] = k BY <2>1, <2>2 DEF Isolated
  <2>6. File(w[1], Epoll[w[2]])' = f
    BY <1>3, <2>2, WaitsMove DEF fileVars, File, FileAt
  <2>7. w[1] \in Operators BY <1>3, WaitsMove
  <2> QED BY <2>4, <2>5, <2>6, <2>7 DEF Stray
<1>4. CASE waits'[w] = waits[w]
  <2>1. /\ w[1] \in Operators /\ waits[w][1] \in Operators
        /\ Live(waits[w][1]) =>
             \E i \in 0..MaxWatches :
               File(w[1], Epoll[w[2]]) = <<waits[w][1], Epoll[waits[w][2]], i>>
    BY <1>2, <1>4 DEF StrayShape, Stray
  <2>2. PICK o \in Operators : o = waits[w][1] BY <2>1
  <2>3. SUFFICES ASSUME Live(o)'
                 PROVE  \E i \in 0..MaxWatches :
                          File(w[1], Epoll[w[2]])' = <<o, Epoll[waits[w][2]], i>>
    <3>1. waits'[w][1] = o /\ waits'[w][2] = waits[w][2] BY <1>4, <2>2
    <3>2. o \in Operators /\ w[1] \in Operators BY <2>1
    <3>3. Live(waits[w][1])' = Live(o)' BY <3>1 DEF Live
    <3> QED BY <3>1, <3>2, <3>3 DEF Stray
  <2>4. Live(o) BY <2>3, LiveStep
  <2>5. PICK i \in 0..MaxWatches :
          File(w[1], Epoll[w[2]]) = <<o, Epoll[waits[w][2]], i>>
    BY <2>1, <2>2, <2>4
  <2>6. waits[w] \in Watchers BY DEF TypeInv, TypeOK
  <2>7. Epoll[waits[w][2]] \in Members /\ Epoll[w[2]] \in Members
    BY <2>6, WatcherType, EpollMembers
  <2>8. <<o, Epoll[waits[w][2]], i>> \in Files BY <2>7 DEF Files
  <2>9. File(w[1], Epoll[w[2]]) # Nil /\ File(w[1], Epoll[w[2]])[1] = o
    BY <2>5, <2>8, FdAssumption
  <2>10. number'[w[1]][Epoll[w[2]]] = number[w[1]][Epoll[w[2]]]
    <3>1. w[2] \in Kinds BY WatcherType
    <3>2. Epoll[w[2]] # "data" /\ Epoll[w[2]] # "inotify" BY <3>1, EpollMembers
    <3>3. "inotify" \in Members /\ "data" \in Members BY DEF Members, Kinds
    <3>4. ASSUME NEW r \in Operators, NEW s \in Members, NEW l, Open(r, s, l),
                 r # w[1] \/ s # Epoll[w[2]]
          PROVE  number'[w[1]][Epoll[w[2]]] = number[w[1]][Epoll[w[2]]]
      BY <2>1, <2>7, <3>4, OpenFiles
    <3>5. ASSUME NEW v \in Watchers, v[1] \in Operators, at[v] = "start",
                 Open(v[1], Epoll[v[2]], 0)
          PROVE  number'[w[1]][Epoll[w[2]]] = number[w[1]][Epoll[w[2]]]
      <4>1. v[2] \in Kinds /\ v = Isolated(v[1], v[2])
        <5>1. v[2] \in Kinds /\ (v = Shared(v[2]) \/ v = Isolated(v[1], v[2])) BY WatcherType
        <5>2. v # Shared(v[2]) BY <3>5, FdAssumption DEF Shared
        <5> QED BY <5>1, <5>2
      <4>2. w = Isolated(w[1], w[2])
        <5>1. w = Shared(w[2]) \/ w = Isolated(w[1], w[2]) BY WatcherType
        <5>2. w # Shared(w[2]) BY <2>1, FdAssumption DEF Shared
        <5> QED BY <5>1, <5>2
      <4>3. v # w BY <1>2, <1>4, <3>5 DEF ReadShape
      <4>4. v[1] # w[1] \/ v[2] # w[2] BY <4>1, <4>2, <4>3
      <4>5. v[2] # w[2] => Epoll[v[2]] # Epoll[w[2]]
        BY <3>1, <4>1 DEF Epoll, Kinds
      <4>6. Epoll[v[2]] \in Members BY <4>1, EpollMembers
      <4> QED BY <3>4, <3>5, <4>4, <4>5, <4>6
    <3> QED
      BY <1>1, <3>2, <3>3, <3>4, <3>5 DEF FilesMove, NewInotify, CloseAll
  <2>11. File(w[1], Epoll[w[2]])' = File(w[1], Epoll[w[2]])
    BY <1>1, <2>1, <2>3, <2>7, <2>9, <2>10, KeepOthers
  <2> QED BY <2>5, <2>11
<1> QED BY <1>3, <1>4

(* A new inotify file is the second one of an operator that has a file.    *)
LEMMA SecondInotify ==
  ASSUME TypeInv, FileShape, NEW o \in Operators, NEW i \in 1..MaxWatches,
         NewInotify(o, i), Live(o), OwnNumbers, ~ fault,
         File(o, "inotify") # Nil
  PROVE  Twice(o)'
<1>1. "inotify" \in Members BY DEF Members, Kinds
<1>2. /\ number[o]["inotify"] \in Numbers /\ number[o]["inotify"] # -1
      /\ table[number[o]["inotify"]] = File(o, "inotify")
  BY <1>1, NumberFile
<1>3. PICK l \in 0..MaxWatches : File(o, "inotify") = <<o, "inotify", l>>
  BY <1>1, <1>2, OwnType DEF OwnFile
<1>4. l \in inotifies[o] BY <1>2, <1>3 DEF FileShape
<1>5. l < i /\ i \in inotifies'[o] /\ l \in inotifies'[o]
  BY <1>4 DEF NewInotify, TypeInv, TypeOK
<1>6. l # i BY <1>5
<1> QED BY <1>5, <1>6 DEF Twice

LEMMA DisturbedStep ==
  ASSUME TypeInv, OwnNumbers, FileShape, StrayShape, [Next]_vars, ~ fault, ~ fault',
         NEW o \in Operators, Disturbed(o), Live(o)'
  PROVE  Disturbed(o)'
<1>1. FilesMove BY FilesStep
<1>2. Live(o) BY LiveStep
<1>3. CASE Twice(o)
  <2>1. Twice(o)' BY <1>1, <1>3, InotifiesStep
  <2> QED BY <2>1 DEF Disturbed, Twice
<1>4. ASSUME NEW p \in closed, File(o, "inotify") = File(p, "inotify"),
             File(o, "inotify") # Nil
      PROVE  Disturbed(o)'
  <2>1. "inotify" \in Members /\ p \in Operators BY DEF Members, Kinds, TypeInv, TypeOK
  <2>2. ASSUME NEW i \in 1..MaxWatches, NewInotify(o, i) PROVE Disturbed(o)'
    <3>1. Twice(o)' BY <1>2, <1>4, <2>2, SecondInotify
    <3> QED BY <3>1 DEF Disturbed, Twice
  <2>3. CASE number'[o]["inotify"] = number[o]["inotify"]
    <3>1. File(o, "inotify")' = File(o, "inotify") BY <1>1, <1>2, <2>3, KeepOwn
    <3>2. File(o, "inotify")[1] = o BY <1>2, <1>4, <2>1, NumberFile, OwnType
    <3>3. number'[p]["inotify"] = number[p]["inotify"]
      BY <1>1, <2>1, InotifiesStep DEF NewInotify
    <3>4. File(p, "inotify")' = File(p, "inotify")
      BY <1>1, <1>4, <2>1, <3>2, <3>3, KeepOthers
    <3>5. p \in closed' BY LiveStep
    <3> QED BY <1>4, <3>1, <3>4, <3>5 DEF Disturbed
  <2> QED BY <1>1, <2>2, <2>3, InotifiesStep
<1>5. ASSUME NEW w \in Watchers, waits[w] # w, waits[w][1] = o PROVE Disturbed(o)'
  <2>1. CASE waits'[w] = waits[w] BY <1>5, <2>1 DEF Disturbed
  <2>2. CASE waits'[w] # waits[w]
    <3>1. PICK k \in Kinds :
            /\ File(w[1], Epoll[w[2]]) # Nil /\ File(w[1], Epoll[w[2]])[2] = Epoll[k]
            /\ waits'[w] = Isolated(File(w[1], Epoll[w[2]])[1], k)
      BY <2>2, WaitsMove
    <3>2. PICK i \in 0..MaxWatches :
            File(w[1], Epoll[w[2]]) = <<o, Epoll[waits[w][2]], i>>
      BY <1>2, <1>5 DEF StrayShape, Stray
    <3>3. waits[w] \in Watchers BY DEF TypeInv, TypeOK
    <3>4. waits[w][2] \in Kinds
          /\ (waits[w] = Shared(waits[w][2]) \/ waits[w] = Isolated(waits[w][1], waits[w][2]))
      BY <3>3, WatcherType
    <3>5. waits[w] # Shared(waits[w][2]) BY <1>5, FdAssumption DEF Shared
    <3>6. Epoll[k] = Epoll[waits[w][2]] BY <3>1, <3>2
    <3>7. k = waits[w][2] BY <3>4, <3>6 DEF Epoll, Kinds
    <3>8. File(w[1], Epoll[w[2]])[1] = o BY <3>2
    <3> QED BY <1>5, <2>2, <3>1, <3>4, <3>5, <3>7, <3>8
  <2> QED BY <2>1, <2>2
<1> QED BY <1>2, <1>3, <1>4, <1>5 DEF Disturbed, Twice, Live

LEMMA DoomedStep ==
  ASSUME TypeInv, [Next]_vars, ~ fault, ~ fault', Doomed
  PROVE  Doomed'
<1>1. PICK w \in Watchers : at[w] = "emit" /\ user[event[w]] = "members"
  BY DEF Doomed
<1>2. event[w] \in Operators BY <1>1 DEF TypeInv, TypeOK, Shape, WatcherShape
<1>3. ~ WatchStep(w)
  BY <1>1 DEF WatchStep, Start, Call, Wait, Look, Lookup, Read, EndRead, Emit
<1>4. event'[w] = event[w] /\ at'[w] \in {"emit", "start"}
  BY <1>1, <1>3, WatcherMove
<1>5. at'[w] = "emit"
  <2>1. event'[w] # Nil BY <1>2, <1>4, FdAssumption
  <2>2. WatcherShape' BY TypeStep DEF TypeInv, Shape
  <2> QED BY <1>4, <2>1, <2>2 DEF WatcherShape
<1>6. user'[event[w]] \in {"members", "gone"} BY <1>1, <1>2, LiveStep
<1>7. user'[event[w]] # "gone"
  <2>1. CASE user'[event[w]] = user[event[w]] BY <1>1, <2>1
  <2>2. ASSUME NEW o \in Operators, EndObject(o) PROVE user'[event[w]] = user[event[w]]
    BY <1>2, <2>2 DEF EndObject, UserGoto, TypeInv, TypeOK
  <2>3. ASSUME NEW o \in Operators,
               Construct(o) \/ EnterMap(o) \/ AddWatch(o) \/ Destroy(o)
        PROVE  user'[event[w]] # "gone"
    <3>1. PICK label \in {"idle", "add", "members"} : user' = [user EXCEPT ![o] = label]
      BY <2>3 DEF Construct, EnterMap, AddWatch, Destroy, UserGoto
    <3> QED BY <1>1, <1>2, <3>1 DEF TypeInv, TypeOK
  <2>4. ASSUME NEW o \in Operators, NEW k \in Kinds, Watch(o, k)
        PROVE  user'[event[w]] # "gone"
    BY <1>1, <1>2, <2>4 DEF Watch, UserGoto, TypeInv, TypeOK
  <2>5. ASSUME NEW o \in Operators, NEW k \in Kinds, Isolate(o, k) \/ Answer(o, k)
        PROVE  user' = user
    BY <2>5 DEF Isolate, Answer, userVars
  <2>6. ASSUME NEW o \in Operators, Close(o) PROVE user' = user BY <2>6 DEF Close
  <2>7. ASSUME NEW v \in Watchers, WatchStep(v) PROVE user' = user BY <2>7, WatchUsers
  <2>8. ASSUME NEW f \in Files, Arrive(f) PROVE user' = user BY <2>8 DEF Arrive, userVars
  <2>9. CASE UNCHANGED vars BY <2>1, <2>9 DEF vars, userVars
  <2> QED
    BY <2>1, <2>2, <2>3, <2>4, <2>5, <2>6, <2>7, <2>8, <2>9
    DEF Next, UserCall, UserStep
<1> QED BY <1>4, <1>5, <1>6, <1>7 DEF Doomed
-----------------------------------------------------------------------------
(* What a watcher has in hand it had before, or finds ready.               *)
LEMMA HandMove ==
  ASSUME TypeInv, ReadShape, [Next]_vars, ~ fault', NEW w \in Watchers, NEW o,
         o \in InHand(w)'
  PROVE  o \in InHand(w) \/ Wait(w)
<1> USE DEF TypeInv, TypeOK, Shape, WatcherShape
<1>1. CASE ~ WatchStep(w)
  <2>1. batch'[w] = batch[w] /\ event'[w] = event[w] /\ at'[w] \in {at[w], "start"}
    BY <1>1, WatcherMove
  <2> QED BY <2>1 DEF InHand
<1>2. ASSUME Start(w) \/ Call(w), o \notin InHand(w) PROVE FALSE
  BY <1>2 DEF Start, Call, Goto, InHand
<1>3. ASSUME Look(w), o \notin InHand(w) PROVE FALSE
  <2>1. PICK p \in batch[w] :
          /\ batch' = [batch EXCEPT ![w] = @ \ {p}]
          /\ \/ NextEvent(w)
             \/ /\ event' = [event EXCEPT ![w] = p]
                /\ Goto(w, IF w[2] = "inotify" THEN "read" ELSE "emit")
    BY <1>3 DEF Look, Lookup, Skip
  <2>2. batch'[w] \subseteq batch[w] BY <2>1
  <2>3. CASE NextEvent(w)
    <3>1. PICK label \in {"wait", "call", "look"} :
            at' = [at EXCEPT ![w] = label] /\ (label # "look" => batch'[w] = {})
      BY <2>3, NextEventShape
    <3> QED BY <1>3, <2>2, <3>1 DEF InHand
  <2>4. CASE event' = [event EXCEPT ![w] = p]
    BY <1>3, <2>1, <2>2, <2>4 DEF InHand
  <2> QED BY <2>1, <2>3, <2>4
<1>4. ASSUME Read(w) \/ Emit(w), o \notin InHand(w) PROVE FALSE
  <2>1. batch' = batch /\ (NextEvent(w) \/ Goto(w, "emit") \/ Goto(w, "blocked"))
    BY <1>4 DEF Read, Emit
  <2>2. at'[w] # "read"
    <3>1. CASE NextEvent(w)
      <4>1. PICK label \in {"wait", "call", "look"} :
              at' = [at EXCEPT ![w] = label] /\ (label # "look" => batch'[w] = {})
        BY <3>1, NextEventShape
      <4> QED BY <4>1
    <3> QED BY <2>1, <3>1 DEF Goto
  <2> QED BY <1>4, <2>1, <2>2 DEF InHand
<1>5. ASSUME EndRead(w), o \notin InHand(w) PROVE FALSE
  BY <1>5 DEF EndRead, Goto, InHand
<1> QED BY <1>1, <1>2, <1>3, <1>4, <1>5 DEF WatchStep

(* Two watchers of one operator are the shared one and its own.            *)
LEMMA TwoWatchers ==
  ASSUME TypeInv, ReadShape, InterestShape, WayShape,
         NEW v \in InotifyWatchers, NEW w \in InotifyWatchers, v # w,
         NEW o \in Operators, o \in InHand(v), o \in InHand(w),
         NEW e \in interest[v], NEW f \in interest[w], e[2] = o, f[2] = o
  PROVE  Twice(o)
<1>1. v \in Watchers /\ w \in Watchers /\ v[2] = "inotify" /\ w[2] = "inotify"
  BY DEF InotifyWatchers
<1>2. ASSUME NEW u \in InotifyWatchers, u[1] = Nil \/ u[1] = o
      PROVE  u = Shared("inotify") \/ u = Isolated(o, "inotify")
  <2>1. u \in Watchers /\ u[2] = "inotify" BY DEF InotifyWatchers
  <2>2. \/ u = Shared(u[2])
        \/ u[1] \in Operators /\ u = Isolated(u[1], u[2])
    BY <2>1, WatcherType
  <2> QED BY <1>2, <2>1, <2>2, FdAssumption
<1>3. v[1] = Nil \/ v[1] = o BY <1>1 DEF InterestShape
<1>4. w[1] = Nil \/ w[1] = o BY <1>1 DEF InterestShape
<1>5. \/ v = Shared("inotify") /\ w = Isolated(o, "inotify")
      \/ w = Shared("inotify") /\ v = Isolated(o, "inotify")
  <2>1. v = Shared("inotify") \/ v = Isolated(o, "inotify") BY <1>2, <1>3
  <2>2. w = Shared("inotify") \/ w = Isolated(o, "inotify") BY <1>2, <1>4
  <2> QED BY <2>1, <2>2
<1>6. SharedWay(o) BY <1>5 DEF SharedWay
<1>7. at[v] # "off" /\ at[w] # "off" BY <1>1 DEF ReadShape, InHand
<1>8. OwnWay(o) BY <1>1, <1>5, <1>7 DEF OwnWay
<1> QED BY <1>6, <1>8 DEF WayShape

(* What there is to read of a file stays watched and readable, until a     *)
(* watcher reads it for this operator or a doomed one.                     *)
LEMMA InputStep ==
  ASSUME TypeInv, OwnNumbers, AliveShape, ReadShape, InterestShape, WayShape, HandShape,
         BlockedShape, [Next]_vars, ~ fault, ~ fault',
         NEW w \in InotifyWatchers, NEW o \in InHand(w), o \in InHand(w)',
         Live(o), Live(o)', ~ Disturbed(o), ~ Doomed, ~ Doomed',
         <<File(o, "inotify"), o>> \in interest[w], File(o, "inotify") \in readable
  PROVE  <<File(o, "inotify"), o>> \in interest'[w] /\ File(o, "inotify") \in readable'
<1>1. w \in Watchers /\ w[2] = "inotify" /\ o \in Operators
  BY DEF InotifyWatchers, InHand, TypeInv, TypeOK, Shape, WatcherShape
<1>2. PICK F : F = File(o, "inotify") OBVIOUS
<1>3. "inotify" \in Members /\ "data" \in Members BY DEF Members, Kinds
<1>4. F \in Files /\ F # Nil BY <1>2, FdAssumption DEF TypeInv, TypeOK
<1>5. number[o]["inotify"] \in Numbers /\ table[number[o]["inotify"]] = F
      /\ F[1] = o /\ F[2] = "inotify"
  BY <1>1, <1>2, <1>3, <1>4, NumberFile, OwnType
<1>6. IsOpen(F) BY <1>5 DEF IsOpen
<1> DEFINE Kept == <<F, o>> \in interest'[w] /\ F \in readable'
<1>7. CASE readable \subseteq readable' /\ \A v \in Watchers : interest[v] \subseteq interest'[v]
  BY <1>1, <1>2, <1>7
<1>8. ASSUME NEW fs, F \notin fs, Release(fs) PROVE Kept
  BY <1>1, <1>2, <1>8 DEF Release
<1>9. ASSUME NEW p \in Operators, Close(p) \/ Destroy(p) PROVE Kept
  <2>1. CloseAll(p) /\ user[p] = "idle" BY <1>9 DEF Close, Destroy, May
  <2>2. ~ Live(p)'
    BY <1>9 DEF Live, Close, Destroy, UserGoto, TypeInv, TypeOK
  <2>3. PICK fs :
          /\ Release(fs \ Held) /\ number' = number
          /\ \A f \in fs : f = Nil \/ f[1] = p
          /\ \A t \in Operators, m \in Members :
               /\ File(t, m)' \in {File(t, m), Nil}
               /\ File(t, m) \notin fs => File(t, m)' = File(t, m)
    BY <2>1, CloseFiles
  <2>4. F \notin fs BY <1>4, <1>5, <2>2, <2>3
  <2> QED BY <1>8, <2>3, <2>4
<1>10. ASSUME NEW p \in Operators, NEW k \in Kinds, Answer(p, k) PROVE Kept
  <2>1. user[p] = "idle" /\ p \notin closed /\ interest' = interest
        /\ (readable' = readable \/ readable' = readable \ {File(p, "data")})
    BY <1>10 DEF Answer, May
  <2>2. Live(p) BY <2>1 DEF Live
  <2>3. File(p, "data") # F
    <3>1. CASE File(p, "data") = Nil BY <1>4, <3>1
    <3>2. CASE File(p, "data") # Nil
      <4>1. File(p, "data")[2] = "data" BY <1>3, <2>2, <3>2, NumberFile, OwnType
      <4> QED BY <1>5, <4>1
    <3> QED BY <3>1, <3>2
  <2> QED BY <1>2, <2>1, <2>3
<1>11. ASSUME NEW v \in Watchers, Start(v) PROVE Kept
  <2>1. at[v] = "start" /\ readable' = readable
        /\ (interest' = interest \/ interest' = [interest EXCEPT ![v] = Interest(v[1], v[2])])
    BY <1>11 DEF Start
  <2>2. v # w BY <1>1, <2>1 DEF ReadShape, InHand
  <2> QED BY <1>1, <1>2, <2>1, <2>2 DEF TypeInv, TypeOK
<1>12. ASSUME NEW v \in Watchers, Read(v) PROVE Kept
  <2>1. /\ at[v] = "read" /\ interest' = interest
        /\ \/ readable' = readable
           \/ readable' = readable \ {File(event[v], "inotify")} /\ Goto(v, "emit")
                /\ event' = event
    BY <1>12 DEF Read, userVars
  <2>2. PICK p \in Operators : p = event[v]
    BY <2>1 DEF TypeInv, TypeOK, Shape, WatcherShape
  <2>3. SUFFICES ASSUME F = File(p, "inotify"), Goto(v, "emit"), event' = event,
                        user' = user, batch' = batch
                 PROVE  FALSE
    BY <1>2, <1>12, <2>1, <2>2 DEF Read, userVars
  <2>4. p \in alive /\ v \in InotifyWatchers /\ p \notin batch[v]
    BY <2>1, <2>2, FdAssumption DEF ReadShape, InotifyWatchers
  <2>5. user[p] \notin {"none", "gone"} BY <2>4 DEF AliveShape
  <2>6. p \notin closed BY <1>2, <1>4, <2>3 DEF Disturbed
  <2>7. user[p] # "members"
    BY <2>1, <2>2, <2>3 DEF Doomed, Goto, TypeInv, TypeOK
  <2>8. Live(p) BY <2>5, <2>6, <2>7 DEF Live
  <2>9. p = o
    <3>1. File(p, "inotify")[1] = p BY <1>3, <1>4, <2>3, <2>8, NumberFile, OwnType
    <3> QED BY <1>5, <2>3, <3>1
  <2>10. o \in InHand(v) BY <2>1, <2>2, <2>9 DEF InHand
  <2>11. <<F, o>> \in interest[v] BY <1>2, <2>4, <2>10 DEF HandShape
  <2>12. v # w
    <3>1. at'[v] = "emit" /\ batch'[v] = batch[v]
      BY <2>3 DEF Goto, TypeInv, TypeOK
    <3> QED BY <2>4, <2>9, <3>1 DEF InHand
  <2>13. Twice(o) BY <1>1, <1>2, <2>4, <2>10, <2>11, <2>12, TwoWatchers
  <2> QED BY <2>13 DEF Disturbed, Twice
<1>13. ASSUME NEW v \in Watchers, EndRead(v) PROVE Kept
  <2>1. /\ at[v] = "blocked" /\ at' = [at EXCEPT ![v] = "emit"] /\ event' = event
        /\ user' = user
        /\ \/ readable' = readable \ {reading[v]} /\ interest' = interest
           \/ ~ IsOpen(reading[v]) /\ Release({reading[v]})
    BY <1>13 DEF EndRead, Goto, userVars
  <2>2. user[event[v]] # "members" BY <2>1 DEF Doomed, TypeInv, TypeOK
  <2>3. reading[v] # F BY <1>1, <1>2, <2>1, <2>2 DEF BlockedShape
  <2> QED BY <1>2, <1>8, <2>1, <2>3
<1>14. ASSUME NEW p \in Operators, Construct(p) \/ EnterMap(p) \/ AddWatch(p) \/ EndObject(p)
       PROVE  readable \subseteq readable' /\ \A v \in Watchers : interest[v] \subseteq interest'[v]
  BY <1>14 DEF Construct, EnterMap, AddWatch, EndObject, TypeInv, TypeOK
<1>15. ASSUME NEW p \in Operators, NEW k \in Kinds, Watch(p, k) \/ Isolate(p, k)
       PROVE  readable \subseteq readable' /\ \A v \in Watchers : interest[v] \subseteq interest'[v]
  BY <1>15 DEF Watch, Isolate
<1>16. ASSUME NEW v \in Watchers, Call(v) \/ Wait(v) \/ Look(v) \/ Emit(v)
       PROVE  readable \subseteq readable' /\ \A u \in Watchers : interest[u] \subseteq interest'[u]
  BY <1>16 DEF Call, Wait, Look, Lookup, Emit
<1>17. ASSUME NEW f \in Files, Arrive(f)
       PROVE  readable \subseteq readable' /\ \A v \in Watchers : interest[v] \subseteq interest'[v]
  BY <1>17 DEF Arrive
<1>18. CASE UNCHANGED vars BY <1>7, <1>18 DEF vars
<1> HIDE DEF Kept
<1>19. Kept
  <2>1. (readable \subseteq readable' /\ \A v \in Watchers : interest[v] \subseteq interest'[v])
          => Kept
    BY <1>1, <1>2 DEF Kept
  <2> QED
    BY <2>1, <1>9, <1>10, <1>11, <1>12, <1>13, <1>14, <1>15, <1>16, <1>17, <1>18
    DEF Next, UserCall, UserStep, WatchStep, vars
<1> QED BY <1>2, <1>19 DEF Kept

LEMMA HandStep ==
  ASSUME TypeInv, OwnNumbers, HoldShape, [Next]_vars, ~ fault, ~ fault'
  PROVE  HandShape'
<1> USE DEF HoldShape
<1>1. FilesMove BY FilesStep
<1>2. SUFFICES ASSUME NEW w \in InotifyWatchers, NEW o \in InHand(w)', Live(o)',
                      ~ Disturbed(o)', ~ Doomed'
               PROVE  <<File(o, "inotify")', o>> \in interest'[w]
                      /\ File(o, "inotify")' \in readable'
  BY DEF HandShape, InotifyWatchers
<1>3. w \in Watchers /\ w[2] = "inotify" BY DEF InotifyWatchers
<1>4. CASE o \in InHand(w)
  <2>1. o \in Operators BY <1>3, <1>4 DEF InHand, TypeInv, TypeOK, Shape, WatcherShape
  <2>2. Live(o) BY <1>2, <2>1, LiveStep
  <2>3. ~ Disturbed(o) BY <1>2, <2>1, DisturbedStep
  <2>4. ~ Doomed BY <1>2, DoomedStep
  <2>5. <<File(o, "inotify"), o>> \in interest[w] /\ File(o, "inotify") \in readable
    BY <1>4, <2>2, <2>3, <2>4 DEF HandShape
  <2>6. <<File(o, "inotify"), o>> \in interest'[w] /\ File(o, "inotify") \in readable'
    BY <1>2, <1>4, <2>2, <2>3, <2>4, <2>5, InputStep
  <2>7. inotifies[o] # {} BY <2>5 DEF InterestShape
  <2>8. ~ Twice(o)' BY <1>2 DEF Disturbed, Twice
  <2>9. File(o, "inotify")' = File(o, "inotify")
    BY <1>1, <1>2, <2>1, <2>2, <2>7, <2>8, KeepWatched
  <2> QED BY <2>6, <2>9
<1>5. CASE o \notin InHand(w)
  <2>1. Wait(w) BY <1>2, <1>3, <1>5, HandMove
  <2>2. /\ UNCHANGED <<table, number, user, closed, inotifies, interest, readable, waits>>
        /\ batch' = [batch EXCEPT ![w] =
             {e[2] : e \in {i \in interest[waits[w]] : i[1] \in readable}}]
        /\ at' = [at EXCEPT ![w] = "look"]
    BY <2>1 DEF Wait, Goto, fileVars, userVars
  <2>3. PICK e \in interest[waits[w]] : e[1] \in readable /\ e[2] = o
    BY <1>2, <1>3, <2>2 DEF InHand, TypeInv, TypeOK
  <2>4. waits[w] \in Watchers BY <1>3 DEF TypeInv, TypeOK
  <2>5. o \in Operators BY <2>3, <2>4 DEF TypeInv, TypeOK
  <2>6. Live(o) /\ ~ Twice(o)
    <3>1. Live(o) BY <1>2, <2>2 DEF Live
    <3>2. ~ Twice(o) BY <1>2, <2>2 DEF Disturbed, Twice
    <3> QED BY <3>1, <3>2
  <2>7. waits[w] = w
    <3>1. SUFFICES ASSUME waits[w] # w PROVE FALSE OBVIOUS
    <3>2. waits[w][1] \in Operators BY <1>3, <3>1 DEF StrayShape, Stray
    <3>3. waits[w][1] = o BY <2>3, <2>4, <3>2, FdAssumption DEF InterestShape
    <3> QED BY <1>2, <1>3, <2>2, <3>1, <3>3 DEF Disturbed
  <2>8. e[1] = File(o, "inotify") BY <2>3, <2>6, <2>7 DEF InterestShape
  <2>9. e \in Files \X Operators BY <2>3, <2>4 DEF TypeInv, TypeOK
  <2>10. e = <<File(o, "inotify"), o>> BY <2>3, <2>8, <2>9
  <2>11. File(o, "inotify")' = File(o, "inotify") BY <2>2 DEF File, FileAt
  <2> QED BY <2>2, <2>3, <2>7, <2>8, <2>10, <2>11
<1> QED BY <1>4, <1>5

(* When a watcher begins to wait in its read.                              *)
LEMMA BlockedMove ==
  ASSUME TypeInv, [Next]_vars, NEW w \in Watchers, at'[w] = "blocked"
  PROVE  \/ at[w] = "blocked" /\ event'[w] = event[w] /\ reading'[w] = reading[w]
         \/ /\ at[w] = "read" /\ event'[w] = event[w]
            /\ File(event[w], "inotify") \in Inputs \ readable
            /\ reading'[w] = File(event[w], "inotify")
            /\ UNCHANGED <<table, number, user, closed, inotifies, waits>>
<1> USE DEF TypeInv, TypeOK
<1>1. CASE ~ WatchStep(w) BY <1>1, WatcherMove
<1>2. CASE Start(w) \/ Call(w) \/ Wait(w) \/ EndRead(w)
  BY <1>2 DEF Start, Call, Wait, EndRead, Goto
<1>3. ASSUME NextEvent(w) PROVE FALSE
  <2>1. PICK label \in {"wait", "call", "look"} :
          at' = [at EXCEPT ![w] = label] /\ (label # "look" => batch'[w] = {})
    BY <1>3, NextEventShape
  <2> QED BY <2>1
<1>4. CASE Look(w)
  <2>1. NextEvent(w) \/ Goto(w, IF w[2] = "inotify" THEN "read" ELSE "emit")
    BY <1>4 DEF Look, Lookup, Skip
  <2> QED BY <1>3, <2>1 DEF Goto
<1>5. CASE Emit(w)
  <2>1. NextEvent(w) \/ (at' = at /\ at[w] = "emit") BY <1>5 DEF Emit, watchVars
  <2> QED BY <1>3, <2>1
<1>6. CASE Read(w)
  <2>1. at[w] = "read" /\ UNCHANGED <<table, number, user, closed, inotifies, waits>>
    BY <1>6 DEF Read, fileVars, userVars
  <2>2. ~ Goto(w, "emit") BY DEF Goto
  <2>3. /\ File(event[w], "inotify") \in Inputs \ readable
        /\ reading' = [reading EXCEPT ![w] = File(event[w], "inotify")]
        /\ event' = event
    BY <1>3, <1>6, <2>2 DEF Read
  <2> QED BY <2>1, <2>3
<1> QED BY <1>1, <1>2, <1>4, <1>5, <1>6 DEF WatchStep

LEMMA BlockedStep ==
  ASSUME TypeInv, OwnNumbers, HoldShape, [Next]_vars, ~ fault, ~ fault'
  PROVE  BlockedShape'
<1> USE DEF HoldShape
<1>1. FilesMove BY FilesStep
<1>2. TypeInv' BY TypeStep
<1>3. AliveShape' /\ ReadShape' BY AliveStep, ReadStep
<1>4. "inotify" \in Members BY DEF Members, Kinds
<1>5. SUFFICES ASSUME NEW w \in Watchers, at'[w] = "blocked"
               PROVE  /\ Disturbed(event[w])'
                      /\ \/ user'[event'[w]] = "members"
                         \/ \A o \in Operators :
                              Live(o)' /\ reading'[w] = File(o, "inotify")' => Disturbed(o)'
  BY DEF BlockedShape
<1>6. PICK p \in Operators : p = event'[w]
  BY <1>2, <1>5 DEF TypeInv, TypeOK, Shape, WatcherShape
<1>7. p \in alive' /\ user'[p] \notin {"none", "gone"}
  BY <1>3, <1>6, FdAssumption DEF ReadShape, AliveShape
<1>8. CASE at[w] = "blocked" /\ event'[w] = event[w] /\ reading'[w] = reading[w]
  <2>1. Disturbed(p) BY <1>6, <1>8 DEF BlockedShape
  <2>2. Disturbed(p)'
    <3>1. CASE Live(p)' BY <2>1, <3>1, DisturbedStep
    <3>2. CASE ~ Live(p)' BY <1>7, <3>2 DEF Live, Disturbed
    <3> QED BY <3>1, <3>2
  <2>3. CASE user[p] = "members"
    <3>1. user'[p] = "members" BY <1>7, <2>3, LiveStep
    <3> QED BY <1>6, <2>2, <3>1
  <2>4. ASSUME user[p] # "members", NEW o \in Operators, Live(o)',
               reading'[w] = File(o, "inotify")'
        PROVE  Disturbed(o)'
    <3>1. Live(o) BY <2>4, LiveStep
    <3>2. CASE number'[o]["inotify"] = number[o]["inotify"]
      <4>1. File(o, "inotify")' = File(o, "inotify") BY <1>1, <2>4, <3>1, <3>2, KeepOwn
      <4>2. Disturbed(o) BY <1>6, <1>8, <2>4, <3>1, <4>1 DEF BlockedShape
      <4> QED BY <2>4, <4>2, DisturbedStep
    <3>3. ASSUME NEW i \in 1..MaxWatches, i \in 0..MaxWatches, NewInotify(o, i) PROVE FALSE
      <4>1. File(o, "inotify")' = <<o, "inotify", i>>
        BY <1>4, <3>3, OpenFiles DEF NewInotify
      <4>2. reading[w] = <<o, "inotify", i>> BY <1>8, <2>4, <4>1
      <4>3. i \in inotifies[o] BY <3>3, <4>2 DEF FileShape
      <4>4. i < i BY <3>3, <4>3 DEF NewInotify
      <4> QED BY <4>4
    <3> QED BY <1>1, <3>2, <3>3, InotifiesStep
  <2> QED BY <1>6, <2>2, <2>3, <2>4
<1>9. CASE /\ at[w] = "read" /\ event'[w] = event[w]
           /\ File(event[w], "inotify") \in Inputs \ readable
           /\ reading'[w] = File(event[w], "inotify")
           /\ UNCHANGED <<table, number, user, closed, inotifies, waits>>
  <2>1. p = event[w] BY <1>6, <1>9
  <2>2. PICK f : f = File(p, "inotify") OBVIOUS
  <2>3. f \notin readable /\ f # Nil /\ reading'[w] = f
    <3>1. Nil \notin Inputs
      <4>1. Inputs \subseteq Files BY DEF Inputs, Files, Members
      <4> QED BY <4>1, FdAssumption
    <3> QED BY <1>9, <2>1, <2>2, <3>1
  <2>4. Disturbed(p)
    <3>1. CASE Live(p)
      <4>1. w \in InotifyWatchers BY <1>9 DEF ReadShape, InotifyWatchers
      <4>2. p \in InHand(w) BY <1>9, <2>1 DEF InHand
      <4>3. ~ Doomed
        <5>1. SUFFICES ASSUME NEW v \in Watchers, at[v] = "emit" PROVE FALSE
          BY DEF Doomed
        <5>2. event[v] # Nil /\ event[w] # Nil
          BY <1>9, <5>1 DEF TypeInv, Shape, WatcherShape
        <5>3. v = w BY <5>2 DEF TypeInv, TypeOK, OneHolder
        <5> QED BY <1>9, <5>1, <5>3
      <4> QED BY <2>2, <2>3, <3>1, <4>1, <4>2, <4>3 DEF HandShape
    <3>2. CASE ~ Live(p) BY <1>7, <1>9, <3>2 DEF Live, Disturbed
    <3> QED BY <3>1, <3>2
  <2>5. ASSUME user[p] # "members", NEW o \in Operators, Live(o), File(o, "inotify") = f
        PROVE  Disturbed(o)
    <3>1. CASE p \in closed BY <2>2, <2>3, <2>5, <3>1 DEF Disturbed
    <3>2. CASE p \notin closed
      <4>1. Live(p) BY <1>7, <1>9, <2>5, <3>2 DEF Live
      <4>2. f[1] = p BY <1>4, <2>2, <2>3, <4>1, NumberFile, OwnType
      <4>3. f[1] = o BY <1>4, <2>3, <2>5, NumberFile, OwnType
      <4> QED BY <2>4, <4>2, <4>3
    <3> QED BY <3>1, <3>2
  <2>6. \A o \in Operators :
          /\ Disturbed(o)' = Disturbed(o) /\ Live(o)' = Live(o)
          /\ File(o, "inotify")' = File(o, "inotify")
    BY <1>9 DEF Disturbed, Live, File, FileAt
  <2>7. user'[p] = user[p] BY <1>9
  <2> QED BY <1>6, <2>3, <2>4, <2>5, <2>6, <2>7
<1> QED BY <1>5, <1>8, <1>9, BlockedMove

LEMMA HoldInit == ASSUME Init PROVE HoldInv
<1>1. TypeInv BY TypeInit
<1>2. OwnNumbers
  <2>1. ASSUME NEW o \in Operators, NEW m \in Members PROVE number[o][m] = -1
    BY DEF Init, Unset
  <2> QED BY <2>1 DEF OwnNumbers
<1>3. Nil \notin Operators /\ Nil \notin Files /\ Nil \notin Kinds BY FdAssumption
<1>4. AliveShape /\ FileShape
  <2>1. "inotify" \in Members BY DEF Members, Kinds
  <2>2. \A o \in Operators, i \in 0..MaxWatches : <<o, "inotify", i>> \in Files
    BY <2>1 DEF Files
  <2> QED BY <1>3, <2>2 DEF Init, AliveShape, FileShape
<1>5. ReadShape BY DEF Init, ReadShape
<1>6. InterestShape BY DEF Init, InterestShape, InotifyWatchers
<1>7. WayShape
  <2>1. SUFFICES ASSUME NEW o \in Operators PROVE ~ OwnWay(o) /\ ~ SharedWay(o)
    BY DEF WayShape
  <2>2. ~ OwnWay(o) BY <1>3 DEF Init, OwnWay, Isolated
  <2>3. ~ SharedWay(o)
    <3>1. Shared("inotify") \in Watchers /\ "inotify" \in Kinds BY DEF Watchers, Kinds
    <3> QED BY <1>3, <3>1 DEF Init, SharedWay
  <2> QED BY <2>2, <2>3
<1>8. StrayShape /\ HandShape /\ BlockedShape
  BY DEF Init, StrayShape, HandShape, InHand, InotifyWatchers, BlockedShape
<1> QED BY <1>1, <1>2, <1>4, <1>5, <1>6, <1>7, <1>8 DEF HoldInv, HoldShape

LEMMA HoldStep == ASSUME HoldInv, [Next]_vars PROVE HoldInv'
<1> USE DEF HoldInv
<1>1. TypeInv' /\ OwnNumbers' BY TypeStep, OwnStep
<1>2. ASSUME ~ fault' PROVE ~ fault
  BY <1>2 DEF Next, vars
<1>3. ASSUME ~ fault' PROVE HoldShape'
  <2>1. AliveShape' BY <1>2, <1>3, AliveStep DEF HoldShape
  <2>2. ReadShape' BY <1>2, <1>3, ReadStep DEF HoldShape
  <2>3. FileShape' BY <1>2, <1>3, FileStep DEF HoldShape
  <2>4. InterestShape' /\ WayShape' BY <1>2, <1>3, InterestStep, WayStep DEF HoldShape
  <2>5. StrayShape' BY <1>2, <1>3, StrayStep DEF HoldShape
  <2>6. HandShape' /\ BlockedShape' BY <1>2, <1>3, HandStep, BlockedStep
  <2> QED BY <2>1, <2>2, <2>3, <2>4, <2>5, <2>6 DEF HoldShape
<1> QED BY <1>1, <1>3

(* A thread that has the map's mutex and an operator's has them for an     *)
(* operator that is there, whatever its user does meanwhile; and its read  *)
(* of an inotify file waits, with both, for no operator but one that is    *)
(* being closed, that has two such files and one number for them, or whose *)
(* file another one or another's thread has hold of.                       *)
THEOREM WatchersHoldBriefly == Spec => []HoldsBriefly
<1>1. HoldInv => HoldsBriefly
  BY DEF HoldInv, HoldShape, ReadShape, BlockedShape, HoldsBriefly
<1> QED BY <1>1, HoldInit, HoldStep, PTL DEF Spec
=============================================================================
