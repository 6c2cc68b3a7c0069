------------------------ MODULE ConnectionProperties ------------------------
(***************************************************************************)
(* What must hold of the connections of module Connection.                 *)
(***************************************************************************)
EXTENDS Connection

Args == Loops \cup Objects \cup Signals \cup Conns \cup {Nil}
FrameLabels == ConnLabels \cup SignalLabels \cup {"hand", "each", "task", "wait"}

(* What a call of each kind is about.                                      *)
Frames ==
  {f \in [at : FrameLabels, arg : Args, todo : SUBSET Conns, id : Nat] :
     /\ f.at \in ConnLabels \cup {"hand"} => f.arg \in Conns
     /\ f.at \in SignalLabels =>
          f.arg \in Signals /\ \A c \in f.todo : SignalOf[c] = f.arg
     /\ f.at = "each" => f.arg \in Objects
     /\ f.at = "task" => f.arg \in Loops \cup {Nil}
     /\ f.at = "enter" => ReceiverOf[f.arg] # Nil}

Tasks ==
  {e \in [do : TaskKinds, arg : Args \cup Query, id : Nat,
          sync : Loops \cup {Nil}] :
     /\ e.do \in SignalLabels => e.arg \in Signals
     /\ e.do = "query" => e.arg \in Query
     /\ e.do \notin SignalLabels \cup {"query"} => e.arg \in Conns
     /\ e.do \in {"enter", "leave"} => ReceiverOf[e.arg] # Nil}

(* The objects, the signals and the connections; the last two have only    *)
(* connections of their own.                                               *)
ObjectsOK ==
  /\ loop \in [Objects -> Loops]
  /\ alive \subseteq Objects /\ moved \subseteq Objects
  /\ asSender \in [Objects -> SUBSET Conns]
  /\ asReceiver \in [Objects -> SUBSET Conns]
  /\ \A o \in Objects : /\ \A c \in asSender[o] : Sender(c) = o
                        /\ \A c \in asReceiver[o] : ReceiverOf[c] = o

SignalsOK ==
  /\ signalLoop \in [Signals -> Loops \cup {Nil}]
  /\ connects \in [Signals -> SUBSET Conns]
  /\ \A s \in Signals : \A c \in connects[s] : SignalOf[c] = s

ConnsOK ==
  /\ connAlive \subseteq Conns /\ wired \subseteq Conns
  /\ receiverLoop \in [Conns -> Loops \cup {Nil}]
  /\ entered \in [Loops -> SUBSET Conns]
  /\ \A l \in Loops : \A c \in entered[l] : ReceiverOf[c] = Nil

LogOK ==
  /\ calls \in 0..MaxCalls /\ emits \in Nat
  /\ due \in [Conns -> SUBSET Nat] /\ ran \in [Conns -> SUBSET Nat]
  /\ nested \subseteq Signals /\ undefined \in BOOLEAN

(* Every variable has its type, every call and every posted function the   *)
(* argument of its kind.                                                   *)
TypeOK ==
  /\ queue \in [Loops -> Seq(Tasks)] /\ stack \in [Loops -> Seq(Frames)]
  /\ ObjectsOK /\ SignalsOK /\ ConnsOK /\ LogOK

(* Claims about a connection are made as long as moveToLoop has not been   *)
(* called for its ends: functions posted to the old loop stay there.       *)
Unmoved(c) == {Sender(c), ReceiverOf[c]} \cap moved = {}

(* A slot runs in the thread of its receiver's loop, and never for a       *)
(* receiver that is destroyed.                                             *)
SlotInPlace ==
  \A t \in Loops : At(t, "call") =>
    LET c == Arg(t)
        r == ReceiverOf[c] IN
    Unmoved(c) => IF r = Nil THEN receiverLoop[c] = t
                  ELSE r \in alive /\ loop[r] = t

(* Nothing about the connection is posted or under way.                    *)
Settled(c) ==
  /\ c \in wired
  /\ \A l \in Loops :
       /\ \A i \in DOMAIN queue[l] :
            queue[l][i].arg = c => queue[l][i].do = "slot"
       /\ \A i \in DOMAIN stack[l] :
            /\ c \notin stack[l][i].todo \/ stack[l][i].at # "each"
            /\ stack[l][i].arg = c => stack[l][i].at \in {"hand", "call",
                                                          "slot", "wait"}

(* When all functions of connect and disconnect have run, both ends know   *)
(* the connection if it is alive, and neither does if it is not: in        *)
(* whatever thread it was made, and whoever disconnected it, an end that   *)
(* was destroyed included.                                                 *)
EndsAgree ==
  \A c \in Conns : Settled(c) /\ Unmoved(c) =>
    /\ Sender(c) \in alive =>
         /\ c \in asSender[Sender(c)] <=> c \in connAlive
         /\ c \in connects[SignalOf[c]] <=> c \in connAlive
    /\ ReceiverOf[c] \in alive =>
         (c \in asReceiver[ReceiverOf[c]] <=> c \in connAlive)

(* A slot runs once for an emission, and for the emissions in their order, *)
(* except when slots emit the signal they are connected to.                *)
SlotsInOrder ==
  \A t \in Loops : At(t, "call") =>
    LET c == Arg(t)
        n == Head(stack[t]).id IN
    Unmoved(c) => /\ n \notin ran[c]
                  /\ SignalOf[c] \notin nested => \A i \in ran[c] : i < n

Gone(c) ==
  c \in connAlive => ~({Sender(c), ReceiverOf[c]} \subseteq alive \cup {Nil})

UnderWay(c, n) ==
  \E l \in Loops :
    \/ \E i \in DOMAIN queue[l] :
         LET f == queue[l][i] IN f.do = "slot" /\ f.arg = c /\ f.id = n
    \/ \E i \in DOMAIN stack[l] :
         LET f == stack[l][i] IN
         /\ f.id = n
         /\ \/ f.at \in SignalLabels /\ c \in f.todo
            \/ f.at \in {"hand", "call"} /\ f.arg = c

(* No emission is lost: a connection that was registered when the emission *)
(* began runs its slot, unless it is disconnected, or one of its ends      *)
(* destroyed, on the way; whatever slots before it do.                     *)
EmissionsArrive ==
  \A c \in Conns : \A n \in due[c] :
    n \in ran[c] \/ UnderWay(c, n) \/ Gone(c)

(* A thread that waits for a slot, or for all slots of a signal, goes on,  *)
(* also when the receiver or the sender is destroyed first.                *)
SyncReturns ==
  \A t \in Loops : At(t, "wait") ~> (~At(t, "wait") \/ undefined)
=============================================================================
