-------------------------- MODULE ConnectionProofs --------------------------
(***************************************************************************)
(* Proofs about signals and connections, for any objects, signals, loops,  *)
(* connections and calls: types (ConnectionTypeCorrect), that a slot runs  *)
(* in the thread of its receiver (SlotsRunInPlace), that an emission       *)
(* reaches every slot that was connected (NoEmissionLost), that both ends  *)
(* of a connection come to agree about it (EndsSettleAlike), and that a    *)
(* slot runs once for an emission and in their order (SlotsKeepOrder).     *)
(*                                                                         *)
(* All rest on Base, in four parts: the types; only the innermost call of  *)
(* a thread is not itself in another one (StackInv); a thread waits in     *)
(* workSync for exactly one function, which is queued once or running once *)
(* (TokenInv); and calls and functions only name connections that have     *)
(* been made (KnownInv).                                                   *)
(*                                                                         *)
(* HomeInv adds where each call and function is, LinkInv what the carriers *)
(* of an emission know, EndsInv, for each end of a connection, what is     *)
(* still on its way to that end, and OrderInv the order of the emissions   *)
(* in the stages they pass through: an earlier one is always further.      *)
(***************************************************************************)
EXTENDS ConnectionProperties, SequenceTheorems, TLAPS

(* Calls a thread is in while it makes another.                            *)
SuspendedLabels == {"each", "slot", "task"} \cup SignalLabels

(* Only the innermost call may be any; a function of the loop is outermost.*)
StackOK(s) ==
  /\ s \in Seq(Frames)
  /\ s # <<>> => \A f \in Range(Tail(s)) : f.at \in SuspendedLabels
  /\ \A i \in DOMAIN s : s[i].at = "task" => i = Len(s)

StackInv == stack \in [Loops -> Seq(Frames)] /\ \A t \in Loops : StackOK(stack[t])

(* The thread can make a call.                                             *)
Ready(s) == s = <<>> \/ Head(s).at \in SuspendedLabels

LEMMA ConsFacts ==
  ASSUME NEW S, NEW s \in Seq(S), NEW g \in S
  PROVE  /\ <<g>> \o s \in Seq(S) /\ <<g>> \o s # <<>>
         /\ Head(<<g>> \o s) = g /\ Tail(<<g>> \o s) = s
         /\ Range(<<g>> \o s) = {g} \cup Range(s)
         /\ Len(<<g>> \o s) = Len(s) + 1 /\ Len(s) \in Nat
         /\ DOMAIN (<<g>> \o s) = 1 .. Len(s) + 1
         /\ (<<g>> \o s)[1] = g
         /\ \A i \in 1 .. Len(s) : (<<g>> \o s)[i + 1] = s[i]
<1> DEFINE u == <<g>> \o s
           n == Len(s)
<1>1. /\ <<g>> \in Seq(S) /\ Len(<<g>>) = 1 /\ <<g>>[1] = g
      /\ n \in Nat /\ DOMAIN s = 1 .. n
  BY LenProperties
<1>2. /\ u \in Seq(S) /\ Len(u) = 1 + n
      /\ \A i \in 1 .. 1 + n : u[i] = IF i <= 1 THEN <<g>>[i] ELSE s[i - 1]
  BY <1>1, ConcatProperties
<1> HIDE DEF u
<1>3. /\ Len(u) = n + 1 /\ DOMAIN u = 1 .. n + 1 /\ u # <<>> /\ u[1] = g
      /\ Head(u) = u[1]
  <2>1. DOMAIN u = 1 .. Len(u) /\ Len(u) = n + 1 /\ n + 1 > 0
    BY <1>1, <1>2, LenProperties
  <2>2. u # <<>>
    BY <2>1, EmptySeq
  <2> QED BY <1>1, <1>2, <2>1, <2>2
<1>4. \A i \in 1 .. n : u[i + 1] = s[i]
  BY <1>1, <1>2
<1>5. Tail(u) = s
  <2>1. /\ Tail(u) \in Seq(S) /\ Len(Tail(u)) = Len(u) - 1
        /\ \A i \in 1 .. Len(Tail(u)) : Tail(u)[i] = u[i + 1]
    BY <1>2, <1>3, HeadTailProperties
  <2>2. Len(Tail(u)) = n
    BY <1>1, <1>3, <2>1
  <2> QED BY <1>4, <2>1, <2>2, SeqEqual
<1>6. Range(u) = {g} \cup Range(s)
  <2> DEFINE one == <<g>>
  <2>1. Range(one) = {g} /\ one \in Seq(S) /\ u = one \o s
    BY DEF Range, u
  <2> HIDE DEF one
  <2> QED BY <2>1, RangeConcatenation
<1> QED BY <1>1, <1>2, <1>3, <1>4, <1>5, <1>6 DEF u

LEMMA HeadTailFacts ==
  ASSUME NEW S, NEW s \in Seq(S), s # <<>>
  PROVE  /\ Head(s) \in S /\ Tail(s) \in Seq(S)
         /\ s = <<Head(s)>> \o Tail(s)
         /\ Range(s) = {Head(s)} \cup Range(Tail(s))
         /\ Len(s) \in Nat \ {0} /\ Len(Tail(s)) = Len(s) - 1
         /\ DOMAIN s = 1 .. Len(s) /\ s[1] = Head(s)
         /\ \A i \in 1 .. Len(s) - 1 : Tail(s)[i] = s[i + 1]
<1> DEFINE g == Head(s)
           u == Tail(s)
           n == Len(s)
<1>1. /\ g \in S /\ u \in Seq(S) /\ Len(u) = n - 1 /\ s[1] = g
      /\ \A i \in 1 .. Len(u) : u[i] = s[i + 1]
  BY HeadTailProperties
<1>2. n \in Nat \ {0} /\ DOMAIN s = 1 .. n
  BY EmptySeq, LenProperties
<1> HIDE DEF g, u
<1>3. /\ <<g>> \o u \in Seq(S) /\ Len(<<g>> \o u) = n
      /\ (<<g>> \o u)[1] = g /\ \A i \in 1 .. Len(u) : (<<g>> \o u)[i + 1] = u[i]
      /\ Range(<<g>> \o u) = {g} \cup Range(u)
  BY <1>1, <1>2, ConsFacts
<1>4. \A i \in 1 .. n : s[i] = (<<g>> \o u)[i]
  <2>1. ASSUME NEW i \in 1 .. n PROVE s[i] = (<<g>> \o u)[i]
    <3>1. CASE i = 1
      BY <1>1, <1>3, <3>1
    <3>2. CASE i # 1
      <4>1. i - 1 \in 1 .. Len(u) /\ (i - 1) + 1 = i
        BY <1>1, <1>2, <3>2
      <4>2. (<<g>> \o u)[(i - 1) + 1] = u[i - 1] /\ u[i - 1] = s[(i - 1) + 1]
        BY <1>1, <1>3, <4>1
      <4> QED BY <4>1, <4>2
    <3> QED BY <3>1, <3>2
  <2> QED BY <2>1
<1>5. s = <<g>> \o u
  BY <1>3, <1>4, SeqEqual
<1> QED BY <1>1, <1>2, <1>3, <1>5 DEF g, u

LEMMA AppendFacts ==
  ASSUME NEW S, NEW s \in Seq(S), NEW e \in S
  PROVE  /\ Append(s, e) \in Seq(S)
         /\ Range(Append(s, e)) = Range(s) \cup {e}
         /\ Len(s) \in Nat /\ DOMAIN s = 1 .. Len(s)
         /\ DOMAIN Append(s, e) = 1 .. Len(s) + 1
         /\ \A i \in 1 .. Len(s) : Append(s, e)[i] = s[i]
         /\ Append(s, e)[Len(s) + 1] = e
<1>1. /\ Append(s, e) \in Seq(S) /\ Len(Append(s, e)) = Len(s) + 1
      /\ \A i \in 1 .. Len(s) : Append(s, e)[i] = s[i]
      /\ Append(s, e)[Len(s) + 1] = e
  BY AppendProperties
<1>2. /\ Len(s) \in Nat /\ DOMAIN s = 1 .. Len(s)
      /\ DOMAIN Append(s, e) = 1 .. Len(s) + 1
  BY <1>1, LenProperties
<1>3. Range(Append(s, e)) = Range(s) \cup {e}
  <2> DEFINE one == <<e>>
  <2>1. Range(one) = {e} /\ one \in Seq(S)
    BY DEF Range
  <2>2. Append(s, e) = s \o one
    BY AppendIsConcat
  <2> HIDE DEF one
  <2> QED BY <2>1, <2>2, RangeConcatenation
<1> QED BY <1>1, <1>2, <1>3

(* A call is made, a call returns.                                         *)
LEMMA ConsOK ==
  ASSUME NEW s, StackOK(s), Ready(s), NEW g \in Frames,
         g.at = "task" => s = <<>>
  PROVE  StackOK(<<g>> \o s)
<1> DEFINE u == <<g>> \o s
           n == Len(s)
<1>1. s \in Seq(Frames)
  BY DEF StackOK
<1>2. /\ u \in Seq(Frames) /\ Tail(u) = s /\ n \in Nat /\ Len(u) = n + 1
      /\ DOMAIN u = 1 .. n + 1 /\ u[1] = g /\ \A i \in 1 .. n : u[i + 1] = s[i]
  BY <1>1, ConsFacts
<1>3. DOMAIN s = 1 .. n /\ (s = <<>> => n = 0 /\ Range(s) = {})
  BY <1>1, LenProperties DEF Range
<1>4. \A f \in Range(s) : f.at \in SuspendedLabels
  BY <1>1, <1>3, HeadTailFacts DEF StackOK, Ready
<1> HIDE DEF u, n
<1>5. ASSUME NEW i \in 1 .. n + 1, u[i].at = "task" PROVE i = n + 1
  <2>1. CASE i = 1
    BY <1>2, <1>3, <1>5, <2>1
  <2>2. CASE i # 1
    <3>1. i - 1 \in 1 .. n /\ (i - 1) + 1 = i
      BY <1>2, <2>2
    <3>2. s[i - 1].at = "task"
      BY <1>2, <1>5, <3>1
    <3>3. i - 1 = n
      BY <1>3, <3>1, <3>2 DEF StackOK, n
    <3> QED BY <3>1, <3>3
  <2> QED BY <2>1, <2>2
<1> QED BY <1>2, <1>4, <1>5 DEF StackOK, u

LEMMA TailOK ==
  ASSUME NEW s, StackOK(s), s # <<>>
  PROVE  /\ StackOK(Tail(s)) /\ Ready(Tail(s))
         /\ Head(s).at = "task" => Tail(s) = <<>>
<1> DEFINE u == Tail(s)
           n == Len(s)
<1>1. s \in Seq(Frames)
  BY DEF StackOK
<1>2. /\ u \in Seq(Frames) /\ n \in Nat \ {0} /\ Len(u) = n - 1
      /\ DOMAIN s = 1 .. n /\ s[1] = Head(s)
      /\ \A i \in 1 .. n - 1 : u[i] = s[i + 1]
  BY <1>1, HeadTailFacts
<1>3. \A f \in Range(u) : f.at \in SuspendedLabels
  BY DEF StackOK
<1>4. DOMAIN u = 1 .. n - 1
  BY <1>2, LenProperties
<1> HIDE DEF u, n
<1>5. u # <<>> => /\ Head(u) \in Range(u) /\ Range(Tail(u)) \subseteq Range(u)
  BY <1>2, HeadTailFacts
<1>6. ASSUME NEW i \in 1 .. n - 1, u[i].at = "task" PROVE i = n - 1
  <2>1. i + 1 \in DOMAIN s /\ s[i + 1].at = "task"
    BY <1>2, <1>6
  <2>2. i + 1 = n
    BY <2>1 DEF StackOK, n
  <2> QED BY <1>2, <2>2
<1>7. ASSUME Head(s).at = "task" PROVE u = <<>>
  <2>1. 1 \in DOMAIN s /\ s[1].at = "task"
    BY <1>2, <1>7
  <2>2. n = 1
    BY <2>1 DEF StackOK, n
  <2> QED BY <1>2, <2>2, EmptySeq
<1>8. StackOK(u)
  BY <1>2, <1>3, <1>4, <1>5, <1>6 DEF StackOK
<1>9. Ready(u)
  BY <1>3, <1>5 DEF Ready
<1> QED BY <1>7, <1>8, <1>9 DEF u
LEMMA HeadExcept ==
  ASSUME NEW S, NEW s \in Seq(S), s # <<>>, NEW g \in S
  PROVE  [s EXCEPT ![1] = g] = <<g>> \o Tail(s)
<1> DEFINE u == Tail(s)
           n == Len(s)
           v == <<g>> \o u
           x == [s EXCEPT ![1] = g]
<1>1. /\ u \in Seq(S) /\ n \in Nat \ {0} /\ Len(u) = n - 1 /\ DOMAIN s = 1 .. n
      /\ \A i \in 1 .. n - 1 : u[i] = s[i + 1]
  BY HeadTailFacts
<1>2. /\ v \in Seq(S) /\ Len(v) = n /\ v[1] = g
      /\ \A i \in 1 .. n - 1 : v[i + 1] = u[i]
  <2> HIDE DEF u
  <2>1. /\ v \in Seq(S) /\ Len(v) = Len(u) + 1 /\ v[1] = g
        /\ \A i \in 1 .. Len(u) : v[i + 1] = u[i]
    BY <1>1, ConsFacts
  <2> HIDE DEF v
  <2> QED BY <1>1, <2>1
<1>3. /\ x \in Seq(S) /\ Len(x) = n
      /\ \A j \in 1 .. n : x[j] = IF j = 1 THEN g ELSE s[j]
  <2>1. 1 \in 1 .. Len(s)
    BY <1>1
  <2> QED BY <2>1, ExceptSeq
<1> HIDE DEF u, n, v, x
<1>4. ASSUME NEW j \in 1 .. n PROVE x[j] = v[j]
  <2>1. CASE j = 1
    BY <1>2, <1>3, <2>1
  <2>2. CASE j # 1
    <3>1. j - 1 \in 1 .. n - 1 /\ (j - 1) + 1 = j
      BY <1>1, <2>2
    <3>2. v[(j - 1) + 1] = u[j - 1] /\ u[j - 1] = s[(j - 1) + 1]
      BY <1>1, <1>2, <3>1
    <3> QED BY <1>3, <2>2, <3>1, <3>2
  <2> QED BY <2>1, <2>2
<1>5. x = v
  BY <1>2, <1>3, <1>4, SeqEqual
<1> QED BY <1>5 DEF x, v, u
-----------------------------------------------------------------------------
(* What the steps of a thread do to its calls.                             *)

(* The calls of t are s afterwards.                                        *)
Becomes(t, s) ==
  /\ StackInv' /\ stack'[t] = s
  /\ \A l \in Loops \ {t} : stack'[l] = stack[l]

LEMMA StackMove ==
  ASSUME StackInv, NEW t \in Loops, NEW s, StackOK(s),
         stack' = [stack EXCEPT ![t] = s]
  PROVE  Becomes(t, s)
<1>1. stack' \in [Loops -> Seq(Frames)]
  BY DEF StackInv, StackOK
<1>2. stack'[t] = s /\ \A l \in Loops \ {t} : stack'[l] = stack[l]
  BY DEF StackInv
<1>3. ASSUME NEW l \in Loops PROVE StackOK(stack'[l])
  <2>1. StackOK(stack[l])
    BY DEF StackInv
  <2> QED BY <1>2, <2>1
<1>4. ASSUME NEW l \in Loops PROVE StackOK(stack[l])'
  <2>1. StackOK(stack'[l])
    BY <1>3
  <2> QED BY <2>1 DEF StackOK
<1> QED BY <1>1, <1>2, <1>4 DEF StackInv, Becomes

LEMMA PushStep ==
  ASSUME StackInv, NEW t \in Loops, NEW g \in Frames, Ready(stack[t]),
         g.at = "task" => stack[t] = <<>>, Push(t, g)
  PROVE  /\ Becomes(t, <<g>> \o stack[t])
         /\ stack'[t] # <<>> /\ Head(stack'[t]) = g /\ Tail(stack'[t]) = stack[t]
         /\ Range(stack'[t]) = {g} \cup Range(stack[t])
<1>1. StackOK(stack[t]) /\ stack[t] \in Seq(Frames)
  BY DEF StackInv
<1>2. StackOK(<<g>> \o stack[t])
  BY <1>1, ConsOK
<1>3. Becomes(t, <<g>> \o stack[t])
  BY <1>2, StackMove DEF Push, StackInv
<1> QED BY <1>1, <1>3, ConsFacts DEF Becomes

LEMMA PopStep ==
  ASSUME StackInv, NEW t \in Loops, stack[t] # <<>>, Pop(t)
  PROVE  /\ Becomes(t, Tail(stack[t])) /\ Ready(stack'[t])
         /\ Range(stack[t]) = {Head(stack[t])} \cup Range(stack'[t])
<1>1. StackOK(stack[t]) /\ stack[t] \in Seq(Frames)
  BY DEF StackInv
<1>2. StackOK(Tail(stack[t])) /\ Ready(Tail(stack[t]))
  BY <1>1, TailOK
<1>3. Becomes(t, Tail(stack[t]))
  BY <1>2, StackMove DEF Pop, StackInv
<1> QED BY <1>1, <1>2, <1>3, HeadTailFacts DEF Becomes

(* The innermost call is another one afterwards.                           *)
LEMMA ReplaceStep ==
  ASSUME StackInv, NEW t \in Loops, stack[t] # <<>>, NEW g \in Frames,
         g.at # "task", stack' = [stack EXCEPT ![t] = <<g>> \o Tail(@)]
  PROVE  /\ Becomes(t, <<g>> \o Tail(stack[t]))
         /\ stack'[t] # <<>> /\ Head(stack'[t]) = g
         /\ Tail(stack'[t]) = Tail(stack[t])
         /\ Range(stack'[t]) = {g} \cup Range(Tail(stack[t]))
         /\ Range(stack[t]) = {Head(stack[t])} \cup Range(Tail(stack[t]))
<1>1. StackOK(stack[t]) /\ stack[t] \in Seq(Frames)
  BY DEF StackInv
<1> DEFINE u == Tail(stack[t])
<1>2. StackOK(u) /\ Ready(u) /\ u \in Seq(Frames)
  BY <1>1, TailOK, HeadTailFacts
<1>3. stack' = [stack EXCEPT ![t] = <<g>> \o u]
  OBVIOUS
<1>4. Range(stack[t]) = {Head(stack[t])} \cup Range(u)
  BY <1>1, HeadTailFacts
<1> HIDE DEF u
<1>5. StackOK(<<g>> \o u)
  BY <1>2, ConsOK
<1>6. Becomes(t, <<g>> \o u)
  BY <1>3, <1>5, StackMove
<1>7. /\ stack'[t] # <<>> /\ Head(stack'[t]) = g /\ Tail(stack'[t]) = u
      /\ Range(stack'[t]) = {g} \cup Range(u)
  <2> DEFINE v == <<g>> \o u
  <2>1. stack'[t] = v
    BY <1>6 DEF Becomes
  <2>2. v # <<>> /\ Head(v) = g /\ Tail(v) = u /\ Range(v) = {g} \cup Range(u)
    BY <1>2, ConsFacts
  <2> HIDE DEF v
  <2> QED BY <2>1, <2>2
<1> QED BY <1>4, <1>6, <1>7 DEF u

LEMMA GotoStep ==
  ASSUME StackInv, NEW t \in Loops, stack[t] # <<>>, NEW label,
         NEW g \in Frames, g = [Head(stack[t]) EXCEPT !.at = label],
         g.at # "task", Goto(t, label)
  PROVE  /\ Becomes(t, <<g>> \o Tail(stack[t]))
         /\ stack'[t] # <<>> /\ Head(stack'[t]) = g
         /\ Tail(stack'[t]) = Tail(stack[t])
         /\ Range(stack'[t]) = {g} \cup Range(Tail(stack[t]))
         /\ Range(stack[t]) = {Head(stack[t])} \cup Range(Tail(stack[t]))
<1>1. stack[t] \in Seq(Frames) /\ stack \in [Loops -> Seq(Frames)]
  BY DEF StackInv
<1>2. stack[t][1] = Head(stack[t])
  BY <1>1, HeadTailFacts
<1>3. stack' = [stack EXCEPT ![t] = [stack[t] EXCEPT ![1] = g]]
  BY <1>1, <1>2 DEF Goto
<1>4. [stack[t] EXCEPT ![1] = g] = <<g>> \o Tail(stack[t])
  BY <1>1, HeadExcept
<1>5. stack' = [stack EXCEPT ![t] = <<g>> \o Tail(stack[t])]
  BY <1>3, <1>4
<1> QED BY <1>5, ReplaceStep
-----------------------------------------------------------------------------
(* What they do to the queues.                                             *)

LEMMA PostStep ==
  ASSUME queue \in [Loops -> Seq(Tasks)], NEW l \in Loops, NEW e \in Tasks,
         Post(l, e)
  PROVE  /\ queue' \in [Loops -> Seq(Tasks)] /\ queue'[l] = Append(queue[l], e)
         /\ \A m \in Loops \ {l} : queue'[m] = queue[m]
         /\ Range(queue'[l]) = Range(queue[l]) \cup {e}
<1>1. /\ Append(queue[l], e) \in Seq(Tasks)
      /\ Range(Append(queue[l], e)) = Range(queue[l]) \cup {e}
  BY AppendFacts
<1> QED BY <1>1 DEF Post

LEMMA TakeStep ==
  ASSUME queue \in [Loops -> Seq(Tasks)], NEW t \in Loops, queue[t] # <<>>,
         Take(t)
  PROVE  /\ queue' \in [Loops -> Seq(Tasks)] /\ queue'[t] = Tail(queue[t])
         /\ \A m \in Loops \ {t} : queue'[m] = queue[m]
         /\ NextTask(t) \in Tasks
         /\ Range(queue[t]) = {NextTask(t)} \cup Range(queue'[t])
<1>1. /\ Head(queue[t]) \in Tasks /\ Tail(queue[t]) \in Seq(Tasks)
      /\ Range(queue[t]) = {Head(queue[t])} \cup Range(Tail(queue[t]))
  BY HeadTailFacts
<1> QED BY <1>1 DEF Take, NextTask

(* A thread's innermost call, and the next function of its loop.           *)
LEMMA TopFacts ==
  ASSUME TypeOK, NEW t \in Loops, stack[t] # <<>>
  PROVE  /\ Head(stack[t]) \in Frames /\ Head(stack[t]) \in Range(stack[t])
         /\ Arg(t) = Head(stack[t]).arg
BY HeadTailFacts DEF TypeOK, Arg

LEMMA NextFacts ==
  ASSUME TypeOK, NEW t \in Loops, queue[t] # <<>>
  PROVE  NextTask(t) \in Tasks /\ NextTask(t) \in Range(queue[t])
BY HeadTailFacts DEF TypeOK, NextTask

(* The calls the code makes have their types.                              *)
LEMMA FrameTypes ==
  /\ \A at \in ConnLabels \cup {"hand"}, c \in Conns, n \in Nat :
       (at = "enter" => ReceiverOf[c] # Nil) => Frame(at, c, {}, n) \in Frames
  /\ \A at \in SignalLabels, s \in Signals, C \in SUBSET Conns, n \in Nat :
       (\A c \in C : SignalOf[c] = s) => Frame(at, s, C, n) \in Frames
  /\ \A s \in Signals : Frame("wait", s, {}, 0) \in Frames
  /\ \A o \in Objects, C \in SUBSET Conns : Frame("each", o, C, 0) \in Frames
  /\ \A e \in Tasks : Bottom(e) \in Frames /\ Bottom(e).at = "task"
  /\ \A at, arg, C, n : /\ Frame(at, arg, C, n).at = at
                        /\ Frame(at, arg, C, n).arg = arg
                        /\ Frame(at, arg, C, n).todo = C
                        /\ Frame(at, arg, C, n).id = n
BY DEF Frame, Frames, FrameLabels, Args, ConnLabels, SignalLabels, Bottom, Tasks

LEMMA RelabelTypes ==
  ASSUME NEW f \in Frames
  PROVE  /\ f.at \in ConnLabels \cup {"hand"} =>
              \A label \in ConnLabels \cup {"wait"} : label # "enter" =>
                 [f EXCEPT !.at = label] \in Frames
         /\ f.at \in SignalLabels \cup {"each"} => \A c :
              [f EXCEPT !.todo = @ \ {c}] \in Frames
         /\ \A label : /\ [f EXCEPT !.at = label].at = label
                       /\ [f EXCEPT !.at = label].arg = f.arg
                       /\ [f EXCEPT !.at = label].todo = f.todo
                       /\ [f EXCEPT !.at = label].id = f.id
         /\ \A c : /\ [f EXCEPT !.todo = @ \ {c}].at = f.at
                   /\ [f EXCEPT !.todo = @ \ {c}].arg = f.arg
                   /\ [f EXCEPT !.todo = @ \ {c}].todo = f.todo \ {c}
                   /\ [f EXCEPT !.todo = @ \ {c}].id = f.id
BY DEF Frames, FrameLabels, Args, ConnLabels, SignalLabels

LEMMA TaskTypes ==
  /\ \A do \in {"register", "unregister", "slot"}, c \in Conns, n \in Nat,
        u \in Loops \cup {Nil} : Task(do, c, n, u) \in Tasks
  /\ \A do \in {"enter", "leave"}, c \in Conns :
       ReceiverOf[c] # Nil => Task(do, c, 0, Nil) \in Tasks
  /\ \A do \in SignalLabels, s \in Signals, u \in Loops \cup {Nil} :
       Task(do, s, 0, u) \in Tasks
  /\ \A q \in Query : Task("query", q, 0, Nil) \in Tasks
  /\ \A do, arg, n, u : /\ Task(do, arg, n, u).do = do
                        /\ Task(do, arg, n, u).arg = arg
                        /\ Task(do, arg, n, u).id = n
                        /\ Task(do, arg, n, u).sync = u
BY DEF Task, Tasks, TaskKinds, SignalLabels, Args
-----------------------------------------------------------------------------
(* The steps of a thread, as the invariants below see them.                *)

(* From the calls s a step leads to u: nothing happens, the innermost call *)
(* returns, goes on as another, or makes one, which are of F; of two new   *)
(* calls one is no emission.                                               *)
Grows(s, u, F) ==
  \/ u = s
  \/ s # <<>> /\ u = Tail(s)
  \/ \E g \in F \cap Frames :
       \/ u = <<g>> \o s
       \/ s # <<>> /\ u = <<g>> \o Tail(s)
  \/ \E g, h \in F \cap Frames :
       /\ ~({g.at, h.at} \subseteq SignalLabels)
       /\ \/ s = <<>> /\ u = <<g>> \o (<<h>> \o s)
          \/ s # <<>> /\ u = <<g>> \o (<<h>> \o Tail(s))

(* Thread t alone changes its calls: those of F are new, and of the others *)
(* the innermost is the only one that can be gone.                         *)
StackStep(t, F) ==
  /\ StackInv' /\ \A l \in Loops \ {t} : stack'[l] = stack[l]
  /\ Grows(stack[t], stack'[t], F)
  /\ \A f \in Range(stack'[t]) : f \in Range(stack[t]) \/ f \in F
  /\ \A f \in Range(stack[t]) : f \in Range(stack'[t]) \/ f = Head(stack[t])

Posted(l, e) ==
  /\ l \in Loops /\ e \in Tasks
  /\ queue' \in [Loops -> Seq(Tasks)] /\ queue'[l] = Append(queue[l], e)
  /\ \A m \in Loops \ {l} : queue'[m] = queue[m]
  /\ Range(queue'[l]) = Range(queue[l]) \cup {e}

Taken(t) ==
  /\ queue[t] # <<>> /\ NextTask(t) \in Tasks
  /\ queue' \in [Loops -> Seq(Tasks)] /\ queue'[t] = Tail(queue[t])
  /\ \A m \in Loops \ {t} : queue'[m] = queue[m]
  /\ Range(queue[t]) = {NextTask(t)} \cup Range(queue'[t])

LEMMA SameStep ==
  ASSUME StackInv, NEW t \in Loops, UNCHANGED stack
  PROVE  StackStep(t, {})
BY DEF StackStep, StackInv, StackOK, Grows

LEMMA PushMoves ==
  ASSUME StackInv, NEW t \in Loops, NEW g \in Frames, Ready(stack[t]),
         g.at = "task" => stack[t] = <<>>, Push(t, g)
  PROVE  /\ StackStep(t, {g})
         /\ stack'[t] # <<>> /\ Head(stack'[t]) = g /\ Tail(stack'[t]) = stack[t]
         /\ Range(stack'[t]) = {g} \cup Range(stack[t])
<1>1. /\ Becomes(t, <<g>> \o stack[t])
      /\ stack'[t] # <<>> /\ Head(stack'[t]) = g /\ Tail(stack'[t]) = stack[t]
      /\ Range(stack'[t]) = {g} \cup Range(stack[t])
  BY PushStep
<1>2. Grows(stack[t], stack'[t], {g})
  BY <1>1 DEF Becomes, Grows
<1> QED BY <1>1, <1>2 DEF StackStep, Becomes

LEMMA PopMoves ==
  ASSUME StackInv, NEW t \in Loops, stack[t] # <<>>, Pop(t)
  PROVE  StackStep(t, {}) /\ Ready(stack'[t]) /\ stack'[t] = Tail(stack[t])
BY PopStep DEF StackStep, Becomes, Grows

LEMMA ReplaceMoves ==
  ASSUME StackInv, NEW t \in Loops, stack[t] # <<>>, NEW g \in Frames,
         g.at # "task", stack' = [stack EXCEPT ![t] = <<g>> \o Tail(@)]
  PROVE  /\ StackStep(t, {g})
         /\ stack'[t] # <<>> /\ Head(stack'[t]) = g
         /\ Tail(stack'[t]) = Tail(stack[t])
         /\ Range(stack'[t]) = {g} \cup Range(Tail(stack[t]))
BY ReplaceStep DEF StackStep, Becomes, Grows

LEMMA GotoMoves ==
  ASSUME StackInv, NEW t \in Loops, stack[t] # <<>>, NEW label,
         NEW g \in Frames, g = [Head(stack[t]) EXCEPT !.at = label],
         g.at # "task", Goto(t, label)
  PROVE  /\ StackStep(t, {g})
         /\ stack'[t] # <<>> /\ Head(stack'[t]) = g
         /\ Tail(stack'[t]) = Tail(stack[t])
         /\ Range(stack'[t]) = {g} \cup Range(Tail(stack[t]))
BY GotoStep DEF StackStep, Becomes, Grows
-----------------------------------------------------------------------------
(* A thread waits in workSync for one function: it is posted in one queue, *)
(* or it is the outermost call of one thread.                              *)

Token(l, u) == \E e \in Range(queue[l]) : e.sync = u
Bottomed(l, u) == \E f \in Range(stack[l]) : f.at = "task" /\ f.arg = u
Awaited(l, u) == Token(l, u) \/ Bottomed(l, u)

(* No two functions of a queue are waited for by the same thread.          *)
Once(s) ==
  \A i, j \in DOMAIN s :
    s[i].sync \in Loops /\ s[i].sync = s[j].sync => i = j

TokenInv ==
  /\ \A l \in Loops : Once(queue[l])
  /\ \A l, u \in Loops : Awaited(l, u) => At(u, "wait")
  /\ \A l, m, u \in Loops : Awaited(l, u) /\ Awaited(m, u) => l = m
  /\ \A l, u \in Loops : ~(Token(l, u) /\ Bottomed(l, u))

(* The connections connect has been called for: no other is met.           *)
Known == {c \in Conns : receiverLoop[c] # Nil}

KnownSets ==
  /\ connAlive \subseteq Known /\ wired \subseteq Known
  /\ \A s \in Signals : connects[s] \subseteq Known
  /\ \A o \in Objects : asSender[o] \subseteq Known /\ asReceiver[o] \subseteq Known

KnownCall(f, K) ==
  f.todo \subseteq K /\ (f.at \in ConnLabels \cup {"hand"} => f.arg \in K)

KnownTask(e, K) == e.do \notin SignalLabels \cup {"query"} => e.arg \in K

KnownCalls ==
  /\ \A l \in Loops : \A f \in Range(stack[l]) : KnownCall(f, Known)
  /\ \A l \in Loops : \A e \in Range(queue[l]) : KnownTask(e, Known)

KnownInv == KnownSets /\ KnownCalls

Base == TypeOK /\ StackInv /\ TokenInv /\ KnownInv

LEMMA OnceTail ==
  ASSUME NEW s \in Seq(Tasks), s # <<>>, Once(s)
  PROVE  /\ Once(Tail(s))
         /\ Head(s).sync \in Loops =>
              \A e \in Range(Tail(s)) : e.sync # Head(s).sync
<1> DEFINE n == Len(s)
           u == Tail(s)
<1>1. /\ n \in Nat \ {0} /\ DOMAIN s = 1 .. n /\ s[1] = Head(s)
      /\ u \in Seq(Tasks) /\ Len(u) = n - 1
      /\ \A i \in 1 .. n - 1 : u[i] = s[i + 1]
  BY HeadTailFacts
<1>2. DOMAIN u = 1 .. n - 1
  BY <1>1, LenProperties
<1> HIDE DEF n, u
<1>3. \A i \in 1 .. n - 1 : i + 1 \in 1 .. n /\ i + 1 # 1
  BY <1>1
<1>4. Once(u)
  <2>1. ASSUME NEW i \in 1 .. n - 1, NEW j \in 1 .. n - 1,
               u[i].sync \in Loops, u[i].sync = u[j].sync
        PROVE  i = j
    <3>1. i + 1 = j + 1
      BY <1>1, <1>3, <2>1 DEF Once
    <3> QED BY <3>1
  <2> QED BY <1>2, <2>1 DEF Once
<1>5. ASSUME Head(s).sync \in Loops, NEW e \in Range(u), e.sync = Head(s).sync
      PROVE  FALSE
  <2>1. PICK i \in 1 .. n - 1 : u[i] = e
    BY <1>2, <1>5 DEF Range
  <2>2. 1 = i + 1
    BY <1>1, <1>3, <1>5, <2>1 DEF Once
  <2> QED BY <1>3, <2>2
<1> QED BY <1>4, <1>5 DEF u

LEMMA OnceAppend ==
  ASSUME NEW s \in Seq(Tasks), Once(s), NEW e \in Tasks,
         e.sync \in Loops => \A x \in Range(s) : x.sync # e.sync
  PROVE  Once(Append(s, e))
<1> DEFINE n == Len(s)
           u == Append(s, e)
<1>1. /\ n \in Nat /\ DOMAIN s = 1 .. n /\ DOMAIN u = 1 .. n + 1
      /\ \A i \in 1 .. n : u[i] = s[i]
      /\ u[n + 1] = e
  BY AppendFacts
<1> HIDE DEF n, u
<1>2. \A i \in 1 .. n + 1 : i \in 1 .. n \/ i = n + 1
  BY <1>1
<1>3. \A i \in 1 .. n : s[i] \in Range(s)
  BY <1>1 DEF Range
<1>4. ASSUME NEW i \in DOMAIN u, NEW j \in DOMAIN u, u[i].sync \in Loops,
             u[i].sync = u[j].sync
      PROVE  i = j
  <2>1. CASE i \in 1 .. n /\ j \in 1 .. n
    BY <1>1, <1>4, <2>1 DEF Once
  <2>2. CASE i \in 1 .. n /\ j = n + 1
    BY <1>1, <1>3, <1>4, <2>2
  <2>3. CASE i = n + 1 /\ j \in 1 .. n
    BY <1>1, <1>3, <1>4, <2>3
  <2> QED BY <1>1, <1>2, <2>1, <2>2, <2>3
<1> QED BY <1>4 DEF Once, u

(* What becomes of the functions a thread waits for when none is added.    *)
LEMMA OnceKept ==
  ASSUME queue \in [Loops -> Seq(Tasks)], \A l \in Loops : Once(queue[l]),
         NEW t \in Loops,
         \/ UNCHANGED queue \/ Taken(t)
         \/ \E l, e : Posted(l, e) /\ e.sync = Nil
  PROVE  /\ \A l \in Loops : Once(queue'[l])
         /\ \A l, u \in Loops : Token(l, u)' => Token(l, u)
<1>0. Nil \notin Loops
  BY ConnectionAssumption
<1>1. CASE UNCHANGED queue
  BY <1>1 DEF Token
<1>2. CASE Taken(t)
  <2>1. Once(queue'[t])
    BY <1>2, OnceTail DEF Taken
  <2>2. \A l \in Loops : Range(queue'[l]) \subseteq Range(queue[l])
    BY <1>2 DEF Taken
  <2> QED BY <1>2, <2>1, <2>2 DEF Taken, Token
<1>3. CASE \E l, e : Posted(l, e) /\ e.sync = Nil
  <2>1. PICK l, e : Posted(l, e) /\ e.sync = Nil
    BY <1>3
  <2>2. Once(queue'[l])
    BY <1>0, <2>1, OnceAppend DEF Posted
  <2> QED BY <1>0, <2>1, <2>2 DEF Posted, Token
<1> QED BY <1>1, <1>2, <1>3

LEMMA TokenKept ==
  ASSUME Base, NEW t \in Loops, ~At(t, "wait"), NEW F, StackStep(t, F),
         \A f \in F : f.at # "task",
         \/ UNCHANGED queue \/ Taken(t)
         \/ \E l, e : Posted(l, e) /\ e.sync = Nil
  PROVE  TokenInv'
<1>1. /\ \A l \in Loops : Once(queue'[l])
      /\ \A l, u \in Loops : Token(l, u)' => Token(l, u)
  BY OnceKept DEF Base, TypeOK, TokenInv
<1>2. \A l, u \in Loops : Bottomed(l, u)' => Bottomed(l, u)
  BY DEF StackStep, Bottomed
<1>3. \A u \in Loops : At(u, "wait") => At(u, "wait")'
  BY DEF StackStep, At
<1>4. (\A l \in Loops : Once(queue[l]))'
  BY <1>1 DEF Once
<1> QED BY <1>1, <1>2, <1>3, <1>4 DEF Base, TokenInv, Awaited

(* A thread begins to wait.                                                *)
LEMMA TokenPosted ==
  ASSUME Base, NEW t \in Loops, ~At(t, "wait"), NEW F, StackStep(t, F),
         \A f \in F : f.at # "task", At(t, "wait")',
         NEW l, NEW e, Posted(l, e), e.sync = t
  PROVE  TokenInv'
<1>1. \A m \in Loops : ~Awaited(m, t)
  BY DEF Base, TokenInv
<1>2. \A m, u \in Loops : Token(m, u)' => Token(m, u) \/ (m = l /\ u = t)
  BY DEF Token, Posted
<1>3. \A m, u \in Loops : Bottomed(m, u)' => Bottomed(m, u)
  BY DEF StackStep, Bottomed
<1>4. \A u \in Loops : At(u, "wait") => At(u, "wait")'
  BY DEF StackStep, At
<1>5. Once(queue'[l])
  <2>1. \A x \in Range(queue[l]) : x.sync # t
    BY <1>1 DEF Posted, Awaited, Token
  <2> QED BY <2>1, OnceAppend DEF Posted, Base, TypeOK, TokenInv
<1>6. (\A m \in Loops : Once(queue[m]))'
  BY <1>5 DEF Base, TokenInv, Posted, Once
<1>7. \A m, u \in Loops : Awaited(m, u)' => Awaited(m, u) \/ (m = l /\ u = t)
  BY <1>2, <1>3 DEF Awaited
<1>8. \A m, u \in Loops : Awaited(m, u)' => At(u, "wait")'
  BY <1>4, <1>7 DEF Base, TokenInv
<1>9. \A m, k, u \in Loops : Awaited(m, u)' /\ Awaited(k, u)' => m = k
  BY <1>1, <1>7 DEF Base, TokenInv
<1>10. \A m, u \in Loops : ~(Token(m, u)' /\ Bottomed(m, u)')
  BY <1>1, <1>2, <1>3 DEF Base, TokenInv, Awaited
<1> QED BY <1>6, <1>8, <1>9, <1>10 DEF TokenInv

(* A loop begins a function with calls of its own.                         *)
LEMMA TokenTaken ==
  ASSUME Base, NEW t \in Loops, stack[t] = <<>>, NEW F, StackStep(t, F),
         \A f \in F : f.at = "task" => f.arg = NextTask(t).sync, Taken(t)
  PROVE  TokenInv'
<1>0. PICK w : w = NextTask(t).sync
  OBVIOUS
<1>1. /\ \A l \in Loops : Once(queue'[l])
      /\ \A l, u \in Loops : Token(l, u)' => Token(l, u)
  BY OnceKept DEF Base, TypeOK, TokenInv
<1>2. w \in Loops => Token(t, w) /\ ~Token(t, w)'
  <2>1. /\ queue[t] \in Seq(Tasks) /\ queue[t] # <<>> /\ Once(queue[t])
        /\ queue'[t] = Tail(queue[t]) /\ Head(queue[t]) \in Range(queue[t])
    BY DEF Base, TypeOK, TokenInv, Taken, NextTask
  <2>2. w = Head(queue[t]).sync
    BY <1>0 DEF NextTask
  <2>3. w \in Loops => \A e \in Range(Tail(queue[t])) : e.sync # w
    BY <2>1, <2>2, OnceTail
  <2> QED BY <2>1, <2>2, <2>3 DEF Token
<1>3. \A l, u \in Loops : Bottomed(l, u)' => Bottomed(l, u) \/ (l = t /\ u = w)
  BY <1>0 DEF StackStep, Bottomed
<1>4. \A u \in Loops : ~Bottomed(t, u)
  BY DEF Bottomed, Range
<1>5. \A u \in Loops : At(u, "wait") => At(u, "wait")'
  BY DEF StackStep, At
<1>6. (\A l \in Loops : Once(queue[l]))'
  BY <1>1 DEF Once
<1>7. \A l, u \in Loops : Awaited(l, u)' => Awaited(l, u)
  BY <1>1, <1>2, <1>3 DEF Awaited
<1>8. \A l, u \in Loops : ~(Token(l, u)' /\ Bottomed(l, u)')
  BY <1>1, <1>2, <1>3, <1>4 DEF Base, TokenInv
<1> QED BY <1>5, <1>6, <1>7, <1>8 DEF Base, TokenInv
-----------------------------------------------------------------------------
(* Each action, as such a step.                                            *)

LEMMA MayFacts ==
  ASSUME Base, NEW t \in Loops, NEW op, NEW arg, May(t, op, arg)
  PROVE  /\ Ready(stack[t]) /\ ~At(t, "wait")
         /\ calls' \in 0 .. MaxCalls
         /\ op = "query" => arg \in Query
<1>1. Ready(stack[t]) /\ ~At(t, "wait")
  BY DEF May, Ready, At, SuspendedLabels
<1>2. calls' \in 0 .. MaxCalls
  BY ConnectionAssumption DEF May, Base, TypeOK, LogOK
<1>3. op = "query" => arg \in Query
  <2>1. <<t, op, arg>> \in Calls
    BY DEF May
  <2>2. <<t, op, arg>>[2] = op /\ <<t, op, arg>>[3] = arg
    OBVIOUS
  <2> HIDE DEF May
  <2> QED BY <2>1, <2>2, ConnectionAssumption
<1> QED BY <1>1, <1>2, <1>3

LEMMA PostMoves ==
  ASSUME Base, NEW l \in Loops, NEW e \in Tasks, Post(l, e)
  PROVE  Posted(l, e)
BY PostStep DEF Base, TypeOK, Posted

LEMMA TakeMoves ==
  ASSUME Base, NEW t \in Loops, NEW do, NextIs(t, do), Take(t)
  PROVE  /\ Taken(t) /\ NextTask(t).do = do /\ stack[t] = <<>>
         /\ NextTask(t) \in Range(queue[t]) /\ ~At(t, "wait")
BY TakeStep DEF Base, TypeOK, Taken, NextIs, NextTask, At

LEMMA TopIs ==
  ASSUME Base, NEW t \in Loops, NEW label, At(t, label)
  PROVE  /\ stack[t] # <<>> /\ Head(stack[t]) \in Frames
         /\ Head(stack[t]) \in Range(stack[t])
         /\ Head(stack[t]).at = label /\ Arg(t) = Head(stack[t]).arg
         /\ label # "wait" => ~At(t, "wait")
BY TopFacts DEF Base, At

LEMMA PlaceTypes ==
  ASSUME Base
  PROVE  /\ \A c \in Conns : /\ SignalOf[c] \in Signals
                             /\ Sender(c) \in Objects
                             /\ loop[Sender(c)] \in Loops
                             /\ ReceiverOf[c] \in Objects \cup {Nil}
                             /\ ReceiverOf[c] # Nil => loop[ReceiverOf[c]] \in Loops
         /\ \A s \in Signals : Container[s] \in Objects
         /\ Nil \notin Objects /\ Nil \notin Loops /\ alive \subseteq Objects
BY ConnectionAssumption DEF Base, TypeOK, ObjectsOK, Sender

LEMMA ConnectMoves ==
  ASSUME Base, NEW t \in Loops, NEW c \in Conns, Connect(t, c)
  PROVE  /\ StackStep(t, {Frame(IF ReceiverOf[c] = Nil THEN "wire" ELSE "enter",
                                c, {}, 0)})
         /\ IF loop[Sender(c)] = t THEN UNCHANGED queue
            ELSE Posted(loop[Sender(c)], Task("register", c, 0, Nil))
<1> DEFINE g == Frame(IF ReceiverOf[c] = Nil THEN "wire" ELSE "enter", c, {}, 0)
<1>1. g \in Frames /\ g.at # "task"
  BY FrameTypes DEF ConnLabels
<1>2. Push(t, g) /\ Ready(stack[t])
  BY MayFacts DEF Connect
<1>3. StackStep(t, {g})
  <2> HIDE DEF g
  <2> QED BY <1>1, <1>2, PushMoves DEF Base
<1>4. IF loop[Sender(c)] = t THEN UNCHANGED queue
      ELSE Posted(loop[Sender(c)], Task("register", c, 0, Nil))
  BY TaskTypes, PlaceTypes, PostMoves DEF Connect
<1> QED BY <1>3, <1>4

LEMMA DisconnectMoves ==
  ASSUME Base, NEW t \in Loops, NEW c \in Conns, Disconnect(t, c)
  PROVE  StackStep(t, {Frame("test", c, {}, 0)}) /\ UNCHANGED queue
<1>1. Frame("test", c, {}, 0) \in Frames /\ Frame("test", c, {}, 0).at # "task"
  BY FrameTypes DEF ConnLabels
<1>2. Ready(stack[t])
  BY MayFacts DEF Disconnect
<1> QED BY <1>1, <1>2, PushMoves DEF Disconnect, Base

LEMMA DestroyMoves ==
  ASSUME Base, NEW t \in Loops, NEW o \in Objects, Destroy(t, o)
  PROVE  /\ StackStep(t, {Frame("each", o, asSender[o] \cup asReceiver[o], 0)})
         /\ UNCHANGED queue
<1> DEFINE g == Frame("each", o, asSender[o] \cup asReceiver[o], 0)
<1>1. g \in Frames /\ g.at # "task"
  BY FrameTypes DEF Base, TypeOK, ObjectsOK
<1>2. Ready(stack[t]) /\ Push(t, g)
  BY MayFacts DEF Destroy
<1> HIDE DEF g
<1>3. StackStep(t, {g})
  BY <1>1, <1>2, PushMoves DEF Base
<1> QED BY <1>3 DEF Destroy, g

LEMMA ChosenIn ==
  ASSUME Base, NEW q \in Query
  PROVE  Chosen(q) \subseteq asSender[q.object] \cup asReceiver[q.object]
         /\ q.object \in Objects
BY DEF Chosen, Query

LEMMA QueryPush ==
  ASSUME Base, NEW t \in Loops, NEW q \in Query, Ready(stack[t]),
         Push(t, Frame("each", q.object, Chosen(q), 0))
  PROVE  StackStep(t, {Frame("each", q.object, Chosen(q), 0)})
<1>1. Frame("each", q.object, Chosen(q), 0) \in Frames
  BY ChosenIn, FrameTypes DEF Base, TypeOK, ObjectsOK
<1>2. Frame("each", q.object, Chosen(q), 0).at # "task"
  BY FrameTypes
<1> QED BY <1>1, <1>2, PushMoves DEF Base

LEMMA DisconnectQueryMoves ==
  ASSUME Base, NEW t \in Loops, NEW q, DisconnectQuery(t, q)
  PROVE  /\ q \in Query
         /\ \/ /\ StackStep(t, {Frame("each", q.object, Chosen(q), 0)})
               /\ UNCHANGED queue
            \/ /\ StackStep(t, {})
               /\ Posted(loop[q.object], Task("query", q, 0, Nil))
<1>1. q \in Query /\ Ready(stack[t])
  BY MayFacts DEF DisconnectQuery
<1>2. q.object \in Objects /\ loop[q.object] \in Loops
  BY <1>1, ChosenIn DEF Base, TypeOK, ObjectsOK
<1>3. CASE Push(t, Frame("each", q.object, Chosen(q), 0)) /\ UNCHANGED queue
  BY <1>1, <1>3, QueryPush
<1>4. CASE Post(loop[q.object], Task("query", q, 0, Nil)) /\ UNCHANGED stack
  BY <1>1, <1>2, <1>4, TaskTypes, PostMoves, SameStep DEF Base
<1> QED BY <1>1, <1>3, <1>4 DEF DisconnectQuery

(* The functions that make no call.                                        *)
LEMMA RunMoves ==
  ASSUME Base, NEW t \in Loops, NEW do, NextIs(t, do), Take(t), UNCHANGED stack
  PROVE  StackStep(t, {}) /\ Taken(t)
BY SameStep, TakeMoves DEF Base

(* A function that makes calls is the outermost of them.                   *)
LEMMA BottomMoves ==
  ASSUME Base, NEW t \in Loops, NEW do, NextIs(t, do), Take(t),
         Push(t, Bottom(NextTask(t)))
  PROVE  StackStep(t, {Bottom(NextTask(t))}) /\ Taken(t)
<1>1. Taken(t) /\ NextTask(t) \in Tasks /\ stack[t] = <<>>
  BY TakeMoves DEF Taken
<1>2. Bottom(NextTask(t)) \in Frames /\ Ready(stack[t])
  BY <1>1, FrameTypes DEF Ready
<1> QED BY <1>1, <1>2, PushMoves DEF Base

(* It may have made the first of them at once.                             *)
LEMMA BottomCallMoves ==
  ASSUME Base, NEW t \in Loops, NEW do, NextIs(t, do), Take(t),
         NEW g \in Frames, g.at # "task",
         stack' = [stack EXCEPT ![t] = <<g>> \o <<Bottom(NextTask(t))>>]
  PROVE  /\ StackStep(t, {g, Bottom(NextTask(t))}) /\ Taken(t)
         /\ Range(stack'[t]) = {g, Bottom(NextTask(t))}
         /\ stack'[t] # <<>> /\ Head(stack'[t]) = g
<1>1. Taken(t) /\ NextTask(t) \in Tasks /\ stack[t] = <<>>
  BY TakeMoves DEF Taken
<1>2. PICK b : b = Bottom(NextTask(t))
  OBVIOUS
<1>3. b \in Frames /\ b.at = "task"
  BY <1>1, <1>2, FrameTypes
<1> DEFINE one == <<b>>
<1>4. StackOK(one) /\ Ready(one) /\ one \in Seq(Frames) /\ Range(one) = {b}
  BY <1>3 DEF StackOK, Ready, SuspendedLabels, Range
<1>5. stack' = [stack EXCEPT ![t] = <<g>> \o one]
  BY <1>2
<1> HIDE DEF one
<1>6. StackOK(<<g>> \o one) /\ Range(<<g>> \o one) = {g, b}
      /\ <<g>> \o one # <<>> /\ Head(<<g>> \o one) = g
  BY <1>4, ConsOK, ConsFacts
<1> DEFINE s == <<g>> \o one
<1>7. Becomes(t, s)
  <2>1. StackOK(s) /\ stack' = [stack EXCEPT ![t] = s]
    BY <1>5, <1>6
  <2> HIDE DEF s
  <2> QED BY <2>1, StackMove DEF Base
<1>8. stack'[t] = s /\ Range(s) = {g, b} /\ s # <<>> /\ Head(s) = g
  BY <1>6, <1>7 DEF Becomes
<1> HIDE DEF s
<1>9. Range(stack[t]) = {}
  BY <1>1 DEF Range
<1>10. Grows(stack[t], s, {g, b})
  <2>1. one = one \o <<>>
    BY <1>4, ConcatEmptySeq
  <2>2. one = <<b>> \o stack[t]
    BY <1>1, <2>1 DEF one
  <2>3. ~({g.at, b.at} \subseteq SignalLabels)
    BY <1>3 DEF SignalLabels
  <2> QED BY <1>1, <1>3, <2>2, <2>3 DEF Grows, s
<1> QED BY <1>1, <1>2, <1>7, <1>8, <1>9, <1>10 DEF StackStep, Becomes

LEMMA RunQueryMoves ==
  ASSUME Base, NEW t \in Loops, RunQuery(t)
  PROVE  LET q == NextTask(t).arg IN
         /\ q \in Query /\ Taken(t)
         /\ \/ StackStep(t, {Frame("each", q.object, Chosen(q), 0)})
            \/ StackStep(t, {})
<1>0. NextIs(t, "query") /\ Take(t)
  BY DEF RunQuery
<1>1. Taken(t) /\ NextTask(t).do = "query" /\ stack[t] = <<>>
  BY <1>0, TakeMoves
<1>2. NextTask(t).arg \in Query /\ Ready(stack[t])
  BY <1>1 DEF Taken, Tasks, Ready
<1> QED BY <1>1, <1>2, QueryPush, SameStep DEF RunQuery, Base

LEMMA RunSlotMoves ==
  ASSUME Base, NEW t \in Loops, RunSlot(t)
  PROVE  LET e == NextTask(t)
             g == Frame("call", e.arg, {}, e.id) IN
         /\ Taken(t) /\ e.do = "slot" /\ e.arg \in Conns /\ stack[t] = <<>>
         /\ \/ /\ ReceiverOf[e.arg] \in alive \cup {Nil}
               /\ StackStep(t, {g, Bottom(e)})
               /\ Range(stack'[t]) = {g, Bottom(e)}
               /\ stack'[t] # <<>> /\ Head(stack'[t]) = g
            \/ /\ ReceiverOf[e.arg] \notin alive \cup {Nil}
               /\ StackStep(t, {Bottom(e)})
<1>0. NextIs(t, "slot") /\ Take(t)
  BY DEF RunSlot
<1>1. PICK e : e = NextTask(t)
  OBVIOUS
<1>2. Taken(t) /\ e \in Tasks /\ e.do = "slot" /\ stack[t] = <<>>
  BY <1>0, <1>1, TakeMoves DEF Taken
<1>3. e.arg \in Conns /\ e.id \in Nat
  BY <1>2 DEF Tasks, SignalLabels
<1> DEFINE g == Frame("call", e.arg, {}, e.id)
<1>4. g \in Frames /\ g.at = "call" /\ Bottom(e) \in Frames
  BY <1>2, <1>3, FrameTypes DEF ConnLabels
<1>5. CASE ReceiverOf[e.arg] \in alive \cup {Nil}
  <2>1. stack' = [stack EXCEPT ![t] = <<g>> \o <<Bottom(NextTask(t))>>]
    BY <1>1, <1>5 DEF RunSlot
  <2> HIDE DEF g
  <2>2. /\ StackStep(t, {g, Bottom(e)}) /\ Range(stack'[t]) = {g, Bottom(e)}
        /\ stack'[t] # <<>> /\ Head(stack'[t]) = g
    BY <1>0, <1>1, <1>4, <2>1, BottomCallMoves
  <2> QED BY <1>1, <1>2, <1>3, <1>5, <2>2 DEF g
<1>6. CASE ReceiverOf[e.arg] \notin alive \cup {Nil}
  <2> HIDE DEF g
  <2> DEFINE one == <<Bottom(e)>>
  <2>1. stack' = [stack EXCEPT ![t] = <<>> \o one]
    BY <1>1, <1>6 DEF RunSlot
  <2>2. one \in Seq(Frames)
    BY <1>4
  <2>3. <<>> \o one = one /\ one = one \o <<>>
    BY <2>2, ConcatEmptySeq
  <2>4. Push(t, Bottom(NextTask(t)))
    BY <1>1, <1>2, <2>1, <2>3 DEF Push
  <2>5. StackStep(t, {Bottom(e)})
    BY <1>0, <1>1, <2>4, BottomMoves
  <2> QED BY <1>1, <1>2, <1>3, <1>6, <2>5
<1> QED BY <1>5, <1>6

LEMMA BeginMoves ==
  ASSUME Base, NEW t \in Loops, NEW do \in SignalLabels, NEW s \in Signals,
         NEW below, BeginDispatch(t, do, s, below)
  PROVE  LET g == Frame(do, s, connects[s], emits + 1) IN
         /\ g \in Frames /\ g.at # "task"
         /\ stack' = [stack EXCEPT ![t] = <<g>> \o below]
         /\ emits' \in Nat /\ due' \in [Conns -> SUBSET Nat]
         /\ nested' \subseteq Signals
<1>1. emits + 1 \in Nat /\ connects[s] \in SUBSET Conns
      /\ \A c \in connects[s] : SignalOf[c] = s
  BY DEF Base, TypeOK, LogOK, SignalsOK
<1>2. Frame(do, s, connects[s], emits + 1) \in Frames
  BY <1>1, FrameTypes
<1>3. Frame(do, s, connects[s], emits + 1).at # "task"
  BY FrameTypes DEF SignalLabels
<1>4. emits' \in Nat /\ due' \in [Conns -> SUBSET Nat]
  BY <1>1 DEF BeginDispatch, Base, TypeOK, LogOK
<1>5. nested' \subseteq Signals
  BY DEF BeginDispatch, Base, TypeOK, LogOK
<1> QED BY <1>2, <1>3, <1>4, <1>5 DEF BeginDispatch

LEMMA RunDispatchMoves ==
  ASSUME Base, NEW t \in Loops, NEW do \in SignalLabels, RunDispatch(t, do)
  PROVE  LET e == NextTask(t)
             g == Frame(do, e.arg, connects[e.arg], emits + 1) IN
         /\ Taken(t) /\ e.do = do /\ e.arg \in Signals /\ stack[t] = <<>>
         /\ \/ /\ Container[e.arg] \in alive
               /\ StackStep(t, {g, Bottom(e)}) /\ g.at # "task"
               /\ g \in Range(stack'[t])
               /\ emits' \in Nat /\ due' \in [Conns -> SUBSET Nat]
               /\ nested' \subseteq Signals
            \/ /\ Container[e.arg] \notin alive /\ StackStep(t, {Bottom(e)})
               /\ UNCHANGED <<emits, due, nested>>
<1>0. NextIs(t, do) /\ Take(t)
  BY DEF RunDispatch
<1>1. PICK e : e = NextTask(t)
  OBVIOUS
<1>2. Taken(t) /\ e \in Tasks /\ e.do = do /\ stack[t] = <<>>
  BY <1>0, <1>1, TakeMoves DEF Taken
<1>3. e.arg \in Signals
  BY <1>2 DEF Tasks
<1> DEFINE g == Frame(do, e.arg, connects[e.arg], emits + 1)
<1>5. CASE Container[e.arg] \in alive
  <2>0. BeginDispatch(t, do, e.arg, <<Bottom(NextTask(t))>>)
    BY <1>1, <1>5 DEF RunDispatch
  <2>1. /\ g \in Frames /\ g.at # "task"
        /\ stack' = [stack EXCEPT ![t] = <<g>> \o <<Bottom(NextTask(t))>>]
        /\ emits' \in Nat /\ due' \in [Conns -> SUBSET Nat]
        /\ nested' \subseteq Signals
    BY <1>3, <2>0, BeginMoves
  <2> HIDE DEF g
  <2>2. /\ StackStep(t, {g, Bottom(e)}) /\ Range(stack'[t]) = {g, Bottom(e)}
    BY <1>0, <1>1, <2>1, BottomCallMoves
  <2> QED BY <1>1, <1>2, <1>3, <1>5, <2>1, <2>2 DEF g
<1>6. CASE Container[e.arg] \notin alive
  <2>1. Push(t, Bottom(NextTask(t))) /\ UNCHANGED <<emits, due, nested>>
    BY <1>1, <1>6 DEF RunDispatch
  <2>2. StackStep(t, {Bottom(e)})
    BY <1>0, <1>1, <2>1, BottomMoves
  <2> QED BY <1>1, <1>2, <1>3, <1>6, <2>1, <2>2
<1> QED BY <1>5, <1>6

LEMMA EmitMoves ==
  ASSUME Base, NEW t \in Loops, NEW s \in Signals, NEW sync \in BOOLEAN,
         Emit(t, s, sync)
  PROVE  LET do == IF sync THEN "dispatchSync" ELSE "dispatch"
             g == Frame(do, s, connects[s], emits + 1)
             w == Frame("wait", s, {}, 0) IN
         \/ /\ signalLoop[s] = Nil /\ StackStep(t, {})
            /\ undefined' \in BOOLEAN
            /\ UNCHANGED <<queue, emits, due, nested>>
         \/ /\ signalLoop[s] = t
            /\ StackStep(t, {g}) /\ g.at # "task" /\ g \in Range(stack'[t])
            /\ emits' \in Nat /\ due' \in [Conns -> SUBSET Nat]
            /\ nested' \subseteq Signals
            /\ UNCHANGED <<queue, undefined>>
         \/ /\ sync /\ signalLoop[s] \notin {t, Nil}
            /\ StackStep(t, {w}) /\ At(t, "wait")'
            /\ Posted(signalLoop[s], Task(do, s, 0, t))
            /\ UNCHANGED <<emits, due, nested, undefined>>
         \/ /\ ~sync /\ signalLoop[s] \notin {t, Nil} /\ StackStep(t, {})
            /\ Posted(signalLoop[s], Task(do, s, 0, Nil))
            /\ UNCHANGED <<emits, due, nested, undefined>>
<1> DEFINE do == IF sync THEN "dispatchSync" ELSE "dispatch"
           g == Frame(do, s, connects[s], emits + 1)
           w == Frame("wait", s, {}, 0)
<1>0. do \in SignalLabels
  BY DEF SignalLabels
<1>1. Ready(stack[t]) /\ stack[t] \in Seq(Frames) /\ StackOK(stack[t])
  BY MayFacts DEF Emit, Base, StackInv
<1>2. CASE signalLoop[s] = Nil
  <2>1. Nil # t
    BY PlaceTypes
  <2>2. undefined' \in BOOLEAN /\ UNCHANGED <<loopVars, emits, due, nested>>
    BY <1>2, <2>1 DEF Emit
  <2>3. StackStep(t, {}) /\ UNCHANGED queue
    BY <2>2, SameStep DEF Base, loopVars
  <2> QED BY <1>2, <2>2, <2>3
<1>3. CASE signalLoop[s] = t
  <2>1. Nil # t
    BY PlaceTypes
  <2>2. BeginDispatch(t, do, s, stack[t]) /\ UNCHANGED <<queue, undefined>>
    BY <1>3, <2>1 DEF Emit
  <2> HIDE DEF do
  <2>3. /\ g \in Frames /\ g.at # "task"
        /\ stack' = [stack EXCEPT ![t] = <<g>> \o stack[t]]
        /\ emits' \in Nat /\ due' \in [Conns -> SUBSET Nat]
        /\ nested' \subseteq Signals
    BY <1>0, <2>2, BeginMoves
  <2> HIDE DEF g
  <2>4. StackStep(t, {g}) /\ Range(stack'[t]) = {g} \cup Range(stack[t])
    BY <1>1, <2>3, PushMoves DEF Push, Base
  <2> QED BY <1>3, <2>2, <2>3, <2>4 DEF g, do
<1>4. CASE signalLoop[s] \notin {t, Nil}
  <2>1. /\ Post(signalLoop[s], Task(do, s, 0, IF sync THEN t ELSE Nil))
        /\ IF sync THEN Push(t, w) ELSE UNCHANGED stack
        /\ UNCHANGED <<emits, due, nested, undefined>>
    BY <1>4 DEF Emit
  <2>2. signalLoop[s] \in Loops
    BY <1>4 DEF Base, TypeOK, SignalsOK
  <2>3. Task(do, s, 0, IF sync THEN t ELSE Nil) \in Tasks
    BY <1>0, TaskTypes
  <2>4. Posted(signalLoop[s], Task(do, s, 0, IF sync THEN t ELSE Nil))
    BY <2>1, <2>2, <2>3, PostMoves
  <2>5. CASE sync
    <3>1. w \in Frames /\ w.at = "wait"
      BY FrameTypes
    <3>2. StackStep(t, {w}) /\ stack'[t] # <<>> /\ Head(stack'[t]) = w
      <4>1. Push(t, w)
        BY <2>1, <2>5
      <4> HIDE DEF w
      <4> QED BY <1>1, <3>1, <4>1, PushMoves DEF Base
    <3>3. At(t, "wait")'
      BY <3>1, <3>2 DEF At
    <3> QED BY <1>4, <2>1, <2>4, <2>5, <3>2, <3>3
  <2>6. CASE ~sync
    <3>1. StackStep(t, {})
      BY <2>1, <2>6, SameStep DEF Base
    <3> QED BY <1>4, <2>1, <2>4, <2>6, <3>1
  <2> QED BY <2>5, <2>6
<1> QED BY <1>2, <1>3, <1>4

LEMMA RelabelMoves ==
  ASSUME Base, NEW t \in Loops, NEW from \in ConnLabels \cup {"hand"},
         NEW to \in ConnLabels \cup {"wait"}, to # "enter", At(t, from),
         Goto(t, to), NEW f, f = Head(stack[t]), NEW g, g = [f EXCEPT !.at = to]
  PROVE  /\ f \in Frames /\ f \in Range(stack[t]) /\ f.at = from
         /\ f.arg \in Conns /\ Arg(t) = f.arg
         /\ g \in Frames /\ g.at = to /\ g.arg = f.arg /\ g.id = f.id
         /\ g.todo = f.todo
         /\ StackStep(t, {g}) /\ g \in Range(stack'[t])
         /\ stack'[t] # <<>> /\ Head(stack'[t]) = g
<1>1. /\ f \in Frames /\ f \in Range(stack[t]) /\ f.at = from
      /\ Arg(t) = f.arg /\ stack[t] # <<>>
  BY TopIs
<1>2. f.arg \in Conns
  BY <1>1 DEF Frames
<1>3. g \in Frames
  BY <1>1, RelabelTypes
<1>4. /\ g.at = to /\ g.arg = f.arg /\ g.id = f.id /\ g.todo = f.todo
  BY <1>1, RelabelTypes
<1>5. g.at # "task"
  BY <1>4 DEF ConnLabels
<1>6. g = [Head(stack[t]) EXCEPT !.at = to]
  OBVIOUS
<1>7. /\ StackStep(t, {g}) /\ stack'[t] # <<>> /\ Head(stack'[t]) = g
      /\ Range(stack'[t]) = {g} \cup Range(Tail(stack[t]))
  BY <1>1, <1>3, <1>5, <1>6, GotoMoves DEF Base
<1> QED BY <1>1, <1>2, <1>3, <1>4, <1>7

LEMMA TopPops ==
  ASSUME Base, NEW t \in Loops, NEW label, At(t, label), Pop(t)
  PROVE  StackStep(t, {})
BY TopIs, PopMoves DEF Base

LEMMA PairFacts ==
  ASSUME NEW S, NEW g \in S, NEW h \in S
  PROVE  <<g, h>> = <<g>> \o <<h>>
<1>1. <<g>> \in Seq(S) /\ <<h>> \in Seq(S) /\ <<g, h>> \in Seq(S)
  OBVIOUS
<1>2. /\ Len(<<g>>) = 1 /\ Len(<<h>>) = 1 /\ Len(<<g, h>>) = 2
      /\ <<g>>[1] = g /\ <<h>>[1] = h /\ <<g, h>>[1] = g /\ <<g, h>>[2] = h
  OBVIOUS
<1> DEFINE one == <<g>>
           two == <<h>>
           both == <<g, h>>
<1> HIDE DEF one, two, both
<1>3. /\ one \o two \in Seq(S) /\ Len(one \o two) = 2
      /\ \A i \in 1 .. 2 : (one \o two)[i] = IF i <= 1 THEN one[i] ELSE two[i - 1]
  <2>1. /\ one \in Seq(S) /\ two \in Seq(S) /\ Len(one) = 1 /\ Len(two) = 1
    BY <1>1, <1>2 DEF one, two
  <2> QED BY <2>1, ConcatProperties
<1>4. (one \o two)[1] = g /\ (one \o two)[2] = h
  <2>1. one[1] = g /\ two[1] = h
    BY <1>2 DEF one, two
  <2> QED BY <1>3, <2>1
<1>5. both \in Seq(S) /\ Len(both) = 2 /\ both[1] = g /\ both[2] = h
  BY <1>1, <1>2 DEF both
<1>6. \A i \in 1 .. 2 : i = 1 \/ i = 2
  OBVIOUS
<1>7. \A i \in 1 .. 2 : both[i] = (one \o two)[i]
  BY <1>4, <1>5, <1>6
<1>8. both = one \o two
  BY <1>3, <1>5, <1>7, SeqEqual
<1> QED BY <1>8 DEF one, two, both

(* The innermost call goes on to another and is suspended.                 *)
LEMMA TwoMoves ==
  ASSUME Base, NEW t \in Loops, stack[t] # <<>>, NEW g \in Frames,
         NEW h \in Frames, g.at # "task", h.at \in SuspendedLabels \ {"task"},
         g.at \notin SignalLabels,
         stack' = [stack EXCEPT ![t] = <<g, h>> \o Tail(@)]
  PROVE  /\ StackStep(t, {g, h})
         /\ stack'[t] = <<g>> \o (<<h>> \o Tail(stack[t]))
         /\ g \in Range(stack'[t]) /\ h \in Range(stack'[t])
         /\ stack'[t] # <<>> /\ Head(stack'[t]) = g
<1>1. stack[t] \in Seq(Frames) /\ StackOK(stack[t])
  BY DEF Base, StackInv
<1> DEFINE u == Tail(stack[t])
           v == <<h>> \o u
           x == <<g>> \o v
<1>2. StackOK(u) /\ Ready(u) /\ u \in Seq(Frames)
      /\ Range(stack[t]) = {Head(stack[t])} \cup Range(u)
  BY <1>1, TailOK, HeadTailFacts
<1>3. stack' = [stack EXCEPT ![t] = <<g, h>> \o u]
  OBVIOUS
<1> HIDE DEF u
<1>4. <<g, h>> \o u = x
  <2> DEFINE one == <<g>>
             two == <<h>>
  <2>0. one \in Seq(Frames) /\ two \in Seq(Frames)
    OBVIOUS
  <2>1. <<g, h>> = one \o two
    BY PairFacts
  <2> HIDE DEF one, two
  <2>2. (one \o two) \o u = one \o (two \o u)
    BY <1>2, <2>0, ConcatAssociative
  <2> QED BY <2>1, <2>2 DEF one, two
<1>5. stack' = [stack EXCEPT ![t] = x]
  BY <1>3, <1>4
<1>6. /\ StackOK(v) /\ v \in Seq(Frames) /\ Head(v) = h
      /\ Range(v) = {h} \cup Range(u)
  BY <1>2, ConsOK, ConsFacts
<1>7. Ready(v)
  BY <1>6 DEF Ready
<1> HIDE DEF v
<1>8. StackOK(x) /\ Range(x) = {g} \cup Range(v) /\ x # <<>> /\ Head(x) = g
  BY <1>6, <1>7, ConsOK, ConsFacts
<1> HIDE DEF x
<1>9. Becomes(t, x)
  BY <1>5, <1>8, StackMove DEF Base
<1>10. stack'[t] = <<g>> \o (<<h>> \o Tail(stack[t]))
  BY <1>9 DEF Becomes, x, v, u
<1>11. Grows(stack[t], stack'[t], {g, h})
  BY <1>10 DEF Grows
<1> QED BY <1>2, <1>6, <1>8, <1>9, <1>10, <1>11 DEF StackStep, Becomes

LEMMA EachMoves ==
  ASSUME Base, NEW t \in Loops, Each(t)
  PROVE  LET f == Head(stack[t]) IN
         /\ f \in Frames /\ f \in Range(stack[t]) /\ f.at = "each"
         /\ UNCHANGED queue
         /\ \/ StackStep(t, {}) /\ f.todo = {} /\ UNCHANGED undefined
            \/ \E c \in f.todo :
                 LET g == Frame("test", c, {}, 0)
                     h == [f EXCEPT !.todo = @ \ {c}] IN
                 /\ StackStep(t, {g, h}) /\ g \in Frames /\ h \in Frames
                 /\ h.at = "each" /\ h.todo = f.todo \ {c} /\ h.arg = f.arg
                 /\ h.id = f.id /\ c \in Conns
                 /\ g \in Range(stack'[t]) /\ h \in Range(stack'[t])
                 /\ undefined' = (c \notin wired)
<1>1. PICK f : f = Head(stack[t])
  OBVIOUS
<1>2. /\ f \in Frames /\ f \in Range(stack[t]) /\ f.at = "each"
      /\ stack[t] # <<>>
  BY <1>1, TopIs DEF Each
<1>3. CASE f.todo = {} /\ Pop(t) /\ UNCHANGED undefined
  BY <1>1, <1>2, <1>3, PopMoves DEF Base, Each
<1>4. ASSUME NEW c \in f.todo,
             stack' = [stack EXCEPT ![t] =
               <<Frame("test", c, {}, 0), [f EXCEPT !.todo = @ \ {c}]>> \o Tail(@)]
      PROVE  LET g == Frame("test", c, {}, 0)
                 h == [f EXCEPT !.todo = @ \ {c}] IN
             /\ StackStep(t, {g, h}) /\ g \in Frames /\ h \in Frames
             /\ h.at = "each" /\ h.todo = f.todo \ {c} /\ h.arg = f.arg
             /\ h.id = f.id /\ c \in Conns
             /\ g \in Range(stack'[t]) /\ h \in Range(stack'[t])
  <2>1. PICK g : g = Frame("test", c, {}, 0)
    OBVIOUS
  <2>2. PICK h : h = [f EXCEPT !.todo = @ \ {c}]
    OBVIOUS
  <2>3. c \in Conns
    BY <1>2 DEF Frames
  <2>4. /\ g \in Frames /\ g.at = "test" /\ h \in Frames /\ h.at = "each"
        /\ h.todo = f.todo \ {c} /\ h.arg = f.arg /\ h.id = f.id
    <3>1. g \in Frames /\ g.at = "test"
      BY <2>1, <2>3, FrameTypes DEF ConnLabels
    <3>2. h \in Frames
      BY <1>2, <2>2, RelabelTypes
    <3>3. h.at = f.at /\ h.todo = f.todo \ {c} /\ h.arg = f.arg /\ h.id = f.id
      BY <1>2, <2>2, RelabelTypes
    <3> QED BY <1>2, <3>1, <3>2, <3>3
  <2>5. stack' = [stack EXCEPT ![t] = <<g, h>> \o Tail(@)]
    BY <1>4, <2>1, <2>2
  <2>6. /\ StackStep(t, {g, h}) /\ g \in Range(stack'[t])
        /\ h \in Range(stack'[t])
    <3>1. /\ g.at # "task" /\ h.at \in SuspendedLabels \ {"task"}
          /\ g.at \notin SignalLabels
      BY <2>4 DEF SuspendedLabels, SignalLabels
    <3> QED BY <1>2, <2>4, <2>5, <3>1, TwoMoves
  <2> QED BY <2>1, <2>2, <2>3, <2>4, <2>6
<1>5. CASE \E c \in f.todo :
             /\ stack' = [stack EXCEPT ![t] =
               <<Frame("test", c, {}, 0), [f EXCEPT !.todo = @ \ {c}]>> \o Tail(@)]
             /\ undefined' = (c \notin wired)
  BY <1>1, <1>2, <1>4, <1>5 DEF Each
<1> QED BY <1>1, <1>3, <1>5 DEF Each

(* The round of f goes on with connection c.                               *)
LooksAt(t, f, c) ==
  LET g == Frame("hand", c, {}, f.id)
      h == [f EXCEPT !.todo = @ \ {c}] IN
  /\ Container[f.arg] \in alive
  /\ c \in Conns /\ SignalOf[c] = f.arg
  /\ h \in Frames /\ h.at = f.at /\ h.arg = f.arg
  /\ h.todo = f.todo \ {c} /\ h.id = f.id
  /\ h \in Range(stack'[t])
  /\ \/ /\ c \in connects[f.arg] \cap connAlive
        /\ StackStep(t, {g, h}) /\ g \in Range(stack'[t])
     \/ /\ c \notin connects[f.arg] \cap connAlive
        /\ StackStep(t, {h})

LEMMA LookMoves ==
  ASSUME Base, NEW t \in Loops, NEW do \in SignalLabels, Look(t, do),
         NEW f, f = Head(stack[t])
  PROVE  /\ f \in Frames /\ f \in Range(stack[t]) /\ f.at = do
         /\ f.arg \in Signals
         /\ \/ /\ f.todo = {} \/ Container[f.arg] \notin alive
               /\ StackStep(t, {})
            \/ \E c \in f.todo : LooksAt(t, f, c)
<1>2. /\ f \in Frames /\ f \in Range(stack[t]) /\ f.at = do
      /\ stack[t] # <<>> /\ At(t, do)
  BY TopIs DEF Look
<1>3. f.arg \in Signals /\ \A c \in f.todo : c \in Conns /\ SignalOf[c] = f.arg
  BY <1>2 DEF Frames
<1>4. CASE f.todo = {} \/ Container[f.arg] \notin alive
  <2>1. StackStep(t, {})
    BY <1>2, <1>4, TopPops DEF Look
  <2> QED BY <1>2, <1>3, <1>4, <2>1
<1>5. CASE ~(f.todo = {} \/ Container[f.arg] \notin alive)
  <2>1. PICK c \in f.todo :
          LET rest == [f EXCEPT !.todo = @ \ {c}] IN
          stack' = [stack EXCEPT ![t] =
            (IF c \in connects[f.arg] \cap connAlive
               THEN <<Frame("hand", c, {}, f.id), rest>> ELSE <<rest>>)
              \o Tail(@)]
    BY <1>5 DEF Look
  <2>2. PICK g : g = Frame("hand", c, {}, f.id)
    OBVIOUS
  <2>3. PICK h : h = [f EXCEPT !.todo = @ \ {c}]
    OBVIOUS
  <2>4. g \in Frames /\ g.at = "hand"
    <3>1. f.id \in Nat /\ c \in Conns
      BY <1>2, <1>3 DEF Frames
    <3> QED BY <2>2, <3>1, FrameTypes
  <2>5. h \in Frames
    BY <1>2, <2>3, RelabelTypes
  <2>6. /\ h.at = do /\ h.todo = f.todo \ {c} /\ h.arg = f.arg
        /\ h.id = f.id
    BY <1>2, <2>3, RelabelTypes
  <2>7. /\ g.at # "task" /\ h.at \in SuspendedLabels \ {"task"} /\ h.at # "task"
        /\ g.at \notin SignalLabels
    BY <2>4, <2>6 DEF SuspendedLabels, SignalLabels
  <2>8. CASE c \in connects[f.arg] \cap connAlive
    <3>1. stack' = [stack EXCEPT ![t] = <<g, h>> \o Tail(@)]
      BY <2>1, <2>2, <2>3, <2>8
    <3>2. /\ StackStep(t, {g, h}) /\ g \in Range(stack'[t])
          /\ h \in Range(stack'[t])
      BY <1>2, <2>4, <2>5, <2>7, <3>1, TwoMoves
    <3> QED BY <1>2, <1>3, <1>5, <2>2, <2>3, <2>5, <2>6, <2>8, <3>2 DEF LooksAt
  <2>9. CASE c \notin connects[f.arg] \cap connAlive
    <3>1. stack' = [stack EXCEPT ![t] = <<h>> \o Tail(@)]
      BY <2>1, <2>3, <2>9
    <3>2. StackStep(t, {h}) /\ h \in Range(stack'[t])
      BY <1>2, <2>5, <2>7, <3>1, ReplaceMoves DEF Base
    <3> QED BY <1>2, <1>3, <1>5, <2>3, <2>5, <2>6, <2>9, <3>2 DEF LooksAt
  <2> QED BY <2>8, <2>9
<1> QED BY <1>4, <1>5

LEMMA HandMoves ==
  ASSUME Base, NEW t \in Loops, Hand(t)
  PROVE  LET f == Head(stack[t])
             c == f.arg
             r == ReceiverOf[c]
             l == IF r = Nil THEN receiverLoop[c] ELSE loop[r] IN
         /\ f \in Frames /\ f \in Range(stack[t]) /\ f.at = "hand"
         /\ c \in Conns
         /\ \/ /\ r \notin alive \cup {Nil}
               /\ StackStep(t, {}) /\ UNCHANGED <<queue, undefined>>
            \/ /\ r \in alive \cup {Nil} /\ l = signalLoop[SignalOf[c]]
               /\ LET g == [f EXCEPT !.at = "call"] IN
                  /\ g \in Frames /\ g.at = "call" /\ g.arg = c /\ g.id = f.id
                  /\ StackStep(t, {g}) /\ g \in Range(stack'[t])
                  /\ stack'[t] # <<>> /\ Head(stack'[t]) = g
               /\ UNCHANGED <<queue, undefined>>
            \/ /\ r \in alive \cup {Nil} /\ l # signalLoop[SignalOf[c]]
               /\ LET g == [f EXCEPT !.at = "wait"] IN
                  /\ StackStep(t, {g}) /\ g.at = "wait" /\ g.arg = c
                  /\ At(t, "wait")'
               /\ Posted(l, Task("slot", c, f.id, t))
               /\ undefined' \in BOOLEAN
            \/ /\ r \in alive \cup {Nil} /\ l # signalLoop[SignalOf[c]]
               /\ StackStep(t, {}) /\ Posted(l, Task("slot", c, f.id, Nil))
               /\ undefined' \in BOOLEAN
<1>1. PICK f : f = Head(stack[t])
  OBVIOUS
<1>2. PICK c, r, l : /\ c = f.arg /\ r = ReceiverOf[c]
                     /\ l = IF r = Nil THEN receiverLoop[c] ELSE loop[r]
  OBVIOUS
<1>3. /\ At(t, "hand") /\ f \in Frames /\ f \in Range(stack[t])
      /\ f.at = "hand" /\ c \in Conns /\ f.id \in Nat
  <2>1. At(t, "hand")
    BY DEF Hand
  <2>2. f \in Frames /\ f \in Range(stack[t]) /\ f.at = "hand"
    BY <1>1, <2>1, TopIs
  <2> QED BY <1>2, <2>1, <2>2 DEF Frames
<1>4. l \in Loops
  <2>1. c \in Known
    BY <1>2, <1>3 DEF Base, KnownInv, KnownCalls, KnownCall
  <2>2. r = Nil \/ r \in Objects
    BY <1>2, <1>3, PlaceTypes
  <2> QED BY <1>2, <2>1, <2>2 DEF Known, Base, TypeOK, ConnsOK, ObjectsOK
<1>5. CASE r \notin alive \cup {Nil}
  <2>1. Pop(t) /\ UNCHANGED <<queue, undefined>>
    BY <1>1, <1>2, <1>5 DEF Hand
  <2>2. StackStep(t, {})
    BY <1>3, <2>1, TopPops
  <2> QED BY <1>1, <1>2, <1>3, <1>5, <2>1, <2>2
<1>6. CASE r \in alive \cup {Nil} /\ l = signalLoop[SignalOf[c]]
  <2>1. Goto(t, "call") /\ UNCHANGED <<queue, undefined>>
    BY <1>1, <1>2, <1>6 DEF Hand
  <2>2. PICK g : g = [f EXCEPT !.at = "call"]
    OBVIOUS
  <2>3. /\ g \in Frames /\ g.at = "call" /\ g.arg = f.arg /\ g.id = f.id
        /\ StackStep(t, {g}) /\ g \in Range(stack'[t])
        /\ stack'[t] # <<>> /\ Head(stack'[t]) = g
    <3>1. "call" \in ConnLabels \cup {"wait"} /\ "call" # "enter"
      BY DEF ConnLabels
    <3>2. Goto(t, "call")
      BY <2>1
    <3>3. "hand" \in ConnLabels \cup {"hand"}
      OBVIOUS
    <3>4. At(t, "hand") /\ f = Head(stack[t])
      BY <1>1, <1>3
    <3> QED BY <2>2, <3>1, <3>2, <3>3, <3>4, RelabelMoves
  <2> QED BY <1>1, <1>2, <1>3, <1>6, <2>1, <2>2, <2>3
<1>7. CASE r \in alive \cup {Nil} /\ l # signalLoop[SignalOf[c]]
  <2>1. PICK sync \in BOOLEAN :
          /\ Post(l, Task("slot", c, f.id, IF sync THEN t ELSE Nil))
          /\ IF sync THEN Goto(t, "wait") ELSE Pop(t)
    <3> DEFINE s == stack[t][2].at = "dispatchSync" \/ c \in SyncConns
    <3>1. /\ Post(l, Task("slot", c, f.id, IF s THEN t ELSE Nil))
          /\ IF s THEN Goto(t, "wait") ELSE Pop(t)
      BY <1>1, <1>2, <1>7 DEF Hand
    <3>2. s \in BOOLEAN
      OBVIOUS
    <3> HIDE DEF s
    <3>3. CASE s
      <4>1. /\ Post(l, Task("slot", c, f.id, IF TRUE THEN t ELSE Nil))
            /\ IF TRUE THEN Goto(t, "wait") ELSE Pop(t)
        BY <3>1, <3>3
      <4> QED BY <4>1
    <3>4. CASE ~s
      <4>1. /\ Post(l, Task("slot", c, f.id, IF FALSE THEN t ELSE Nil))
            /\ IF FALSE THEN Goto(t, "wait") ELSE Pop(t)
        BY <3>1, <3>4
      <4> QED BY <4>1
    <3> QED BY <3>3, <3>4
  <2>2. undefined' \in BOOLEAN
    <3>1. undefined' = (stack[t][2].at = "dispatchSync" /\ r = Nil)
      BY <1>1, <1>2, <1>7 DEF Hand
    <3> QED BY <3>1
  <2>3. Task("slot", c, f.id, IF sync THEN t ELSE Nil) \in Tasks
    BY <1>3, TaskTypes
  <2>4. Posted(l, Task("slot", c, f.id, IF sync THEN t ELSE Nil))
    BY <1>4, <2>1, <2>3, PostMoves
  <2>5. CASE sync
    <3>1. PICK g : g = [f EXCEPT !.at = "wait"]
      OBVIOUS
    <3>2. /\ StackStep(t, {g}) /\ g.at = "wait" /\ g.arg = f.arg
          /\ stack'[t] # <<>> /\ Head(stack'[t]) = g
      <4>1. Goto(t, "wait")
        BY <2>1, <2>5
      <4>2. "wait" # "enter"
        OBVIOUS
      <4> QED BY <1>1, <1>3, <3>1, <4>1, <4>2, RelabelMoves
    <3>3. At(t, "wait")'
      BY <3>2 DEF At
    <3> QED BY <1>1, <1>2, <1>3, <1>7, <2>2, <2>4, <2>5, <3>1, <3>2, <3>3
  <2>6. CASE ~sync
    <3>1. StackStep(t, {})
      BY <1>3, <2>1, <2>6, TopPops
    <3> QED BY <1>1, <1>2, <1>3, <1>7, <2>2, <2>4, <2>6, <3>1
  <2> QED BY <2>5, <2>6
<1> QED BY <1>1, <1>2, <1>5, <1>6, <1>7

LEMMA EnterMoves ==
  ASSUME Base, NEW t \in Loops, Enter(t)
  PROVE  LET f == Head(stack[t])
             c == f.arg IN
         /\ f \in Frames /\ f \in Range(stack[t]) /\ f.at = "enter"
         /\ c \in Conns /\ ReceiverOf[c] \in Objects
         /\ \E g \in Frames :
              /\ g.at = "wire" /\ g.arg = c /\ g.todo = f.todo
              /\ StackStep(t, {g}) /\ g \in Range(stack'[t])
         /\ IF loop[ReceiverOf[c]] = t THEN EnterReceiver(c) /\ UNCHANGED queue
            ELSE /\ Posted(loop[ReceiverOf[c]], Task("enter", c, 0, Nil))
                 /\ UNCHANGED asReceiver
<1>1. PICK f : f = Head(stack[t])
  OBVIOUS
<1>2. PICK c : c = f.arg
  OBVIOUS
<1>3. At(t, "enter") /\ Goto(t, "wire") /\ Arg(t) = c
  BY <1>1, <1>2 DEF Enter, Arg
<1>4. PICK g : g = [f EXCEPT !.at = "wire"]
  OBVIOUS
<1>5. /\ f \in Frames /\ f \in Range(stack[t]) /\ f.at = "enter"
      /\ c \in Conns /\ g \in Frames /\ g.at = "wire" /\ g.arg = c
      /\ g.todo = f.todo /\ StackStep(t, {g}) /\ g \in Range(stack'[t])
  <2>1. /\ "enter" \in ConnLabels \cup {"hand"}
        /\ "wire" \in ConnLabels \cup {"wait"} /\ "wire" # "enter"
    BY DEF ConnLabels
  <2>2. At(t, "enter") /\ Goto(t, "wire")
    BY <1>3
  <2>3. /\ f \in Frames /\ f \in Range(stack[t]) /\ f.at = "enter"
        /\ f.arg \in Conns /\ g \in Frames /\ g.at = "wire" /\ g.arg = f.arg
        /\ g.todo = f.todo /\ StackStep(t, {g}) /\ g \in Range(stack'[t])
    BY <1>1, <1>4, <2>1, <2>2, RelabelMoves, SMTT(30)
  <2> QED BY <1>2, <2>3
<1>6. ReceiverOf[c] \in Objects /\ loop[ReceiverOf[c]] \in Loops
      /\ ReceiverOf[c] # Nil
  <2>1. ReceiverOf[c] # Nil
    BY <1>2, <1>5 DEF Frames
  <2> QED BY <1>5, <2>1, PlaceTypes
<1>7. IF loop[ReceiverOf[c]] = t THEN EnterReceiver(c) /\ UNCHANGED queue
      ELSE /\ Posted(loop[ReceiverOf[c]], Task("enter", c, 0, Nil))
           /\ UNCHANGED asReceiver
  BY <1>3, <1>5, <1>6, TaskTypes, PostMoves DEF Enter
<1> QED BY <1>1, <1>2, <1>5, <1>6, <1>7

LEMMA WireMoves ==
  ASSUME Base, NEW t \in Loops, Wire(t)
  PROVE  LET f == Head(stack[t]) IN
         /\ f \in Frames /\ f \in Range(stack[t]) /\ f.at = "wire"
         /\ f.arg \in Conns /\ Arg(t) = f.arg
         /\ StackStep(t, {}) /\ UNCHANGED queue
<1>1. At(t, "wire") /\ Pop(t)
  BY DEF Wire
<1>2. Head(stack[t]).arg \in Conns
  BY <1>1, TopIs DEF Frames, ConnLabels
<1> QED BY <1>1, <1>2, TopIs, TopPops DEF Wire

LEMMA TestMoves ==
  ASSUME Base, NEW t \in Loops, Test(t)
  PROVE  LET f == Head(stack[t]) IN
         /\ f \in Frames /\ f \in Range(stack[t]) /\ f.at = "test"
         /\ f.arg \in Conns
         /\ \/ /\ f.arg \in connAlive
               /\ \E g \in Frames :
                    /\ g.at = "sender" /\ g.arg = f.arg /\ g.todo = f.todo
                    /\ StackStep(t, {g}) /\ g \in Range(stack'[t])
            \/ f.arg \notin connAlive /\ StackStep(t, {})
<1>1. PICK f : f = Head(stack[t])
  OBVIOUS
<1>2. At(t, "test") /\ Arg(t) = f.arg
  BY <1>1 DEF Test, Arg
<1>3. f \in Frames /\ f \in Range(stack[t]) /\ f.at = "test" /\ f.arg \in Conns
  BY <1>1, <1>2, TopIs DEF Frames, ConnLabels
<1>4. CASE f.arg \in connAlive
  <2>1. Goto(t, "sender")
    BY <1>2, <1>4 DEF Test
  <2>2. PICK g : g = [f EXCEPT !.at = "sender"]
    OBVIOUS
  <2>3. /\ g \in Frames /\ g.at = "sender" /\ g.arg = f.arg
        /\ g.todo = f.todo /\ StackStep(t, {g}) /\ g \in Range(stack'[t])
    <3>1. /\ "test" \in ConnLabels \cup {"hand"}
          /\ "sender" \in ConnLabels \cup {"wait"} /\ "sender" # "enter"
      BY DEF ConnLabels
    <3> QED BY <1>1, <1>2, <2>1, <2>2, <3>1, RelabelMoves
  <2> QED BY <1>1, <1>3, <1>4, <2>3
<1>5. CASE f.arg \notin connAlive
  <2>1. Pop(t)
    BY <1>2, <1>5 DEF Test
  <2> QED BY <1>1, <1>2, <1>3, <1>5, <2>1, TopPops
<1> QED BY <1>4, <1>5

LEMMA LeaveSenderMoves ==
  ASSUME Base, NEW t \in Loops, LeaveSender(t)
  PROVE  LET f == Head(stack[t])
             c == f.arg IN
         /\ f \in Frames /\ f \in Range(stack[t]) /\ f.at = "sender"
         /\ c \in Conns /\ connAlive' = connAlive \ {c}
         /\ \E g \in Frames :
              /\ g.at = "receiver" /\ g.arg = c /\ g.todo = f.todo
              /\ StackStep(t, {g}) /\ g \in Range(stack'[t])
         /\ IF Sender(c) \in alive
              THEN Posted(loop[Sender(c)], Task("unregister", c, 0, Nil))
              ELSE UNCHANGED queue
<1>1. PICK f : f = Head(stack[t])
  OBVIOUS
<1>2. PICK c : c = f.arg
  OBVIOUS
<1>3. At(t, "sender") /\ Goto(t, "receiver") /\ Arg(t) = c
      /\ connAlive' = connAlive \ {c}
  BY <1>1, <1>2 DEF LeaveSender, Arg
<1>4. PICK g : g = [f EXCEPT !.at = "receiver"]
  OBVIOUS
<1>5. /\ f \in Frames /\ f \in Range(stack[t]) /\ f.at = "sender"
      /\ c \in Conns /\ g \in Frames /\ g.at = "receiver" /\ g.arg = c
      /\ g.todo = f.todo /\ StackStep(t, {g}) /\ g \in Range(stack'[t])
  <2>1. /\ "sender" \in ConnLabels \cup {"hand"}
        /\ "receiver" \in ConnLabels \cup {"wait"} /\ "receiver" # "enter"
    BY DEF ConnLabels
  <2>2. At(t, "sender") /\ Goto(t, "receiver")
    BY <1>3
  <2>3. /\ f \in Frames /\ f \in Range(stack[t]) /\ f.at = "sender"
        /\ f.arg \in Conns /\ g \in Frames /\ g.at = "receiver" /\ g.arg = f.arg
        /\ g.todo = f.todo /\ StackStep(t, {g}) /\ g \in Range(stack'[t])
    BY <1>1, <1>4, <2>1, <2>2, RelabelMoves
  <2> QED BY <1>2, <2>3
<1>6. IF Sender(c) \in alive
        THEN Posted(loop[Sender(c)], Task("unregister", c, 0, Nil))
        ELSE UNCHANGED queue
  BY <1>3, <1>5, TaskTypes, PlaceTypes, PostMoves DEF LeaveSender
<1> QED BY <1>1, <1>2, <1>3, <1>5, <1>6

LEMMA LeaveReceiverMoves ==
  ASSUME Base, NEW t \in Loops, LeaveReceiver(t)
  PROVE  LET f == Head(stack[t])
             c == f.arg IN
         /\ f \in Frames /\ f \in Range(stack[t]) /\ f.at = "receiver"
         /\ c \in Conns /\ StackStep(t, {})
         /\ entered' = IF ReceiverOf[c] # Nil THEN entered
                       ELSE [entered EXCEPT ![receiverLoop[c]] = @ \ {c}]
         /\ IF ReceiverOf[c] \in alive
              THEN Posted(loop[ReceiverOf[c]], Task("leave", c, 0, Nil))
              ELSE UNCHANGED queue
<1>1. PICK f : f = Head(stack[t])
  OBVIOUS
<1>2. PICK c : c = f.arg
  OBVIOUS
<1>3. At(t, "receiver") /\ Pop(t) /\ Arg(t) = c
  BY <1>1, <1>2 DEF LeaveReceiver, Arg
<1>4. /\ f \in Frames /\ f \in Range(stack[t]) /\ f.at = "receiver"
      /\ c \in Conns
  BY <1>1, <1>2, <1>3, TopIs DEF Frames, ConnLabels
<1>5. IF ReceiverOf[c] \in alive
        THEN Posted(loop[ReceiverOf[c]], Task("leave", c, 0, Nil))
        ELSE UNCHANGED queue
  <2>1. CASE ReceiverOf[c] \in alive
    <3>1. ReceiverOf[c] # Nil /\ loop[ReceiverOf[c]] \in Loops
      BY <1>4, <2>1, PlaceTypes
    <3> QED BY <1>3, <1>4, <2>1, <3>1, TaskTypes, PostMoves DEF LeaveReceiver
  <2>2. CASE ReceiverOf[c] \notin alive
    BY <1>3, <2>2 DEF LeaveReceiver
  <2> QED BY <2>1, <2>2
<1>6. StackStep(t, {})
  BY <1>3, TopPops
<1>7. entered' = IF ReceiverOf[c] # Nil THEN entered
                 ELSE [entered EXCEPT ![receiverLoop[c]] = @ \ {c}]
  BY <1>3 DEF LeaveReceiver
<1> QED BY <1>1, <1>2, <1>4, <1>5, <1>6, <1>7

LEMMA CallSlotMoves ==
  ASSUME Base, NEW t \in Loops, CallSlot(t)
  PROVE  LET f == Head(stack[t])
             c == f.arg IN
         /\ f \in Frames /\ f \in Range(stack[t]) /\ f.at = "call"
         /\ c \in Conns /\ UNCHANGED queue
         /\ ran' = [ran EXCEPT ![c] = @ \cup {f.id}]
         /\ \E g \in Frames :
              /\ g.at = "slot" /\ g.arg = c /\ g.todo = f.todo
              /\ StackStep(t, {g}) /\ g \in Range(stack'[t])
<1>1. PICK f : f = Head(stack[t])
  OBVIOUS
<1>2. PICK c : c = f.arg
  OBVIOUS
<1>3. At(t, "call") /\ Goto(t, "slot") /\ UNCHANGED queue
      /\ ran' = [ran EXCEPT ![c] = @ \cup {f.id}]
  BY <1>1, <1>2 DEF CallSlot, Arg
<1>4. PICK g : g = [f EXCEPT !.at = "slot"]
  OBVIOUS
<1>5. /\ f \in Frames /\ f \in Range(stack[t]) /\ f.at = "call"
      /\ c \in Conns /\ g \in Frames /\ g.at = "slot" /\ g.arg = c
      /\ g.todo = f.todo /\ StackStep(t, {g}) /\ g \in Range(stack'[t])
  <2>1. /\ "call" \in ConnLabels \cup {"hand"}
        /\ "slot" \in ConnLabels \cup {"wait"} /\ "slot" # "enter"
    BY DEF ConnLabels
  <2>2. At(t, "call") /\ Goto(t, "slot")
    BY <1>3
  <2>3. /\ f \in Frames /\ f \in Range(stack[t]) /\ f.at = "call"
        /\ f.arg \in Conns /\ g \in Frames /\ g.at = "slot" /\ g.arg = f.arg
        /\ g.todo = f.todo /\ StackStep(t, {g}) /\ g \in Range(stack'[t])
    BY <1>1, <1>4, <2>1, <2>2, RelabelMoves
  <2> QED BY <1>2, <2>3
<1> QED BY <1>1, <1>2, <1>3, <1>5

LEMMA EndSlotMoves ==
  ASSUME Base, NEW t \in Loops, EndSlot(t)
  PROVE  /\ Head(stack[t]) \in Range(stack[t]) /\ Head(stack[t]).at = "slot"
         /\ StackStep(t, {}) /\ UNCHANGED queue
BY TopIs, TopPops DEF EndSlot

(* Only here another thread's calls change: it waits no longer.            *)
LEMMA ReturnMoves ==
  ASSUME Base, NEW t \in Loops, Return(t)
  PROVE  /\ StackInv' /\ TokenInv' /\ UNCHANGED queue
         /\ At(t, "task") /\ stack'[t] = <<>>
         /\ \A l \in Loops : Range(stack'[l]) \subseteq Range(stack[l])
         /\ \A l \in Loops : \A f \in Range(stack[l]) :
              f \in Range(stack'[l]) \/ f.at \in {"task", "wait"}
         /\ \A l \in Loops : \A label : At(l, label) =>
              label \in {"task", "wait"} \/ stack'[l] = stack[l]
         /\ \A l \in Loops : \/ stack'[l] = stack[l]
                             \/ stack[l] # <<>> /\ stack'[l] = Tail(stack[l])
<1>1. PICK u : u = Arg(t)
  OBVIOUS
<1>2. /\ At(t, "task") /\ UNCHANGED queue
      /\ stack' = [l \in Loops |-> IF l = t \/ l = u THEN Tail(stack[l])
                                   ELSE stack[l]]
  BY <1>1 DEF Return
<1>3. PICK f : f = Head(stack[t])
  OBVIOUS
<1>4. /\ f \in Frames /\ f \in Range(stack[t]) /\ f.at = "task"
      /\ f.arg = u /\ stack[t] # <<>> /\ u \in Loops \cup {Nil}
  BY <1>1, <1>2, <1>3, TopIs DEF Frames
<1>5. \A l \in Loops : StackOK(stack[l]) /\ stack[l] \in Seq(Frames)
  BY DEF Base, StackInv
<1>6. Tail(stack[t]) = <<>>
  BY <1>3, <1>4, <1>5, TailOK
<1>7. u \in Loops => Bottomed(t, u) /\ At(u, "wait") /\ u # t
  BY <1>2, <1>4 DEF Base, TokenInv, Awaited, Bottomed, At
<1>8. ASSUME NEW l \in Loops
      PROVE  /\ StackOK(stack'[l]) /\ Range(stack'[l]) \subseteq Range(stack[l])
             /\ \A g \in Range(stack[l]) :
                  g \in Range(stack'[l]) \/ g.at \in {"task", "wait"}
             /\ \/ stack'[l] = stack[l]
                \/ stack[l] # <<>> /\ stack'[l] = Tail(stack[l])
  <2>1. CASE l = t \/ l = u
    <3>1. stack[l] # <<>> /\ Head(stack[l]).at \in {"task", "wait"}
      BY <1>2, <1>4, <1>7, <2>1 DEF At
    <3>2. stack'[l] = Tail(stack[l])
      BY <1>2, <2>1
    <3> QED BY <1>5, <3>1, <3>2, TailOK, HeadTailFacts
  <2>2. CASE ~(l = t \/ l = u)
    BY <1>2, <1>5, <2>2
  <2> QED BY <2>1, <2>2
<1>9. stack' \in [Loops -> Seq(Frames)]
  <2>1. \A l \in Loops : stack'[l] \in Seq(Frames)
    BY <1>8 DEF StackOK
  <2> QED BY <1>2, <2>1
<1>10. StackInv'
  <2>1. ASSUME NEW l \in Loops PROVE StackOK(stack[l])'
    <3>1. StackOK(stack'[l])
      BY <1>8
    <3> QED BY <3>1 DEF StackOK
  <2> QED BY <1>9, <2>1 DEF StackInv
<1>11. stack'[t] = <<>>
  BY <1>2, <1>6
<1>12. TokenInv'
  <2>1. \A l, v \in Loops : Bottomed(l, v)' => Bottomed(l, v)
    BY <1>8 DEF Bottomed
  <2>2. \A l, v \in Loops : Token(l, v)' => Token(l, v)
    BY <1>2 DEF Token
  <2>3. \A l, v \in Loops : Awaited(l, v)' => Awaited(l, v) /\ v # u
    <3>1. ASSUME NEW l \in Loops, u \in Loops, Awaited(l, u)' PROVE FALSE
      <4>1. Awaited(l, u) /\ Awaited(t, u)
        BY <1>7, <2>1, <2>2, <3>1 DEF Awaited
      <4>2. l = t
        BY <3>1, <4>1 DEF Base, TokenInv
      <4>3. ~Bottomed(l, u)'
        BY <1>11, <4>2 DEF Bottomed, Range
      <4>4. ~Token(l, u)'
        BY <1>7, <2>2, <3>1, <4>2 DEF Base, TokenInv
      <4> QED BY <3>1, <4>3, <4>4 DEF Awaited
    <3> QED BY <2>1, <2>2, <3>1 DEF Awaited
  <2>4. \A v \in Loops : At(v, "wait") /\ v # u => At(v, "wait")'
    BY <1>2, <1>4, <1>3 DEF At
  <2>5. (\A l \in Loops : Once(queue[l]))'
    BY <1>2 DEF Base, TokenInv
  <2>6. \A l, v \in Loops : ~(Token(l, v)' /\ Bottomed(l, v)')
    BY <2>1, <2>2 DEF Base, TokenInv
  <2> QED BY <2>3, <2>4, <2>5, <2>6 DEF Base, TokenInv
<1>13. ASSUME NEW l \in Loops, NEW label, At(l, label)
       PROVE  label \in {"task", "wait"} \/ stack'[l] = stack[l]
  BY <1>2, <1>3, <1>4, <1>7, <1>13 DEF At
<1> QED BY <1>2, <1>8, <1>10, <1>11, <1>12, <1>13
-----------------------------------------------------------------------------
(* The invariant these steps rest on is kept by all of them.               *)

KnownStep(t, F, K) ==
  /\ StackStep(t, F) /\ \A f \in F : KnownCall(f, K)
  /\ \/ UNCHANGED queue \/ Taken(t)
     \/ \E l, e : Posted(l, e) /\ KnownTask(e, K)

LEMMA StepKnown ==
  ASSUME Base, NEW t \in Loops, NEW F, KnownStep(t, F, Known'),
         Known \subseteq Known'
  PROVE  /\ queue' \in [Loops -> Seq(Tasks)] /\ StackInv'
         /\ (stack \in [Loops -> Seq(Frames)])' /\ KnownCalls'
<1>1. queue' \in [Loops -> Seq(Tasks)] /\ StackInv'
  BY DEF KnownStep, StackStep, Posted, Taken, Base, TypeOK
<1>2. (stack \in [Loops -> Seq(Frames)])'
  BY <1>1 DEF StackInv
<1> DEFINE K == Known'
<1>3. /\ \A l \in Loops : \A f \in Range(stack[l]) : KnownCall(f, Known)
      /\ \A l \in Loops : \A e \in Range(queue[l]) : KnownTask(e, Known)
      /\ Known \subseteq K
  BY DEF Base, KnownInv, KnownCalls
<1> HIDE DEF K
<1>4. \A f : KnownCall(f, Known) => KnownCall(f, K)
  BY <1>3 DEF KnownCall
<1>5. \A e : KnownTask(e, Known) => KnownTask(e, K)
  BY <1>3 DEF KnownTask
<1>6. \A l \in Loops : \A f \in Range(stack'[l]) : KnownCall(f, K)
  BY <1>3, <1>4 DEF KnownStep, StackStep, K
<1>7. \A l \in Loops : \A e \in Range(queue'[l]) : KnownTask(e, K)
  <2>1. CASE UNCHANGED queue
    BY <1>3, <1>5, <2>1
  <2>2. CASE Taken(t)
    BY <1>3, <1>5, <2>2 DEF Taken
  <2>3. CASE \E l, e : Posted(l, e) /\ KnownTask(e, Known')
    BY <1>3, <1>5, <2>3 DEF Posted, K
  <2> QED BY <2>1, <2>2, <2>3 DEF KnownStep
<1>8. KnownCalls'
  BY <1>6, <1>7 DEF KnownCalls, K, KnownCall, KnownTask
<1> QED BY <1>1, <1>2, <1>8

Silent(t, F) ==
  /\ ~At(t, "wait") /\ \A f \in F : f.at # "task"
  /\ \/ UNCHANGED queue \/ Taken(t)
     \/ \E l, e : Posted(l, e) /\ e.sync = Nil

Calm == queue' \in [Loops -> Seq(Tasks)] /\ StackInv' /\ TokenInv' /\ KnownCalls'

LEMMA StepKept ==
  ASSUME Base, NEW t \in Loops, NEW F, KnownStep(t, F, Known'),
         Known \subseteq Known', Silent(t, F)
  PROVE  Calm
<1>1. TokenInv'
  BY TokenKept DEF KnownStep, Silent
<1> QED BY <1>1, StepKnown DEF Calm

LEMMA BaseFrom ==
  ASSUME Calm, ObjectsOK', SignalsOK', ConnsOK', LogOK', KnownSets'
  PROVE  Base'
<1>1. (stack \in [Loops -> Seq(Frames)])'
  BY DEF Calm, StackInv
<1>2. (queue \in [Loops -> Seq(Tasks)])'
  BY DEF Calm
<1> QED BY <1>1, <1>2 DEF Calm, Base, TypeOK, KnownInv

LEMMA ObjectsKept == ObjectsOK /\ UNCHANGED objVars => ObjectsOK'
BY DEF ObjectsOK, objVars

LEMMA SignalsKept == SignalsOK /\ UNCHANGED sigVars => SignalsOK'
BY DEF SignalsOK, sigVars

LEMMA ConnsKept == ConnsOK /\ UNCHANGED connVars => ConnsOK'
BY DEF ConnsOK, connVars

LEMMA LogKept ==
  LogOK /\ UNCHANGED emitVars /\ calls' \in 0 .. MaxCalls /\ undefined' \in BOOLEAN
    => LogOK'
BY DEF LogOK, emitVars

LEMMA SetsKept ==
  ASSUME KnownSets, UNCHANGED <<connAlive, wired, connects, asSender, asReceiver,
                                receiverLoop>>
  PROVE  KnownSets' /\ Known' = Known
BY DEF KnownSets, Known

LEMMA CalmUnchanged ==
  ASSUME Base, UNCHANGED loopVars, UNCHANGED receiverLoop
  PROVE  Calm
<1>1. queue' = queue /\ stack' = stack /\ Known' = Known
  BY DEF loopVars, Known
<1>2. StackInv'
  BY <1>1 DEF Base, StackInv, StackOK
<1>3. TokenInv'
  BY <1>1 DEF Base, TokenInv, Once, Awaited, Token, Bottomed, At
<1>4. KnownCalls'
  BY <1>1 DEF Base, KnownInv, KnownCalls, KnownCall, KnownTask
<1> QED BY <1>1, <1>2, <1>3, <1>4 DEF Calm, Base, TypeOK

LEMMA ConnectBase ==
  ASSUME Base, NEW t \in Loops, NEW c \in Conns, Connect(t, c)
  PROVE  Base'
<1> DEFINE g == Frame(IF ReceiverOf[c] = Nil THEN "wire" ELSE "enter", c, {}, 0)
           e == Task("register", c, 0, Nil)
<1>0. /\ t # Nil /\ Known \subseteq Known' /\ c \in Known'
      /\ receiverLoop' \in [Conns -> Loops \cup {Nil}]
  <2>1. t # Nil
    BY PlaceTypes
  <2>2. receiverLoop' = [receiverLoop EXCEPT ![c] = t]
        /\ receiverLoop \in [Conns -> Loops \cup {Nil}]
    BY DEF Connect, Base, TypeOK, ConnsOK
  <2> QED BY <2>1, <2>2 DEF Known
<1>1. Calm
  <2>1. /\ g.at # "task" /\ g.todo = {} /\ g.arg = c
        /\ e.arg = c /\ e.sync = Nil
    BY FrameTypes, TaskTypes
  <2>2. ~At(t, "wait")
    BY MayFacts DEF Connect
  <2>3. /\ StackStep(t, {g})
        /\ UNCHANGED queue \/ Posted(loop[Sender(c)], e)
    BY ConnectMoves
  <2> HIDE DEF g, e
  <2>4. KnownCall(g, Known') /\ KnownTask(e, Known')
    BY <1>0, <2>1 DEF KnownCall, KnownTask
  <2>5. KnownStep(t, {g}, Known')
    BY <2>3, <2>4 DEF KnownStep
  <2>6. Silent(t, {g})
    BY <2>1, <2>2, <2>3 DEF Silent
  <2> QED BY <1>0, <2>5, <2>6, StepKept
<1>2. Sender(c) \in Objects /\ SignalOf[c] \in Signals /\ loop[Sender(c)] \in Loops
  BY PlaceTypes
<1>3. CASE loop[Sender(c)] = t /\ Sender(c) \in alive
  <2>1. /\ signalLoop' = [signalLoop EXCEPT ![SignalOf[c]] = loop[Sender(c)]]
        /\ asSender' = [asSender EXCEPT ![Sender(c)] = @ \cup {c}]
        /\ connects' = [connects EXCEPT ![SignalOf[c]] = @ \cup {c}]
        /\ entered' = [l \in Loops |->
              IF ReceiverOf[c] = Nil /\ t = l
                THEN entered[l] \cup {c} ELSE entered[l]]
    BY <1>3 DEF Connect, Register
  <2>2. ObjectsOK'
    BY <1>2, <2>1 DEF Base, TypeOK, ObjectsOK, Connect
  <2>3. SignalsOK'
    BY <1>2, <2>1 DEF Base, TypeOK, SignalsOK
  <2>4. ConnsOK'
    BY <1>0, <2>1 DEF Base, TypeOK, ConnsOK, Connect
  <2>5. KnownSets'
    <3>1. /\ \A s \in Signals : connects'[s] \subseteq connects[s] \cup {c}
          /\ \A o \in Objects : asSender'[o] \subseteq asSender[o] \cup {c}
      BY <1>2, <2>1 DEF Base, TypeOK, SignalsOK, ObjectsOK
    <3> QED BY <1>0, <3>1 DEF Base, KnownInv, KnownSets, Connect
  <2>6. LogOK'
    BY MayFacts DEF Connect, Base, TypeOK, LogOK, emitVars
  <2> QED BY <1>1, <2>2, <2>3, <2>4, <2>5, <2>6, BaseFrom
<1>4. CASE ~(loop[Sender(c)] = t /\ Sender(c) \in alive)
  <2>1. UNCHANGED <<signalLoop, connects, asSender, entered>>
    BY <1>4 DEF Connect, Register, sigVars
  <2>2. ObjectsOK' /\ SignalsOK'
    BY <2>1 DEF Base, TypeOK, ObjectsOK, SignalsOK, Connect
  <2>3. ConnsOK'
    BY <1>0, <2>1 DEF Base, TypeOK, ConnsOK, Connect
  <2>4. KnownSets'
    BY <1>0, <2>1 DEF Base, KnownInv, KnownSets, Connect
  <2>5. LogOK'
    BY MayFacts DEF Connect, Base, TypeOK, LogOK, emitVars
  <2> QED BY <1>1, <2>2, <2>3, <2>4, <2>5, BaseFrom
<1> QED BY <1>3, <1>4

(* A step that changes no set of connections.                              *)
LEMMA PlainBase ==
  ASSUME Base, Calm, UNCHANGED <<objVars, sigVars, connVars>>, LogOK'
  PROVE  Base'
<1>1. ObjectsOK' /\ SignalsOK' /\ ConnsOK'
  BY ObjectsKept, SignalsKept, ConnsKept DEF Base, TypeOK
<1>2. KnownSets'
  BY SetsKept DEF Base, KnownInv, objVars, sigVars, connVars
<1> QED BY <1>1, <1>2, BaseFrom

LEMMA SameLog ==
  ASSUME Base, UNCHANGED <<logVars, undefined>>
  PROVE  LogOK'
BY DEF Base, TypeOK, LogOK, logVars, emitVars

LEMMA SameKnown == UNCHANGED connVars => Known' = Known
BY DEF connVars, Known

LEMMA UserPushBase ==
  ASSUME Base, NEW t \in Loops, NEW op, NEW arg, May(t, op, arg),
         NEW g, KnownCall(g, Known), g.at # "task", StackStep(t, {g}),
         UNCHANGED queue, UNCHANGED receiverLoop
  PROVE  Calm
<1>1. ~At(t, "wait")
  BY MayFacts
<1>2. Known' = Known
  BY DEF Known
<1>3. KnownStep(t, {g}, Known') /\ Silent(t, {g})
  BY <1>1, <1>2 DEF KnownStep, Silent
<1> QED BY <1>2, <1>3, StepKept

LEMMA DisconnectBase ==
  ASSUME Base, NEW t \in Loops, NEW c \in Conns, Disconnect(t, c)
  PROVE  Base'
<1> DEFINE g == Frame("test", c, {}, 0)
<1>1. g.at # "task" /\ g.todo = {} /\ g.arg = c /\ c \in Known
  BY FrameTypes DEF Disconnect, Base, KnownInv, KnownSets
<1>2. StackStep(t, {g}) /\ UNCHANGED queue
  BY DisconnectMoves
<1> HIDE DEF g
<1>3. KnownCall(g, Known)
  BY <1>1 DEF KnownCall
<1>4. Calm
  BY <1>1, <1>2, <1>3, UserPushBase DEF Disconnect, connVars
<1>5. LogOK'
  BY MayFacts DEF Disconnect, Base, TypeOK, LogOK, emitVars
<1> QED BY <1>4, <1>5, PlainBase DEF Disconnect

LEMMA DestroyBase ==
  ASSUME Base, NEW t \in Loops, NEW o \in Objects, Destroy(t, o)
  PROVE  Base'
<1> DEFINE g == Frame("each", o, asSender[o] \cup asReceiver[o], 0)
<1>1. /\ g.at = "each" /\ g.todo \subseteq Known
  BY FrameTypes DEF Base, KnownInv, KnownSets
<1>2. StackStep(t, {g}) /\ UNCHANGED queue
  BY DestroyMoves
<1> HIDE DEF g
<1>3. KnownCall(g, Known)
  BY <1>1 DEF KnownCall, ConnLabels
<1>4. Calm
  BY <1>1, <1>2, <1>3, UserPushBase DEF Destroy, connVars
<1>5. LogOK'
  BY MayFacts DEF Destroy, Base, TypeOK, LogOK, emitVars
<1>6. ObjectsOK'
  BY DEF Destroy, Base, TypeOK, ObjectsOK
<1>7. SignalsOK' /\ ConnsOK'
  BY SignalsKept, ConnsKept DEF Destroy, Base, TypeOK
<1>8. KnownSets'
  BY SetsKept DEF Destroy, Base, KnownInv, sigVars, connVars
<1> QED BY <1>4, <1>5, <1>6, <1>7, <1>8, BaseFrom

LEMMA DisconnectQueryBase ==
  ASSUME Base, NEW t \in Loops, NEW q, DisconnectQuery(t, q)
  PROVE  Base'
<1> DEFINE g == Frame("each", q.object, Chosen(q), 0)
           e == Task("query", q, 0, Nil)
<1>1. /\ q \in Query
      /\ \/ StackStep(t, {g}) /\ UNCHANGED queue
         \/ StackStep(t, {}) /\ Posted(loop[q.object], e)
  BY DisconnectQueryMoves
<1>2. g.at = "each" /\ g.todo \subseteq Known
  BY <1>1, FrameTypes, ChosenIn DEF Base, KnownInv, KnownSets
<1>3. e.do = "query" /\ e.sync = Nil
  BY TaskTypes
<1> HIDE DEF g, e
<1>4. KnownCall(g, Known) /\ KnownTask(e, Known)
  BY <1>2, <1>3 DEF KnownCall, KnownTask, ConnLabels
<1>5. UNCHANGED receiverLoop /\ May(t, "query", q) /\ Known' = Known
  BY DEF DisconnectQuery, connVars, Known
<1>6. Calm
  <2>1. CASE StackStep(t, {g}) /\ UNCHANGED queue
    BY <1>2, <1>4, <1>5, <2>1, UserPushBase
  <2>2. CASE StackStep(t, {}) /\ Posted(loop[q.object], e)
    <3>1. KnownStep(t, {}, Known') /\ Silent(t, {})
      BY <1>3, <1>4, <1>5, <2>2, MayFacts DEF KnownStep, Silent
    <3> QED BY <1>5, <3>1, StepKept
  <2> QED BY <1>1, <2>1, <2>2
<1>7. LogOK'
  BY <1>5, MayFacts DEF DisconnectQuery, Base, TypeOK, LogOK, emitVars
<1> QED BY <1>6, <1>7, PlainBase DEF DisconnectQuery

LEMMA MoveBase ==
  ASSUME Base, NEW t \in Loops, NEW o \in Objects, NEW l \in Loops,
         MoveToLoop(t, o, l)
  PROVE  Base'
<1>1. Calm
  BY CalmUnchanged DEF MoveToLoop, connVars
<1>2. ObjectsOK'
  BY DEF MoveToLoop, Base, TypeOK, ObjectsOK
<1>3. SignalsOK'
  BY DEF MoveToLoop, Base, TypeOK, SignalsOK
<1>4. ConnsOK'
  BY ConnsKept DEF MoveToLoop, Base, TypeOK
<1>5. LogOK'
  BY MayFacts DEF MoveToLoop, Base, TypeOK, LogOK, emitVars
<1>6. KnownSets'
  BY SetsKept DEF MoveToLoop, Base, KnownInv, connVars
<1> QED BY <1>1, <1>2, <1>3, <1>4, <1>5, <1>6, BaseFrom

LEMMA StepCalm ==
  ASSUME Base, NEW t \in Loops, NEW F, KnownStep(t, F, Known), Silent(t, F),
         UNCHANGED receiverLoop
  PROVE  Calm
<1>1. Known' = Known
  BY DEF Known
<1>2. KnownStep(t, F, Known')
  BY <1>1
<1> QED BY <1>1, <1>2, StepKept

(* Functions of the loop that make no call.                                *)
LEMMA RunCalm ==
  ASSUME Base, NEW t \in Loops, NEW do, NextIs(t, do), Take(t), UNCHANGED stack,
         UNCHANGED receiverLoop
  PROVE  /\ Calm /\ NextTask(t) \in Tasks /\ NextTask(t).do = do
         /\ KnownTask(NextTask(t), Known)
<1>1. /\ StackStep(t, {}) /\ Taken(t) /\ NextTask(t).do = do
      /\ NextTask(t) \in Range(queue[t]) /\ ~At(t, "wait")
  BY RunMoves, TakeMoves
<1>2. KnownStep(t, {}, Known) /\ Silent(t, {})
  BY <1>1 DEF KnownStep, Silent
<1>3. KnownTask(NextTask(t), Known)
  BY <1>1 DEF Base, KnownInv, KnownCalls
<1> QED BY <1>1, <1>2, <1>3, StepCalm DEF Taken

LEMMA RunRegisterBase ==
  ASSUME Base, NEW t \in Loops, RunRegister(t)
  PROVE  Base'
<1>1. PICK c : c = NextTask(t).arg
  OBVIOUS
<1>2. /\ Calm /\ NextTask(t) \in Tasks /\ NextTask(t).do = "register"
      /\ KnownTask(NextTask(t), Known)
  BY RunCalm DEF RunRegister
<1>3. c \in Conns /\ c \in Known
  BY <1>1, <1>2 DEF Tasks, SignalLabels, KnownTask
<1>4. Register(c, receiverLoop[c])
  BY <1>1 DEF RunRegister
<1>5. Sender(c) \in Objects /\ SignalOf[c] \in Signals /\ loop[Sender(c)] \in Loops
  BY <1>3, PlaceTypes
<1>6. LogOK'
  BY SameLog DEF RunRegister
<1>7. CASE Sender(c) \in alive
  <2>1. /\ signalLoop' = [signalLoop EXCEPT ![SignalOf[c]] = loop[Sender(c)]]
        /\ asSender' = [asSender EXCEPT ![Sender(c)] = @ \cup {c}]
        /\ connects' = [connects EXCEPT ![SignalOf[c]] = @ \cup {c}]
        /\ entered' = [l \in Loops |->
              IF ReceiverOf[c] = Nil /\ receiverLoop[c] = l
                THEN entered[l] \cup {c} ELSE entered[l]]
    BY <1>4, <1>7 DEF Register
  <2>2. ObjectsOK'
    BY <1>3, <1>5, <2>1 DEF Base, TypeOK, ObjectsOK, RunRegister
  <2>3. SignalsOK'
    BY <1>3, <1>5, <2>1 DEF Base, TypeOK, SignalsOK
  <2>4. ConnsOK'
    BY <1>3, <2>1 DEF Base, TypeOK, ConnsOK, RunRegister
  <2>5. KnownSets'
    <3>1. /\ \A s \in Signals : connects'[s] \subseteq connects[s] \cup {c}
          /\ \A o \in Objects : asSender'[o] \subseteq asSender[o] \cup {c}
      BY <1>5, <2>1 DEF Base, TypeOK, SignalsOK, ObjectsOK
    <3>2. Known' = Known
      BY DEF RunRegister, Known
    <3> QED BY <1>3, <3>1, <3>2 DEF Base, KnownInv, KnownSets, RunRegister
  <2> QED BY <1>2, <1>6, <2>2, <2>3, <2>4, <2>5, BaseFrom
<1>8. CASE Sender(c) \notin alive
  <2>1. UNCHANGED <<objVars, sigVars, connVars>>
    BY <1>4, <1>8 DEF Register, RunRegister, objVars, sigVars, connVars
  <2> QED BY <1>2, <1>6, <2>1, PlainBase
<1> QED BY <1>7, <1>8

(* The set of a receiver changes by a connection of its own.               *)
LEMMA ReceiverBase ==
  ASSUME Base, Calm, LogOK', UNCHANGED <<loop, alive, moved, asSender>>,
         UNCHANGED <<sigVars, connVars>>, NEW c \in Known,
         ReceiverOf[c] \in alive,
         \/ asReceiver' = [asReceiver EXCEPT ![ReceiverOf[c]] = @ \cup {c}]
         \/ asReceiver' = [asReceiver EXCEPT ![ReceiverOf[c]] = @ \ {c}]
  PROVE  Base'
<1>1. ReceiverOf[c] \in Objects /\ c \in Conns
  BY PlaceTypes DEF Known
<1>2. /\ asReceiver' \in [Objects -> SUBSET Conns]
      /\ \A o \in Objects : \/ asReceiver'[o] \subseteq asReceiver[o]
                              \/ /\ o = ReceiverOf[c]
                                 /\ asReceiver'[o] \subseteq asReceiver[o] \cup {c}
  <2>1. asReceiver \in [Objects -> SUBSET Conns]
    BY DEF Base, TypeOK, ObjectsOK
  <2>2. CASE asReceiver' = [asReceiver EXCEPT ![ReceiverOf[c]] = @ \cup {c}]
    BY <1>1, <2>1, <2>2
  <2>3. CASE asReceiver' = [asReceiver EXCEPT ![ReceiverOf[c]] = @ \ {c}]
    BY <1>1, <2>1, <2>3
  <2> QED BY <2>2, <2>3
<1>3. ObjectsOK'
  BY <1>2 DEF Base, TypeOK, ObjectsOK
<1>4. SignalsOK' /\ ConnsOK'
  BY SignalsKept, ConnsKept DEF Base, TypeOK
<1>5. KnownSets'
  <2>1. Known' = Known
    BY SameKnown
  <2> QED BY <1>2, <2>1 DEF Base, KnownInv, KnownSets, sigVars, connVars
<1> QED BY <1>3, <1>4, <1>5, BaseFrom

LEMMA EnterBase ==
  ASSUME Base, Calm, LogOK', UNCHANGED <<loop, alive, moved, asSender>>,
         UNCHANGED <<sigVars, connVars>>, NEW c \in Known, EnterReceiver(c)
  PROVE  Base'
<1>1. CASE ReceiverOf[c] \in alive
  <2>1. asReceiver' = [asReceiver EXCEPT ![ReceiverOf[c]] = @ \cup {c}]
    BY <1>1 DEF EnterReceiver
  <2> QED BY <1>1, <2>1, ReceiverBase
<1>2. CASE ReceiverOf[c] \notin alive
  <2>1. UNCHANGED objVars
    BY <1>2 DEF EnterReceiver, objVars
  <2> QED BY <2>1, PlainBase
<1> QED BY <1>1, <1>2

LEMMA RunEnterBase ==
  ASSUME Base, NEW t \in Loops, RunEnter(t)
  PROVE  Base'
<1>1. PICK c : c = NextTask(t).arg
  OBVIOUS
<1>2. /\ Calm /\ NextTask(t) \in Tasks /\ NextTask(t).do = "enter"
      /\ KnownTask(NextTask(t), Known)
  BY RunCalm DEF RunEnter, connVars
<1>3. c \in Known
  BY <1>1, <1>2 DEF SignalLabels, KnownTask
<1>4. LogOK' /\ EnterReceiver(c)
  BY <1>1, SameLog DEF RunEnter
<1> QED BY <1>2, <1>3, <1>4, EnterBase DEF RunEnter

LEMMA RunLeaveBase ==
  ASSUME Base, NEW t \in Loops, RunLeave(t)
  PROVE  Base'
<1>1. PICK c : c = NextTask(t).arg
  OBVIOUS
<1>2. /\ Calm /\ NextTask(t) \in Tasks /\ NextTask(t).do = "leave"
      /\ KnownTask(NextTask(t), Known)
  BY RunCalm DEF RunLeave, connVars
<1>3. c \in Known
  BY <1>1, <1>2 DEF SignalLabels, KnownTask
<1>4. LogOK'
  BY SameLog DEF RunLeave
<1>5. CASE ReceiverOf[c] \in alive
  <2>1. asReceiver' = [asReceiver EXCEPT ![ReceiverOf[c]] = @ \ {c}]
    BY <1>1, <1>5 DEF RunLeave
  <2> QED BY <1>2, <1>3, <1>4, <1>5, <2>1, ReceiverBase DEF RunLeave
<1>6. CASE ReceiverOf[c] \notin alive
  <2>1. UNCHANGED <<objVars, sigVars, connVars>>
    BY <1>1, <1>6 DEF RunLeave, objVars
  <2> QED BY <1>2, <1>4, <2>1, PlainBase
<1> QED BY <1>5, <1>6

LEMMA RunUnregisterBase ==
  ASSUME Base, NEW t \in Loops, RunUnregister(t)
  PROVE  Base'
<1>1. PICK c : c = NextTask(t).arg
  OBVIOUS
<1>2. /\ Calm /\ NextTask(t) \in Tasks /\ NextTask(t).do = "unregister"
      /\ KnownTask(NextTask(t), Known)
  BY RunCalm DEF RunUnregister, connVars
<1>3. c \in Known /\ c \in Conns
  BY <1>1, <1>2 DEF SignalLabels, KnownTask, Known
<1>4. LogOK'
  BY SameLog DEF RunUnregister
<1>5. CASE Sender(c) \in alive
  <2>1. /\ asSender' = [asSender EXCEPT ![Sender(c)] = @ \ {c}]
        /\ connects' = [connects EXCEPT ![SignalOf[c]] = @ \ {c}]
    BY <1>1, <1>5 DEF RunUnregister
  <2>2. Sender(c) \in Objects /\ SignalOf[c] \in Signals
    BY <1>3, PlaceTypes
  <2>3. /\ asSender' \in [Objects -> SUBSET Conns]
        /\ \A o \in Objects : asSender'[o] \subseteq asSender[o]
    BY <2>1, <2>2 DEF Base, TypeOK, ObjectsOK
  <2>4. /\ connects' \in [Signals -> SUBSET Conns]
        /\ \A s \in Signals : connects'[s] \subseteq connects[s]
    BY <2>1, <2>2 DEF Base, TypeOK, SignalsOK
  <2>5. ObjectsOK'
    BY <2>3 DEF Base, TypeOK, ObjectsOK, RunUnregister
  <2>6. SignalsOK'
    BY <2>4 DEF Base, TypeOK, SignalsOK, RunUnregister
  <2>7. ConnsOK'
    BY ConnsKept DEF Base, TypeOK, RunUnregister
  <2>8. KnownSets'
    BY <2>3, <2>4, SameKnown
       DEF Base, KnownInv, KnownSets, RunUnregister, connVars
  <2> QED BY <1>2, <1>4, <2>5, <2>6, <2>7, <2>8, BaseFrom
<1>6. CASE Sender(c) \notin alive
  <2>1. UNCHANGED <<objVars, sigVars, connVars>>
    BY <1>1, <1>6 DEF RunUnregister, objVars, sigVars
  <2> QED BY <1>2, <1>4, <2>1, PlainBase
<1> QED BY <1>5, <1>6

(* The calls of a step, in one place: F are its new calls.                 *)
LEMMA ThreadBase ==
  ASSUME Base, NEW t \in Loops, NEW F, StackStep(t, F),
         \A f \in F : KnownCall(f, Known) /\ f.at # "task",
         NEW label, At(t, label), label # "wait", UNCHANGED queue,
         UNCHANGED <<objVars, sigVars, connVars>>, LogOK'
  PROVE  Base'
<1>1. ~At(t, "wait")
  BY DEF At
<1>2. KnownStep(t, F, Known) /\ Silent(t, F)
  BY <1>1 DEF KnownStep, Silent
<1>3. Calm
  BY <1>2, StepCalm DEF connVars
<1> QED BY <1>3, PlainBase

LEMMA RunQueryBase ==
  ASSUME Base, NEW t \in Loops, RunQuery(t)
  PROVE  Base'
<1>1. PICK q : q = NextTask(t).arg
  OBVIOUS
<1> DEFINE g == Frame("each", q.object, Chosen(q), 0)
<1>2. /\ q \in Query /\ Taken(t)
      /\ StackStep(t, {g}) \/ StackStep(t, {})
  BY <1>1, RunQueryMoves
<1>3. g.at = "each" /\ g.todo \subseteq Known
  BY <1>2, FrameTypes, ChosenIn DEF Base, KnownInv, KnownSets
<1> HIDE DEF g
<1>4. KnownCall(g, Known) /\ g.at # "task"
  BY <1>3 DEF KnownCall, ConnLabels
<1>5. ~At(t, "wait")
  BY DEF RunQuery, NextIs, At
<1>6. PICK F : StackStep(t, F) /\ F \subseteq {g}
  BY <1>2
<1>7. KnownStep(t, F, Known) /\ Silent(t, F)
  BY <1>2, <1>4, <1>5, <1>6 DEF KnownStep, Silent
<1>8. Calm
  BY <1>7, StepCalm DEF RunQuery, connVars
<1> QED BY <1>8, SameLog, PlainBase DEF RunQuery

LEMMA EmitBase ==
  ASSUME Base, NEW t \in Loops, NEW s \in Signals, NEW sync \in BOOLEAN,
         Emit(t, s, sync)
  PROVE  Base'
<1> DEFINE do == IF sync THEN "dispatchSync" ELSE "dispatch"
           g == Frame(do, s, connects[s], emits + 1)
           w == Frame("wait", s, {}, 0)
<1>1. /\ UNCHANGED <<objVars, sigVars, connVars, ran>>
      /\ May(t, IF sync THEN "emitSync" ELSE "emit", s)
      /\ UNCHANGED receiverLoop
  BY DEF Emit, connVars
<1>2. calls' \in 0 .. MaxCalls /\ ~At(t, "wait")
  BY <1>1, MayFacts
<1>3. do \in SignalLabels
  BY DEF SignalLabels
<1>4. KnownCall(g, Known) /\ KnownCall(w, Known) /\ w.at # "task"
  <2>1. g.at = do /\ g.todo = connects[s] /\ w.at = "wait" /\ w.todo = {}
    BY FrameTypes
  <2>2. connects[s] \subseteq Known
    BY DEF Base, KnownInv, KnownSets
  <2> HIDE DEF g, w
  <2> QED BY <1>3, <2>1, <2>2 DEF KnownCall, ConnLabels, SignalLabels
<1>5. \A u : /\ Task(do, s, 0, u).sync = u
             /\ KnownTask(Task(do, s, 0, u), Known)
  BY <1>3, TaskTypes DEF KnownTask
<1>6. CASE /\ signalLoop[s] = Nil /\ StackStep(t, {}) /\ undefined' \in BOOLEAN
           /\ UNCHANGED <<queue, emits, due, nested>>
  <2>1. KnownStep(t, {}, Known) /\ Silent(t, {})
    BY <1>2, <1>6 DEF KnownStep, Silent
  <2>2. LogOK'
    BY <1>1, <1>2, <1>6 DEF Base, TypeOK, LogOK
  <2> QED BY <1>1, <2>1, <2>2, StepCalm, PlainBase
<1>7. CASE /\ signalLoop[s] = t
           /\ StackStep(t, {g}) /\ g.at # "task" /\ g \in Range(stack'[t])
           /\ emits' \in Nat /\ due' \in [Conns -> SUBSET Nat]
           /\ nested' \subseteq Signals
           /\ UNCHANGED <<queue, undefined>>
  <2> HIDE DEF g
  <2>1. KnownStep(t, {g}, Known) /\ Silent(t, {g})
    BY <1>2, <1>4, <1>7 DEF KnownStep, Silent
  <2>2. LogOK'
    BY <1>1, <1>2, <1>7 DEF Base, TypeOK, LogOK
  <2> QED BY <1>1, <2>1, <2>2, StepCalm, PlainBase
<1>8. CASE /\ sync /\ signalLoop[s] \notin {t, Nil}
           /\ StackStep(t, {w}) /\ At(t, "wait")'
           /\ Posted(signalLoop[s], Task(do, s, 0, t))
           /\ UNCHANGED <<emits, due, nested, undefined>>
  <2> HIDE DEF w
  <2>0. PICK e : e = Task(do, s, 0, t)
    OBVIOUS
  <2> HIDE DEF do
  <2>1. Known' = Known
    BY <1>1 DEF Known
  <2>2. KnownStep(t, {w}, Known')
    BY <1>4, <1>5, <1>8, <2>0, <2>1 DEF KnownStep
  <2>3. e.sync = t
    BY <1>5, <2>0
  <2>4. TokenInv'
    BY <1>2, <1>4, <1>8, <2>0, <2>3, TokenPosted
  <2>5. Calm
    BY <2>1, <2>2, <2>4, StepKnown DEF Calm
  <2>6. LogOK'
    BY <1>1, <1>2, <1>8 DEF Base, TypeOK, LogOK
  <2> QED BY <1>1, <2>5, <2>6, PlainBase
<1>9. CASE /\ ~sync /\ signalLoop[s] \notin {t, Nil} /\ StackStep(t, {})
           /\ Posted(signalLoop[s], Task(do, s, 0, Nil))
           /\ UNCHANGED <<emits, due, nested, undefined>>
  <2> HIDE DEF do
  <2>1. KnownStep(t, {}, Known) /\ Silent(t, {})
    BY <1>2, <1>5, <1>9 DEF KnownStep, Silent
  <2>2. LogOK'
    BY <1>1, <1>2, <1>9 DEF Base, TypeOK, LogOK
  <2> QED BY <1>1, <2>1, <2>2, StepCalm, PlainBase
<1> QED BY <1>6, <1>7, <1>8, <1>9, EmitMoves

(* The frame of the function that begins.                                  *)
LEMMA BottomFacts ==
  ASSUME NEW e \in Tasks
  PROVE  /\ Bottom(e).at = "task" /\ Bottom(e).arg = e.sync
         /\ \A K : KnownCall(Bottom(e), K)
BY FrameTypes DEF Bottom, KnownCall, ConnLabels

LEMMA TakenCalm ==
  ASSUME Base, NEW t \in Loops, stack[t] = <<>>, NEW F, StackStep(t, F),
         \A f \in F : KnownCall(f, Known),
         \A f \in F : f.at = "task" => f.arg = NextTask(t).sync, Taken(t),
         UNCHANGED receiverLoop
  PROVE  Calm
<1>1. Known' = Known
  BY DEF Known
<1>2. KnownStep(t, F, Known')
  BY <1>1 DEF KnownStep
<1>3. TokenInv'
  BY TokenTaken
<1> QED BY <1>1, <1>2, <1>3, StepKnown DEF Calm

LEMMA RunDispatchBase ==
  ASSUME Base, NEW t \in Loops, NEW do \in SignalLabels, RunDispatch(t, do)
  PROVE  Base'
<1>1. PICK e : e = NextTask(t)
  OBVIOUS
<1> DEFINE g == Frame(do, e.arg, connects[e.arg], emits + 1)
           b == Bottom(e)
<1>2. /\ Taken(t) /\ e.do = do /\ e.arg \in Signals /\ stack[t] = <<>>
      /\ \/ /\ Container[e.arg] \in alive
            /\ StackStep(t, {g, b}) /\ g.at # "task"
            /\ g \in Range(stack'[t])
            /\ emits' \in Nat /\ due' \in [Conns -> SUBSET Nat]
            /\ nested' \subseteq Signals
         \/ /\ Container[e.arg] \notin alive /\ StackStep(t, {b})
            /\ UNCHANGED <<emits, due, nested>>
  BY <1>1, RunDispatchMoves
<1>3. b.at = "task" /\ b.arg = e.sync /\ KnownCall(b, Known)
  BY <1>1, <1>2, BottomFacts DEF Taken
<1>4. KnownCall(g, Known) /\ g.at # "task"
  <2>1. g.at = do /\ g.todo = connects[e.arg]
    BY FrameTypes
  <2>2. connects[e.arg] \subseteq Known
    BY <1>2 DEF Base, KnownInv, KnownSets
  <2> HIDE DEF g
  <2> QED BY <2>1, <2>2 DEF KnownCall, ConnLabels, SignalLabels
<1>5. UNCHANGED <<objVars, sigVars, connVars, calls, ran, undefined>>
  BY DEF RunDispatch
<1>6. LogOK'
  BY <1>2, <1>5 DEF Base, TypeOK, LogOK
<1> HIDE DEF g, b
<1>7. PICK F : StackStep(t, F) /\ F \subseteq {g, b}
  <2>1. {b} \subseteq {g, b} /\ {g, b} \subseteq {g, b}
    OBVIOUS
  <2>2. CASE StackStep(t, {g, b})
    BY <2>1, <2>2
  <2>3. CASE StackStep(t, {b})
    BY <2>1, <2>3
  <2> QED BY <1>2, <2>2, <2>3
<1>8. Calm
  <2>1. \A f \in F : KnownCall(f, Known)
    BY <1>3, <1>4, <1>7
  <2>2. \A f \in F : f.at = "task" => f.arg = NextTask(t).sync
    BY <1>1, <1>3, <1>4, <1>7
  <2> QED BY <1>2, <1>5, <1>7, <2>1, <2>2, TakenCalm DEF connVars
<1> QED BY <1>5, <1>6, <1>8, PlainBase

LEMMA RunSlotBase ==
  ASSUME Base, NEW t \in Loops, RunSlot(t)
  PROVE  Base'
<1>1. PICK e : e = NextTask(t)
  OBVIOUS
<1> DEFINE g == Frame("call", e.arg, {}, e.id)
           b == Bottom(e)
<1>2. /\ Taken(t) /\ e.do = "slot" /\ stack[t] = <<>>
      /\ StackStep(t, {g, b}) \/ StackStep(t, {b})
  BY <1>1, RunSlotMoves
<1>3. b.at = "task" /\ b.arg = e.sync /\ KnownCall(b, Known)
  BY <1>1, <1>2, BottomFacts DEF Taken
<1>4. KnownCall(g, Known) /\ g.at # "task"
  <2>1. g.at = "call" /\ g.todo = {} /\ g.arg = e.arg
    BY FrameTypes
  <2>2. e \in Range(queue[t])
    BY <1>1, <1>2 DEF Taken
  <2>3. e.arg \in Known
    BY <1>2, <2>2 DEF Base, KnownInv, KnownCalls, KnownTask, SignalLabels
  <2> HIDE DEF g
  <2> QED BY <2>1, <2>3 DEF KnownCall
<1> HIDE DEF g, b
<1>7. PICK F : StackStep(t, F) /\ F \subseteq {g, b}
  <2>1. {b} \subseteq {g, b} /\ {g, b} \subseteq {g, b}
    OBVIOUS
  <2>2. CASE StackStep(t, {g, b})
    BY <2>1, <2>2
  <2>3. CASE StackStep(t, {b})
    BY <2>1, <2>3
  <2> QED BY <1>2, <2>2, <2>3
<1>8. Calm
  <2>1. \A f \in F : KnownCall(f, Known)
    BY <1>3, <1>4, <1>7
  <2>2. \A f \in F : f.at = "task" => f.arg = NextTask(t).sync
    BY <1>1, <1>3, <1>4, <1>7
  <2> QED BY <1>2, <1>7, <2>1, <2>2, TakenCalm DEF RunSlot, connVars
<1> QED BY <1>8, SameLog, PlainBase DEF RunSlot

LEMMA ReturnBase ==
  ASSUME Base, NEW t \in Loops, Return(t)
  PROVE  Base'
<1>1. /\ StackInv' /\ TokenInv' /\ UNCHANGED queue
      /\ \A l \in Loops : Range(stack'[l]) \subseteq Range(stack[l])
  BY ReturnMoves
<1>2. Known' = Known /\ UNCHANGED <<objVars, sigVars, connVars>> /\ LogOK'
  BY SameLog, SameKnown DEF Return
<1>3. KnownCalls'
  <2>1. \A l \in Loops : \A f \in Range(stack'[l]) : KnownCall(f, Known)
    BY <1>1 DEF Base, KnownInv, KnownCalls
  <2>2. \A l \in Loops : \A e \in Range(queue'[l]) : KnownTask(e, Known)
    BY <1>1 DEF Base, KnownInv, KnownCalls
  <2> QED BY <1>2, <2>1, <2>2 DEF KnownCalls, KnownCall, KnownTask
<1>4. queue' \in [Loops -> Seq(Tasks)]
  BY <1>1 DEF Base, TypeOK
<1> QED BY <1>1, <1>2, <1>3, <1>4, PlainBase DEF Calm

LEMMA EnterThreadBase ==
  ASSUME Base, NEW t \in Loops, Enter(t)
  PROVE  Base'
<1>1. PICK f : f = Head(stack[t])
  OBVIOUS
<1>2. PICK c : c = f.arg
  OBVIOUS
<1>3. /\ f \in Frames /\ f \in Range(stack[t]) /\ f.at = "enter"
      /\ c \in Conns /\ ReceiverOf[c] \in Objects
      /\ IF loop[ReceiverOf[c]] = t THEN EnterReceiver(c) /\ UNCHANGED queue
         ELSE /\ Posted(loop[ReceiverOf[c]], Task("enter", c, 0, Nil))
              /\ UNCHANGED asReceiver
  BY <1>1, <1>2, EnterMoves
<1>4. PICK g \in Frames : /\ g.at = "wire" /\ g.arg = c /\ g.todo = f.todo
                          /\ StackStep(t, {g}) /\ g \in Range(stack'[t])
  BY <1>1, <1>2, EnterMoves
<1>5. c \in Known /\ f.todo \subseteq Known
  BY <1>2, <1>3 DEF Base, KnownInv, KnownCalls, KnownCall, ConnLabels
<1> DEFINE e == Task("enter", c, 0, Nil)
<1>6. e.sync = Nil /\ KnownTask(e, Known)
  <2>1. e.sync = Nil /\ e.arg = c
    BY TaskTypes
  <2> HIDE DEF e
  <2> QED BY <1>5, <2>1 DEF KnownTask
<1> HIDE DEF e
<1>7. UNCHANGED queue \/ Posted(loop[ReceiverOf[c]], e)
  BY <1>3 DEF e
<1>8. ~At(t, "wait")
  BY DEF Enter, At
<1>9. KnownStep(t, {g}, Known) /\ Silent(t, {g})
  BY <1>4, <1>5, <1>6, <1>7, <1>8 DEF KnownStep, Silent, KnownCall
<1>10. UNCHANGED <<loop, alive, moved, asSender, sigVars, connVars>>
       /\ UNCHANGED receiverLoop
  BY DEF Enter, connVars
<1>11. Calm /\ LogOK'
  BY <1>9, <1>10, StepCalm, SameLog DEF Enter
<1>12. CASE EnterReceiver(c)
  BY <1>5, <1>10, <1>11, <1>12, EnterBase
<1>13. CASE UNCHANGED asReceiver
  BY <1>10, <1>11, <1>13, PlainBase DEF objVars
<1> QED BY <1>3, <1>12, <1>13

LEMMA WireBase ==
  ASSUME Base, NEW t \in Loops, Wire(t)
  PROVE  Base'
<1>1. PICK f : f = Head(stack[t])
  OBVIOUS
<1>2. /\ f \in Frames /\ f \in Range(stack[t]) /\ f.at = "wire"
      /\ f.arg \in Conns /\ Arg(t) = f.arg
      /\ StackStep(t, {}) /\ UNCHANGED queue
  BY <1>1, WireMoves
<1>3. f.arg \in Known
  BY <1>2 DEF Base, KnownInv, KnownCalls, KnownCall, ConnLabels
<1>4. ~At(t, "wait")
  BY DEF Wire, At
<1>5. KnownStep(t, {}, Known) /\ Silent(t, {})
  BY <1>2, <1>4 DEF KnownStep, Silent
<1>6. Calm
  BY <1>5, StepCalm DEF Wire
<1>7. wired' = wired \cup {f.arg}
      /\ UNCHANGED <<objVars, sigVars, connAlive, receiverLoop, entered>>
  BY <1>2 DEF Wire
<1>8. ObjectsOK' /\ SignalsOK'
  BY <1>7, ObjectsKept, SignalsKept DEF Base, TypeOK
<1>9. ConnsOK'
  BY <1>2, <1>7 DEF Base, TypeOK, ConnsOK
<1>10. KnownSets'
  <2>1. Known' = Known
    BY <1>7 DEF Known
  <2> QED BY <1>3, <1>7, <2>1 DEF Base, KnownInv, KnownSets, objVars, sigVars
<1>11. LogOK'
  BY SameLog DEF Wire
<1> QED BY <1>6, <1>8, <1>9, <1>10, <1>11, BaseFrom

LEMMA TestBase ==
  ASSUME Base, NEW t \in Loops, Test(t)
  PROVE  Base'
<1>1. PICK f : f = Head(stack[t])
  OBVIOUS
<1>2. /\ f \in Frames /\ f \in Range(stack[t]) /\ f.at = "test"
      /\ \/ \E g \in Frames :
              /\ g.at = "sender" /\ g.arg = f.arg /\ g.todo = f.todo
              /\ StackStep(t, {g})
         \/ StackStep(t, {})
  BY <1>1, TestMoves
<1>3. f.arg \in Known /\ f.todo \subseteq Known
  BY <1>2 DEF Base, KnownInv, KnownCalls, KnownCall, ConnLabels
<1>4. PICK F : StackStep(t, F)
               /\ \A g \in F : KnownCall(g, Known) /\ g.at # "task"
  <2>1. CASE StackStep(t, {})
    BY <2>1
  <2>2. CASE \E g \in Frames :
               /\ g.at = "sender" /\ g.arg = f.arg /\ g.todo = f.todo
               /\ StackStep(t, {g})
    <3>1. PICK g \in Frames :
               /\ g.at = "sender" /\ g.arg = f.arg /\ g.todo = f.todo
               /\ StackStep(t, {g})
      BY <2>2
    <3>2. KnownCall(g, Known) /\ g.at # "task"
      BY <1>3, <3>1 DEF KnownCall
    <3>3. \A h \in {g} : KnownCall(h, Known) /\ h.at # "task"
      BY <3>2
    <3> QED BY <3>1, <3>3
  <2> QED BY <1>2, <2>1, <2>2
<1>5. At(t, "test") /\ LogOK' /\ UNCHANGED <<queue, objVars, sigVars, connVars>>
  BY SameLog DEF Test
<1> QED BY <1>4, <1>5, ThreadBase

LEMMA LeaveSenderBase ==
  ASSUME Base, NEW t \in Loops, LeaveSender(t)
  PROVE  Base'
<1>1. PICK f : f = Head(stack[t])
  OBVIOUS
<1>2. PICK c : c = f.arg
  OBVIOUS
<1> DEFINE e == Task("unregister", c, 0, Nil)
<1>3. /\ f \in Frames /\ f \in Range(stack[t]) /\ f.at = "sender"
      /\ c \in Conns /\ connAlive' = connAlive \ {c}
      /\ UNCHANGED queue \/ Posted(loop[Sender(c)], e)
  BY <1>1, <1>2, LeaveSenderMoves
<1>4. PICK g \in Frames : /\ g.at = "receiver" /\ g.arg = c /\ g.todo = f.todo
                          /\ StackStep(t, {g}) /\ g \in Range(stack'[t])
  BY <1>1, <1>2, LeaveSenderMoves
<1>5. c \in Known /\ f.todo \subseteq Known
  BY <1>2, <1>3 DEF Base, KnownInv, KnownCalls, KnownCall, ConnLabels
<1>6. e.sync = Nil /\ KnownTask(e, Known)
  <2>1. e.sync = Nil /\ e.arg = c
    BY TaskTypes
  <2> HIDE DEF e
  <2> QED BY <1>5, <2>1 DEF KnownTask
<1> HIDE DEF e
<1>8. ~At(t, "wait")
  BY DEF LeaveSender, At
<1>9. KnownStep(t, {g}, Known) /\ Silent(t, {g})
  BY <1>3, <1>4, <1>5, <1>6, <1>8 DEF KnownStep, Silent, KnownCall
<1>10. UNCHANGED <<objVars, sigVars, receiverLoop, wired, entered>>
  BY DEF LeaveSender
<1>11. Calm /\ LogOK'
  BY <1>9, <1>10, StepCalm, SameLog DEF LeaveSender
<1>12. ObjectsOK' /\ SignalsOK'
  BY <1>10, ObjectsKept, SignalsKept DEF Base, TypeOK
<1>13. ConnsOK'
  BY <1>3, <1>10 DEF Base, TypeOK, ConnsOK
<1>14. KnownSets'
  <2>1. Known' = Known
    BY <1>10 DEF Known
  <2> QED BY <1>3, <1>10, <2>1 DEF Base, KnownInv, KnownSets, objVars, sigVars
<1> QED BY <1>11, <1>12, <1>13, <1>14, BaseFrom

LEMMA LeaveReceiverBase ==
  ASSUME Base, NEW t \in Loops, LeaveReceiver(t)
  PROVE  Base'
<1>1. PICK f : f = Head(stack[t])
  OBVIOUS
<1>2. PICK c : c = f.arg
  OBVIOUS
<1> DEFINE e == Task("leave", c, 0, Nil)
<1>3. /\ f \in Frames /\ f \in Range(stack[t]) /\ f.at = "receiver"
      /\ c \in Conns /\ StackStep(t, {})
      /\ entered' = IF ReceiverOf[c] # Nil THEN entered
                    ELSE [entered EXCEPT ![receiverLoop[c]] = @ \ {c}]
      /\ UNCHANGED queue \/ Posted(loop[ReceiverOf[c]], e)
  BY <1>1, <1>2, LeaveReceiverMoves
<1>5. c \in Known /\ f.todo \subseteq Known
  BY <1>2, <1>3 DEF Base, KnownInv, KnownCalls, KnownCall, ConnLabels
<1>6. e.sync = Nil /\ KnownTask(e, Known)
  <2>1. e.sync = Nil /\ e.arg = c
    BY TaskTypes
  <2> HIDE DEF e
  <2> QED BY <1>5, <2>1 DEF KnownTask
<1> HIDE DEF e
<1>8. ~At(t, "wait")
  BY DEF LeaveReceiver, At
<1>9. KnownStep(t, {}, Known) /\ Silent(t, {})
  BY <1>3, <1>6, <1>8 DEF KnownStep, Silent
<1>10. UNCHANGED <<objVars, sigVars, connAlive, receiverLoop, wired>>
  BY DEF LeaveReceiver
<1>11. Calm /\ LogOK'
  BY <1>9, <1>10, StepCalm, SameLog DEF LeaveReceiver
<1>12. ObjectsOK' /\ SignalsOK'
  BY <1>10, ObjectsKept, SignalsKept DEF Base, TypeOK
<1>13. ConnsOK'
  <2>1. entered' \in [Loops -> SUBSET Conns]
        /\ \A l \in Loops : entered'[l] \subseteq entered[l]
    BY <1>3 DEF Base, TypeOK, ConnsOK
  <2> QED BY <1>10, <2>1 DEF Base, TypeOK, ConnsOK
<1>14. KnownSets'
  BY <1>10, SetsKept DEF Base, KnownInv, objVars, sigVars
<1> QED BY <1>11, <1>12, <1>13, <1>14, BaseFrom

LEMMA EachBase ==
  ASSUME Base, NEW t \in Loops, Each(t)
  PROVE  Base'
<1>1. PICK f : f = Head(stack[t])
  OBVIOUS
<1>2. /\ f \in Frames /\ f \in Range(stack[t]) /\ f.at = "each"
  BY <1>1, EachMoves
<1>3. f.todo \subseteq Known
  BY <1>2 DEF Base, KnownInv, KnownCalls, KnownCall
<1>4. PICK F : /\ StackStep(t, F) /\ undefined' \in BOOLEAN
               /\ \A g \in F : KnownCall(g, Known) /\ g.at # "task"
  <2>1. CASE StackStep(t, {}) /\ UNCHANGED undefined
    BY <2>1 DEF Base, TypeOK, LogOK
  <2>2. ASSUME NEW c \in f.todo, NEW g, NEW h,
               g = Frame("test", c, {}, 0), StackStep(t, {g, h}),
               h.at = "each", h.todo = f.todo \ {c}, undefined' = (c \notin wired)
        PROVE  \E G : /\ StackStep(t, G) /\ undefined' \in BOOLEAN
                      /\ \A k \in G : KnownCall(k, Known) /\ k.at # "task"
    <3>1. g.at = "test" /\ g.todo = {} /\ g.arg = c
      BY <2>2, FrameTypes
    <3>2. KnownCall(g, Known) /\ g.at # "task"
      BY <1>3, <3>1 DEF KnownCall
    <3>3. KnownCall(h, Known) /\ h.at # "task"
      BY <1>3, <2>2 DEF KnownCall, ConnLabels
    <3>4. \A k \in {g, h} : KnownCall(k, Known) /\ k.at # "task"
      BY <3>2, <3>3
    <3> QED BY <2>2, <3>4
  <2> QED BY <1>1, <2>1, <2>2, EachMoves
<1>5. At(t, "each") /\ UNCHANGED <<queue, objVars, sigVars, connVars, logVars>>
  BY DEF Each
<1>6. LogOK'
  BY <1>4, <1>5 DEF Base, TypeOK, LogOK, logVars, emitVars
<1> QED BY <1>4, <1>5, <1>6, ThreadBase

LEMMA LookBase ==
  ASSUME Base, NEW t \in Loops, NEW do \in SignalLabels, Look(t, do)
  PROVE  Base'
<1>1. PICK f : f = Head(stack[t])
  OBVIOUS
<1>2. /\ f \in Frames /\ f \in Range(stack[t]) /\ f.at = do
  BY <1>1, LookMoves
<1>3. f.todo \subseteq Known
  BY <1>2 DEF Base, KnownInv, KnownCalls, KnownCall
<1>4. PICK F : /\ StackStep(t, F)
               /\ \A g \in F : KnownCall(g, Known) /\ g.at # "task"
  <2>1. CASE StackStep(t, {})
    BY <2>1
  <2>2. ASSUME NEW c \in f.todo, NEW g, NEW h, g = Frame("hand", c, {}, f.id),
               StackStep(t, {g, h}) \/ StackStep(t, {h}),
               h.at = do, h.todo = f.todo \ {c}
        PROVE  \E G : /\ StackStep(t, G)
                      /\ \A k \in G : KnownCall(k, Known) /\ k.at # "task"
    <3>1. g.at = "hand" /\ g.todo = {} /\ g.arg = c
      BY <2>2, FrameTypes
    <3>2. KnownCall(g, Known) /\ g.at # "task"
      BY <1>3, <3>1 DEF KnownCall
    <3>3. KnownCall(h, Known) /\ h.at # "task"
      BY <1>3, <2>2 DEF KnownCall, ConnLabels, SignalLabels
    <3>4. /\ \A k \in {g, h} : KnownCall(k, Known) /\ k.at # "task"
          /\ \A k \in {h} : KnownCall(k, Known) /\ k.at # "task"
      BY <3>2, <3>3
    <3> QED BY <2>2, <3>4
  <2>3. ASSUME NEW c \in f.todo, LooksAt(t, f, c)
        PROVE  \E G : /\ StackStep(t, G)
                      /\ \A k \in G : KnownCall(k, Known) /\ k.at # "task"
    <3>1. PICK g, h : g = Frame("hand", c, {}, f.id) /\ h = [f EXCEPT !.todo = @ \ {c}]
      OBVIOUS
    <3>2. /\ StackStep(t, {g, h}) \/ StackStep(t, {h})
          /\ h.at = do /\ h.todo = f.todo \ {c}
      BY <1>2, <2>3, <3>1 DEF LooksAt
    <3> QED BY <2>2, <3>1, <3>2
  <2> QED BY <1>1, <2>1, <2>3, LookMoves
<1>5. /\ At(t, do) /\ UNCHANGED <<queue, objVars, sigVars, connVars>> /\ LogOK'
      /\ do # "wait"
  BY SameLog DEF Look, SignalLabels
<1> QED BY <1>4, <1>5, ThreadBase

LEMMA HandBase ==
  ASSUME Base, NEW t \in Loops, Hand(t)
  PROVE  Base'
<1>1. PICK f : f = Head(stack[t])
  OBVIOUS
<1>2. PICK c, l : /\ c = f.arg
                  /\ l = IF ReceiverOf[c] = Nil THEN receiverLoop[c]
                         ELSE loop[ReceiverOf[c]]
  OBVIOUS
<1>3. /\ f \in Frames /\ f \in Range(stack[t]) /\ f.at = "hand" /\ c \in Conns
  BY <1>1, <1>2, HandMoves
<1>4. c \in Known /\ f.todo \subseteq Known
  BY <1>2, <1>3 DEF Base, KnownInv, KnownCalls, KnownCall
<1>5. /\ UNCHANGED <<objVars, sigVars, connVars, logVars>>
      /\ UNCHANGED receiverLoop /\ At(t, "hand") /\ ~At(t, "wait")
  BY DEF Hand, connVars, At
<1>6. \A u : LET e == Task("slot", c, f.id, u) IN
               e.sync = u /\ KnownTask(e, Known)
  BY <1>4, TaskTypes DEF KnownTask
<1>7. \A label : LET g == [f EXCEPT !.at = label] IN
               g.at = label /\ KnownCall(g, Known)
  <2>1. ASSUME NEW label, NEW g, g = [f EXCEPT !.at = label]
        PROVE  g.at = label /\ KnownCall(g, Known)
    <3>1. g.at = label /\ g.arg = f.arg /\ g.todo = f.todo
      BY <1>3, <2>1, RelabelTypes
    <3> QED BY <1>2, <1>4, <3>1 DEF KnownCall
  <2> QED BY <2>1
<1>8. ASSUME undefined' \in BOOLEAN PROVE LogOK'
  BY <1>5, <1>8 DEF Base, TypeOK, LogOK, logVars, emitVars
<1>9. undefined' \in BOOLEAN
  BY HandMoves DEF Base, TypeOK, LogOK
<1>10. CASE StackStep(t, {}) /\ UNCHANGED queue
  BY <1>5, <1>8, <1>9, <1>10, ThreadBase
<1>11. CASE StackStep(t, {[f EXCEPT !.at = "call"]}) /\ UNCHANGED queue
  <2>1. PICK g : g = [f EXCEPT !.at = "call"]
    OBVIOUS
  <2>2. StackStep(t, {g}) /\ KnownCall(g, Known) /\ g.at # "task"
    BY <1>7, <1>11, <2>1
  <2> QED BY <1>5, <1>8, <1>9, <1>11, <2>2, ThreadBase
<1>12. CASE /\ StackStep(t, {[f EXCEPT !.at = "wait"]}) /\ At(t, "wait")'
            /\ Posted(l, Task("slot", c, f.id, t))
  <2>1. PICK g : g = [f EXCEPT !.at = "wait"]
    OBVIOUS
  <2>2. PICK e : e = Task("slot", c, f.id, t)
    OBVIOUS
  <2>3. /\ StackStep(t, {g}) /\ KnownCall(g, Known) /\ g.at # "task"
        /\ Posted(l, e) /\ e.sync = t /\ KnownTask(e, Known)
    BY <1>6, <1>7, <1>12, <2>1, <2>2
  <2>4. Known' = Known
    BY <1>5 DEF Known
  <2>5. KnownStep(t, {g}, Known')
    BY <2>3, <2>4 DEF KnownStep
  <2>6. TokenInv'
    BY <1>5, <1>12, <2>3, TokenPosted
  <2>7. Calm
    BY <2>4, <2>5, <2>6, StepKnown DEF Calm
  <2> QED BY <1>5, <1>8, <1>9, <2>7, PlainBase
<1>13. CASE StackStep(t, {}) /\ Posted(l, Task("slot", c, f.id, Nil))
  <2>1. KnownStep(t, {}, Known) /\ Silent(t, {})
    BY <1>5, <1>6, <1>13 DEF KnownStep, Silent
  <2> QED BY <1>5, <1>8, <1>9, <2>1, StepCalm, PlainBase
<1> QED BY <1>1, <1>2, <1>10, <1>11, <1>12, <1>13, HandMoves

LEMMA CallSlotBase ==
  ASSUME Base, NEW t \in Loops, CallSlot(t)
  PROVE  Base'
<1>1. PICK f : f = Head(stack[t])
  OBVIOUS
<1>2. PICK c : c = f.arg
  OBVIOUS
<1>3. /\ f \in Frames /\ f \in Range(stack[t]) /\ f.at = "call" /\ c \in Conns
      /\ UNCHANGED queue /\ ran' = [ran EXCEPT ![c] = @ \cup {f.id}]
  BY <1>1, <1>2, CallSlotMoves
<1>4. PICK g \in Frames : /\ g.at = "slot" /\ g.arg = c /\ g.todo = f.todo
                          /\ StackStep(t, {g}) /\ g \in Range(stack'[t])
  BY <1>1, <1>2, CallSlotMoves
<1>5. KnownCall(g, Known) /\ g.at # "task"
  BY <1>2, <1>3, <1>4 DEF Base, KnownInv, KnownCalls, KnownCall, ConnLabels
<1>6. f.id \in Nat
  BY <1>3 DEF Frames
<1>7. LogOK'
  <2>1. ran' \in [Conns -> SUBSET Nat]
    BY <1>3, <1>6 DEF Base, TypeOK, LogOK
  <2> QED BY <2>1 DEF CallSlot, Base, TypeOK, LogOK
<1>8. At(t, "call") /\ UNCHANGED <<objVars, sigVars, connVars>>
  BY DEF CallSlot
<1> QED BY <1>3, <1>4, <1>5, <1>7, <1>8, ThreadBase

LEMMA EndSlotBase ==
  ASSUME Base, NEW t \in Loops, EndSlot(t)
  PROVE  Base'
BY EndSlotMoves, SameLog, ThreadBase DEF EndSlot

LEMMA BaseInit == Init => Base
<1> SUFFICES ASSUME Init PROVE Base
  OBVIOUS
<1> USE ConnectionAssumption
<1>1. \A l \in Loops : stack[l] = <<>> /\ queue[l] = <<>>
  BY DEF Init
<1>2. TypeOK
  <2>1. ObjectsOK
    BY DEF Init, ObjectsOK
  <2>2. SignalsOK /\ ConnsOK
    BY DEF Init, SignalsOK, ConnsOK
  <2>3. LogOK
    <3>1. calls \in 0 .. MaxCalls /\ emits \in Nat
      BY DEF Init
    <3>2. /\ due \in [Conns -> SUBSET Nat] /\ ran \in [Conns -> SUBSET Nat]
          /\ nested \subseteq Signals /\ undefined \in BOOLEAN
      BY DEF Init
    <3> QED BY <3>1, <3>2 DEF LogOK
  <2>4. queue \in [Loops -> Seq(Tasks)] /\ stack \in [Loops -> Seq(Frames)]
    BY DEF Init
  <2> QED BY <2>1, <2>2, <2>3, <2>4 DEF TypeOK
<1>3. StackInv
  BY <1>1, <1>2 DEF StackInv, StackOK, TypeOK
<1>4. TokenInv
  BY <1>1 DEF TokenInv, Once, Awaited, Token, Bottomed, Range
<1>5. KnownInv
  <2>1. KnownSets
    BY DEF Init, KnownSets
  <2>2. KnownCalls
    BY <1>1 DEF KnownCalls, Range
  <2> QED BY <2>1, <2>2 DEF KnownInv
<1> QED BY <1>2, <1>3, <1>4, <1>5 DEF Base

LEMMA BaseNext ==
  ASSUME Base, [Next]_vars
  PROVE  Base'
<1>1. CASE UNCHANGED vars
  <2>1. /\ UNCHANGED loopVars /\ UNCHANGED receiverLoop
        /\ UNCHANGED <<objVars, sigVars, connVars>>
        /\ UNCHANGED <<logVars, undefined>>
    BY <1>1 DEF vars, connVars
  <2> QED BY <2>1, CalmUnchanged, SameLog, PlainBase
<1>2. ASSUME NEW t \in Loops, UserCall(t) PROVE Base'
  <2>1. ASSUME NEW c \in Conns, Connect(t, c) PROVE Base'
    BY <2>1, ConnectBase
  <2>2. ASSUME NEW c \in Conns, Disconnect(t, c) PROVE Base'
    BY <2>2, DisconnectBase
  <2>3. ASSUME NEW o \in Objects, Destroy(t, o) PROVE Base'
    BY <2>3, DestroyBase
  <2>4. ASSUME NEW o \in Objects, NEW l \in Loops, MoveToLoop(t, o, l) PROVE Base'
    BY <2>4, MoveBase
  <2>5. ASSUME NEW s \in Signals, NEW sync \in BOOLEAN, Emit(t, s, sync)
        PROVE  Base'
    BY <2>5, EmitBase
  <2>6. ASSUME NEW call \in Calls, DisconnectQuery(t, call[3]) PROVE Base'
    BY <2>6, DisconnectQueryBase
  <2> QED BY <1>2, <2>1, <2>2, <2>3, <2>4, <2>5, <2>6 DEF UserCall
<1>3. ASSUME NEW t \in Loops, ThreadStep(t) PROVE Base'
  <2>1. CASE RunRegister(t) \/ RunEnter(t) \/ RunUnregister(t) \/ RunLeave(t)
    BY <2>1, RunRegisterBase, RunEnterBase, RunUnregisterBase, RunLeaveBase
  <2>2. CASE RunQuery(t) \/ RunSlot(t) \/ Return(t)
    BY <2>2, RunQueryBase, RunSlotBase, ReturnBase
  <2>3. CASE Enter(t) \/ Wire(t) \/ Test(t)
    BY <2>3, EnterThreadBase, WireBase, TestBase
  <2>4. CASE LeaveSender(t) \/ LeaveReceiver(t) \/ Each(t)
    BY <2>4, LeaveSenderBase, LeaveReceiverBase, EachBase
  <2>5. CASE \E do \in SignalLabels : RunDispatch(t, do) \/ Look(t, do)
    BY <2>5, RunDispatchBase, LookBase
  <2>6. CASE Hand(t) \/ CallSlot(t) \/ EndSlot(t)
    BY <2>6, HandBase, CallSlotBase, EndSlotBase
  <2> QED BY <1>3, <2>1, <2>2, <2>3, <2>4, <2>5, <2>6 DEF ThreadStep
<1> QED BY <1>1, <1>2, <1>3 DEF Next

LEMMA BaseInvariant == Spec => []Base
<1>1. Init => Base
  BY BaseInit
<1>2. Base /\ [Next]_vars => Base'
  BY BaseNext
<1> QED BY <1>1, <1>2, PTL DEF Spec

(* Every variable keeps its type: no call and no function posted to a loop *)
(* is about anything but what its kind needs, a slot is only posted to a   *)
(* loop there is, and no thread returns from a workSync it is not in.      *)
THEOREM ConnectionTypeCorrect == Spec => []TypeOK
<1>1. Base => TypeOK
  BY DEF Base
<1> QED BY <1>1, BaseInvariant, PTL
-----------------------------------------------------------------------------
(* Where functions and calls are, as long as objects have not been moved.  *)

(* Where the slot of a connection runs.                                    *)
Place(c) ==
  IF ReceiverOf[c] = Nil THEN receiverLoop[c] ELSE Home[ReceiverOf[c]]

CallHome(l, f) ==
  /\ f.at \in SignalLabels /\ Container[f.arg] \notin moved
       => l = Home[Container[f.arg]]
  /\ f.at = "hand" /\ Sender(f.arg) \notin moved => l = Home[Sender(f.arg)]
  /\ f.at = "call" /\ Unmoved(f.arg)
       => l = Place(f.arg) /\ ReceiverOf[f.arg] \in alive \cup {Nil}

TaskHome(l, e) ==
  /\ e.do \in SignalLabels /\ Container[e.arg] \notin moved
       => l = Home[Container[e.arg]]
  /\ e.do = "slot" /\ Unmoved(e.arg) => l = Place(e.arg)
  /\ e.do \in {"register", "unregister"} /\ Sender(e.arg) \notin moved
       => l = Home[Sender(e.arg)]
  /\ e.do \in {"enter", "leave"} /\ ReceiverOf[e.arg] \notin moved
       => l = Home[ReceiverOf[e.arg]]

LoopsHome ==
  /\ \A o \in Objects : o \notin moved => loop[o] = Home[o]
  /\ \A s \in Signals : Container[s] \notin moved
       => signalLoop[s] \in {Nil, Home[Container[s]]}

CallsHome ==
  /\ \A l \in Loops : \A f \in Range(stack[l]) : CallHome(l, f)
  /\ \A l \in Loops : \A e \in Range(queue[l]) : TaskHome(l, e)

HomeInv == LoopsHome /\ CallsHome

(* Calls and functions stay where they are when objects move or loops are  *)
(* told about new connections.                                             *)
LEMMA HomeStays ==
  ASSUME Base, HomeInv, moved \subseteq moved', UNCHANGED alive,
         \A c \in Known : receiverLoop'[c] = receiverLoop[c]
  PROVE  /\ \A l \in Loops : \A f \in Range(stack[l]) : CallHome(l, f)'
         /\ \A l \in Loops : \A e \in Range(queue[l]) : TaskHome(l, e)'
<1>1. \A c : Unmoved(c)' => Unmoved(c)
  BY DEF Unmoved
<1>2. \A c \in Known : Place(c)' = Place(c)
  BY DEF Place
<1>3. ASSUME NEW l \in Loops, NEW f \in Range(stack[l]) PROVE CallHome(l, f)'
  <2>1. CallHome(l, f) /\ (f.at = "call" => f.arg \in Known)
    BY DEF HomeInv, CallsHome, Base, KnownInv, KnownCalls, KnownCall, ConnLabels
  <2> QED BY <1>1, <1>2, <2>1 DEF CallHome
<1>4. ASSUME NEW l \in Loops, NEW e \in Range(queue[l]) PROVE TaskHome(l, e)'
  <2>1. TaskHome(l, e) /\ (e.do = "slot" => e.arg \in Known)
    BY DEF HomeInv, CallsHome, Base, KnownInv, KnownCalls, KnownTask, SignalLabels
  <2> QED BY <1>1, <1>2, <2>1 DEF TaskHome
<1> QED BY <1>3, <1>4

HomeTold(l, e) == Posted(l, e) /\ TaskHome(l, e)'

LEMMA HomeCalls ==
  ASSUME Base, HomeInv, moved \subseteq moved', UNCHANGED alive,
         \A c \in Known : receiverLoop'[c] = receiverLoop[c],
         NEW t \in Loops, NEW F, StackStep(t, F), \A f \in F : CallHome(t, f)',
         UNCHANGED queue \/ Taken(t) \/ \E l, e : HomeTold(l, e)
  PROVE  CallsHome'
<1>1. /\ \A l \in Loops : \A f \in Range(stack[l]) : CallHome(l, f)'
      /\ \A l \in Loops : \A e \in Range(queue[l]) : TaskHome(l, e)'
  BY HomeStays
<1>2. \A l \in Loops : \A f \in Range(stack'[l]) : CallHome(l, f)'
  BY <1>1 DEF StackStep
<1>3. \A l \in Loops : \A e \in Range(queue'[l]) : TaskHome(l, e)'
  <2>1. CASE UNCHANGED queue
    BY <1>1, <2>1
  <2>2. CASE Taken(t)
    BY <1>1, <2>2 DEF Taken
  <2>3. CASE \E l, e : HomeTold(l, e)
    BY <1>1, <2>3 DEF HomeTold, Posted
  <2> QED BY <2>1, <2>2, <2>3
<1> QED BY <1>2, <1>3 DEF CallsHome

(* A step that moves, destroys and connects nothing.                       *)
LEMMA HomeQuiet ==
  ASSUME Base, HomeInv, UNCHANGED <<loop, signalLoop, moved, alive, receiverLoop>>,
         NEW t \in Loops, NEW F, StackStep(t, F), \A f \in F : CallHome(t, f),
         \/ UNCHANGED queue \/ Taken(t)
         \/ \E l, e : Posted(l, e) /\ TaskHome(l, e)
  PROVE  HomeInv'
<1>1. \A c : (Unmoved(c)' <=> Unmoved(c)) /\ Place(c)' = Place(c)
  BY DEF Unmoved, Place
<1>2. \A f \in F : CallHome(t, f)'
  BY <1>1 DEF CallHome
<1>3. ASSUME NEW l, NEW e, Posted(l, e) /\ TaskHome(l, e) PROVE HomeTold(l, e)
  BY <1>1, <1>3 DEF TaskHome, HomeTold
<1>4. CallsHome'
  BY <1>2, <1>3, HomeCalls
<1>5. LoopsHome'
  BY DEF HomeInv, LoopsHome
<1> QED BY <1>4, <1>5 DEF HomeInv

(* Calls that are nowhere in particular.                                   *)
LEMMA HomeAnywhere ==
  ASSUME NEW f, f.at \notin SignalLabels \cup {"hand", "call"}, NEW l
  PROVE  CallHome(l, f)
BY DEF CallHome

(* The registration of a connection tells its signal the sender's loop.    *)
LEMMA RegisterHome ==
  ASSUME Base, LoopsHome, NEW c \in Conns, NEW r, Register(c, r),
         UNCHANGED <<loop, moved>>
  PROVE  LoopsHome'
<1>1. Sender(c) \in Objects /\ SignalOf[c] \in Signals
  BY PlaceTypes
<1>2. CASE Sender(c) \in alive
  <2>1. signalLoop' = [signalLoop EXCEPT ![SignalOf[c]] = loop[Sender(c)]]
    BY <1>2 DEF Register
  <2> QED BY <1>1, <2>1 DEF LoopsHome, Base, TypeOK, SignalsOK, Sender
<1>3. CASE Sender(c) \notin alive
  BY <1>3 DEF Register, LoopsHome, sigVars
<1> QED BY <1>2, <1>3

LEMMA HomeUser ==
  ASSUME Base, HomeInv, NEW t \in Loops, UserCall(t)
  PROVE  HomeInv'
<1>1. ASSUME NEW c \in Conns, Connect(t, c) PROVE HomeInv'
  <2> DEFINE g == Frame(IF ReceiverOf[c] = Nil THEN "wire" ELSE "enter", c, {}, 0)
             e == Task("register", c, 0, Nil)
  <2>1. /\ g.at \notin SignalLabels \cup {"hand", "call"}
        /\ e.do = "register" /\ e.arg = c
    BY FrameTypes, TaskTypes DEF SignalLabels
  <2>2. StackStep(t, {g})
        /\ IF loop[Sender(c)] = t THEN UNCHANGED queue
           ELSE Posted(loop[Sender(c)], e)
    BY <1>1, ConnectMoves
  <2> HIDE DEF g, e
  <2>3. UNCHANGED <<loop, alive, moved>> /\ Sender(c) \in Objects
    BY <1>1, PlaceTypes DEF Connect
  <2>4. \A d \in Known : receiverLoop'[d] = receiverLoop[d]
    BY <1>1 DEF Connect, Known, Base, TypeOK, ConnsOK
  <2>5. CallHome(t, g)'
    BY <2>1 DEF CallHome
  <2>6. Posted(loop[Sender(c)], e) => HomeTold(loop[Sender(c)], e)
    BY <2>1, <2>3 DEF HomeTold, TaskHome, HomeInv, LoopsHome, SignalLabels
  <2>7. UNCHANGED queue \/ Taken(t) \/ \E l, x : HomeTold(l, x)
    BY <2>2, <2>6
  <2>8. CallsHome'
    BY <2>2, <2>3, <2>4, <2>5, <2>7, HomeCalls
  <2>9. LoopsHome'
    <3>1. CASE loop[Sender(c)] = t
      BY <1>1, <2>3, <3>1, RegisterHome DEF Connect, HomeInv
    <3>2. CASE loop[Sender(c)] # t
      BY <1>1, <3>2 DEF Connect, HomeInv, LoopsHome, sigVars
    <3> QED BY <3>1, <3>2
  <2> QED BY <2>8, <2>9 DEF HomeInv
<1>2. ASSUME NEW c \in Conns, Disconnect(t, c) PROVE HomeInv'
  <2>1. PICK g : g = Frame("test", c, {}, 0)
    OBVIOUS
  <2>2. g.at \notin SignalLabels \cup {"hand", "call"}
    BY <2>1, FrameTypes DEF SignalLabels
  <2>3. StackStep(t, {g}) /\ UNCHANGED queue
    BY <1>2, <2>1, DisconnectMoves
  <2>4. UNCHANGED <<loop, signalLoop, moved, alive, receiverLoop>>
    BY <1>2 DEF Disconnect, objVars, sigVars, connVars
  <2> QED BY <2>2, <2>3, <2>4, HomeAnywhere, HomeQuiet
<1>3. ASSUME NEW o \in Objects, Destroy(t, o) PROVE HomeInv'
  <2>1. PICK g : g = Frame("each", o, asSender[o] \cup asReceiver[o], 0)
    OBVIOUS
  <2>2. g.at = "each"
    BY <2>1, FrameTypes
  <2>3. StackStep(t, {g}) /\ UNCHANGED queue
    BY <1>3, <2>1, DestroyMoves
  <2>4. /\ UNCHANGED <<loop, signalLoop, moved, receiverLoop>>
        /\ alive' = alive \ {o} /\ o \in alive /\ loop[o] = t
        /\ stack[t] = <<>> \/ At(t, "slot")
    BY <1>3 DEF Destroy, May, sigVars, connVars
  <2>5. \A c : (Unmoved(c)' <=> Unmoved(c)) /\ Place(c)' = Place(c)
    BY <2>4 DEF Unmoved, Place
  <2>6. \A f \in Range(stack[t]) : f.at # "call"
    <3>1. StackOK(stack[t]) /\ stack[t] \in Seq(Frames)
      BY DEF Base, StackInv
    <3>2. CASE stack[t] = <<>>
      BY <3>2 DEF Range
    <3>3. CASE stack[t] # <<>> /\ Head(stack[t]).at = "slot"
      BY <3>1, <3>3, HeadTailFacts DEF StackOK, SuspendedLabels, SignalLabels
    <3> QED BY <2>4, <3>2, <3>3 DEF At
  <2>7. ASSUME NEW l \in Loops, NEW f \in Range(stack'[l]) PROVE CallHome(l, f)'
    <3>1. CASE f = g
      BY <2>2, <3>1 DEF CallHome, SignalLabels
    <3>2. CASE f # g
      <4>1. f \in Range(stack[l])
        BY <2>3, <3>2 DEF StackStep
      <4>2. CallHome(l, f)
        BY <4>1 DEF HomeInv, CallsHome
      <4>3. CASE f.at = "call" /\ Unmoved(f.arg)
        <5>1. l = Place(f.arg) /\ ReceiverOf[f.arg] \in alive \cup {Nil}
          BY <4>2, <4>3 DEF CallHome
        <5>2. ReceiverOf[f.arg] # o
          <6> SUFFICES ASSUME ReceiverOf[f.arg] = o PROVE FALSE
            OBVIOUS
          <6>1. o # Nil /\ o \notin moved
            BY <4>3, PlaceTypes DEF Unmoved
          <6>2. l = Home[o] /\ loop[o] = Home[o]
            BY <5>1, <6>1 DEF Place, HomeInv, LoopsHome
          <6> QED BY <2>4, <2>6, <4>1, <4>3, <6>2
        <5>3. ReceiverOf[f.arg] \in alive' \cup {Nil}
          BY <2>4, <5>1, <5>2
        <5>4. f.at \notin SignalLabels \cup {"hand"}
          BY <4>3 DEF SignalLabels
        <5> QED BY <2>5, <5>1, <5>3, <5>4 DEF CallHome
      <4>4. CASE ~(f.at = "call" /\ Unmoved(f.arg))
        BY <2>4, <2>5, <4>2, <4>4 DEF CallHome
      <4> QED BY <4>3, <4>4
    <3> QED BY <3>1, <3>2
  <2>8. ASSUME NEW l \in Loops, NEW e \in Range(queue'[l]) PROVE TaskHome(l, e)'
    <3>1. TaskHome(l, e)
      BY <2>3 DEF HomeInv, CallsHome
    <3> QED BY <2>4, <2>5, <3>1 DEF TaskHome
  <2>9. LoopsHome'
    BY <2>4 DEF HomeInv, LoopsHome
  <2> QED BY <2>7, <2>8, <2>9 DEF HomeInv, CallsHome
<1>4. ASSUME NEW o \in Objects, NEW l \in Loops, MoveToLoop(t, o, l)
      PROVE  HomeInv'
  <2>1. /\ UNCHANGED <<stack, queue, alive, receiverLoop>>
        /\ moved' = moved \cup {o}
        /\ loop' = [loop EXCEPT ![o] = l]
        /\ signalLoop' = [s \in Signals |->
             IF Container[s] = o /\ signalLoop[s] # Nil THEN l ELSE signalLoop[s]]
    BY <1>4 DEF MoveToLoop, loopVars, connVars
  <2>2. CallsHome'
    BY <2>1, HomeStays DEF CallsHome
  <2>3. LoopsHome'
    BY <2>1 DEF HomeInv, LoopsHome, Base, TypeOK, ObjectsOK
  <2> QED BY <2>2, <2>3 DEF HomeInv
<1>5. ASSUME NEW s \in Signals, NEW sync \in BOOLEAN, Emit(t, s, sync)
      PROVE  HomeInv'
  <2>1. PICK do : do = IF sync THEN "dispatchSync" ELSE "dispatch"
    OBVIOUS
  <2>2. PICK g, w : /\ g = Frame(do, s, connects[s], emits + 1)
                    /\ w = Frame("wait", s, {}, 0)
    OBVIOUS
  <2>3. /\ do \in SignalLabels /\ g.at = do /\ g.arg = s /\ w.at = "wait"
        /\ \A u : /\ Task(do, s, 0, u).do = do /\ Task(do, s, 0, u).arg = s
    BY <2>1, <2>2, FrameTypes, TaskTypes DEF SignalLabels
  <2>4. UNCHANGED <<loop, signalLoop, moved, alive, receiverLoop>>
    BY <1>5 DEF Emit, objVars, sigVars, connVars
  <2>5. signalLoop[s] # Nil /\ Container[s] \notin moved
          => signalLoop[s] = Home[Container[s]]
    BY DEF HomeInv, LoopsHome
  <2>6. CallHome(t, w)
    BY <2>3, HomeAnywhere DEF SignalLabels
  <2>7. signalLoop[s] # Nil =>
          \A u : TaskHome(signalLoop[s], Task(do, s, 0, u))
    BY <2>3, <2>5 DEF TaskHome, SignalLabels
  <2>8. signalLoop[s] = t => CallHome(t, g)
    <3>1. t # Nil
      BY PlaceTypes
    <3> QED BY <2>3, <2>5, <3>1 DEF CallHome, SignalLabels
  <2>9. PICK F : /\ StackStep(t, F) /\ \A f \in F : CallHome(t, f)
                 /\ UNCHANGED queue \/ \E l, e : Posted(l, e) /\ TaskHome(l, e)
    <3>1. CASE StackStep(t, {}) /\ UNCHANGED queue
      BY <3>1
    <3>2. CASE signalLoop[s] = t /\ StackStep(t, {g}) /\ UNCHANGED queue
      BY <2>8, <3>2
    <3>3. CASE /\ signalLoop[s] # Nil /\ StackStep(t, {w})
               /\ Posted(signalLoop[s], Task(do, s, 0, t))
      BY <2>6, <2>7, <3>3
    <3>4. CASE /\ signalLoop[s] # Nil /\ StackStep(t, {})
               /\ Posted(signalLoop[s], Task(do, s, 0, Nil))
      BY <2>7, <3>4
    <3> QED BY <1>5, <2>1, <2>2, <3>1, <3>2, <3>3, <3>4, EmitMoves
  <2> QED BY <2>4, <2>9, HomeQuiet
<1>6. ASSUME NEW call \in Calls, DisconnectQuery(t, call[3]) PROVE HomeInv'
  <2>1. PICK q : q = call[3]
    OBVIOUS
  <2>2. PICK g, e : /\ g = Frame("each", q.object, Chosen(q), 0)
                    /\ e = Task("query", q, 0, Nil)
    OBVIOUS
  <2>3. CallHome(t, g) /\ e.do = "query"
    BY <2>2, FrameTypes, TaskTypes, HomeAnywhere DEF SignalLabels
  <2>4. UNCHANGED <<loop, signalLoop, moved, alive, receiverLoop>>
    BY <1>6 DEF DisconnectQuery, objVars, sigVars, connVars
  <2>5. \A l : TaskHome(l, e)
    BY <2>3 DEF TaskHome, SignalLabels
  <2>6. CASE StackStep(t, {g}) /\ UNCHANGED queue
    BY <2>3, <2>4, <2>6, HomeQuiet
  <2>7. CASE StackStep(t, {}) /\ Posted(loop[q.object], e)
    BY <2>4, <2>5, <2>7, HomeQuiet
  <2> QED BY <1>6, <2>1, <2>2, <2>6, <2>7, DisconnectQueryMoves
<1> QED BY <1>1, <1>2, <1>3, <1>4, <1>5, <1>6 DEF UserCall

LEMMA HomeThread ==
  ASSUME Base, HomeInv, NEW t \in Loops, ThreadStep(t)
  PROVE  HomeInv'
<1> DEFINE Fixed == UNCHANGED <<loop, signalLoop, moved, alive, receiverLoop>>
<1>1. CASE RunRegister(t)
  <2>1. PICK c : c = NextTask(t).arg
    OBVIOUS
  <2>2. /\ StackStep(t, {}) /\ Taken(t) /\ NextTask(t).do = "register"
    BY <1>1, RunMoves, TakeMoves DEF RunRegister
  <2>3. c \in Conns
    BY <2>1, <2>2 DEF Taken, Tasks, SignalLabels
  <2>4. UNCHANGED <<loop, moved, alive, receiverLoop>>
        /\ Register(c, receiverLoop[c])
    BY <1>1, <2>1 DEF RunRegister
  <2>5. LoopsHome'
    BY <2>3, <2>4, RegisterHome DEF HomeInv
  <2>6. CallsHome'
    BY <2>2, <2>4, HomeCalls
  <2> QED BY <2>5, <2>6 DEF HomeInv
<1>2. CASE RunEnter(t) \/ RunUnregister(t) \/ RunLeave(t)
  <2>1. StackStep(t, {}) /\ Taken(t)
    BY <1>2, RunMoves DEF RunEnter, RunUnregister, RunLeave
  <2>2. Fixed
    BY <1>2 DEF RunEnter, RunUnregister, RunLeave, sigVars, connVars
  <2> QED BY <2>1, <2>2, HomeQuiet
<1>3. CASE RunQuery(t)
  <2>1. PICK q : q = NextTask(t).arg
    OBVIOUS
  <2>2. PICK g : g = Frame("each", q.object, Chosen(q), 0)
    OBVIOUS
  <2>3. CallHome(t, g)
    BY <2>2, FrameTypes, HomeAnywhere DEF SignalLabels
  <2>4. Taken(t) /\ (StackStep(t, {g}) \/ StackStep(t, {}))
    BY <1>3, <2>1, <2>2, RunQueryMoves
  <2>5. Fixed
    BY <1>3 DEF RunQuery, objVars, sigVars, connVars
  <2> QED BY <2>3, <2>4, <2>5, HomeQuiet
<1>4. CASE RunSlot(t)
  <2>1. PICK e : e = NextTask(t)
    OBVIOUS
  <2>2. PICK g, b : g = Frame("call", e.arg, {}, e.id) /\ b = Bottom(e)
    OBVIOUS
  <2>3. /\ Taken(t) /\ e.do = "slot" /\ e.arg \in Conns
        /\ \/ ReceiverOf[e.arg] \in alive \cup {Nil} /\ StackStep(t, {g, b})
           \/ StackStep(t, {b})
    BY <1>4, <2>1, <2>2, RunSlotMoves
  <2>4. e \in Range(queue[t]) /\ e \in Tasks
    BY <2>1, <2>3 DEF Taken
  <2>5. CallHome(t, b)
    BY <2>2, <2>4, BottomFacts, HomeAnywhere DEF SignalLabels
  <2>6. ReceiverOf[e.arg] \in alive \cup {Nil} => CallHome(t, g)
    <3>1. g.at = "call" /\ g.arg = e.arg
      BY <2>2, FrameTypes
    <3>2. TaskHome(t, e)
      BY <2>4 DEF HomeInv, CallsHome
    <3> QED BY <2>3, <3>1, <3>2 DEF CallHome, TaskHome, SignalLabels
  <2>7. Fixed
    BY <1>4 DEF RunSlot, objVars, sigVars, connVars
  <2>8. CASE ReceiverOf[e.arg] \in alive \cup {Nil} /\ StackStep(t, {g, b})
    <3>1. \A f \in {g, b} : CallHome(t, f)
      BY <2>5, <2>6, <2>8
    <3> QED BY <2>3, <2>7, <2>8, <3>1, HomeQuiet
  <2>9. CASE StackStep(t, {b})
    BY <2>3, <2>5, <2>7, <2>9, HomeQuiet
  <2> QED BY <2>3, <2>8, <2>9
<1>5. CASE Return(t)
  <2>1. /\ \A l \in Loops : Range(stack'[l]) \subseteq Range(stack[l])
        /\ UNCHANGED queue
    BY <1>5, ReturnMoves
  <2>2. Fixed
    BY <1>5 DEF Return, objVars, sigVars, connVars
  <2>3. CallsHome'
    BY <2>1, <2>2, HomeStays DEF CallsHome
  <2> QED BY <2>2, <2>3 DEF HomeInv, LoopsHome
<1>6. CASE Enter(t)
  <2>1. PICK c : c = Head(stack[t]).arg
    OBVIOUS
  <2>2. PICK e : e = Task("enter", c, 0, Nil)
    OBVIOUS
  <2>3. PICK g \in Frames : g.at = "wire" /\ StackStep(t, {g})
    BY <1>6, EnterMoves
  <2>4. /\ c \in Conns /\ ReceiverOf[c] \in Objects
        /\ UNCHANGED queue \/ Posted(loop[ReceiverOf[c]], e)
    BY <1>6, <2>1, <2>2, EnterMoves
  <2>5. Fixed
    BY <1>6 DEF Enter, sigVars, connVars
  <2>6. CallHome(t, g)
    BY <2>3, HomeAnywhere DEF SignalLabels
  <2>7. TaskHome(loop[ReceiverOf[c]], e)
    BY <2>2, <2>4, TaskTypes DEF TaskHome, HomeInv, LoopsHome, SignalLabels
  <2> QED BY <2>3, <2>4, <2>5, <2>6, <2>7, HomeQuiet
<1>7. CASE Wire(t)
  <2>1. StackStep(t, {}) /\ UNCHANGED queue
    BY <1>7, WireMoves
  <2>2. Fixed
    BY <1>7 DEF Wire, objVars, sigVars
  <2> QED BY <2>1, <2>2, HomeQuiet
<1>8. CASE Test(t)
  <2>1. Fixed /\ UNCHANGED queue
    BY <1>8 DEF Test, objVars, sigVars, connVars
  <2>2. \/ \E g \in Frames : g.at = "sender" /\ StackStep(t, {g})
        \/ StackStep(t, {})
    BY <1>8, TestMoves
  <2>3. CASE StackStep(t, {})
    BY <2>1, <2>3, HomeQuiet
  <2>4. ASSUME NEW g, g.at = "sender", StackStep(t, {g}) PROVE HomeInv'
    BY <2>1, <2>4, HomeAnywhere, HomeQuiet DEF SignalLabels
  <2> QED BY <2>2, <2>3, <2>4
<1>9. CASE LeaveSender(t)
  <2>1. PICK c : c = Head(stack[t]).arg
    OBVIOUS
  <2>2. PICK e : e = Task("unregister", c, 0, Nil)
    OBVIOUS
  <2>3. PICK g \in Frames : g.at = "receiver" /\ StackStep(t, {g})
    BY <1>9, LeaveSenderMoves
  <2>4. c \in Conns /\ (UNCHANGED queue \/ Posted(loop[Sender(c)], e))
    BY <1>9, <2>1, <2>2, LeaveSenderMoves
  <2>5. Fixed
    BY <1>9 DEF LeaveSender, objVars, sigVars
  <2>6. CallHome(t, g)
    BY <2>3, HomeAnywhere DEF SignalLabels
  <2>7. TaskHome(loop[Sender(c)], e)
    <3>1. Sender(c) \in Objects
      BY <2>4, PlaceTypes
    <3> QED BY <2>2, <3>1, TaskTypes DEF TaskHome, HomeInv, LoopsHome, SignalLabels
  <2> QED BY <2>3, <2>4, <2>5, <2>6, <2>7, HomeQuiet
<1>10. CASE LeaveReceiver(t)
  <2>1. PICK c : c = Head(stack[t]).arg
    OBVIOUS
  <2>2. PICK e : e = Task("leave", c, 0, Nil)
    OBVIOUS
  <2>3. /\ StackStep(t, {}) /\ c \in Conns
        /\ IF ReceiverOf[c] \in alive THEN Posted(loop[ReceiverOf[c]], e)
           ELSE UNCHANGED queue
    BY <1>10, <2>1, <2>2, LeaveReceiverMoves
  <2>4. Fixed
    BY <1>10 DEF LeaveReceiver, objVars, sigVars
  <2>5. ReceiverOf[c] \in alive => TaskHome(loop[ReceiverOf[c]], e)
    <3>1. alive \subseteq Objects
      BY PlaceTypes
    <3> QED BY <2>2, <3>1, TaskTypes DEF TaskHome, HomeInv, LoopsHome, SignalLabels
  <2>6. CASE ReceiverOf[c] \in alive
    BY <2>3, <2>4, <2>5, <2>6, HomeQuiet
  <2>7. CASE ReceiverOf[c] \notin alive
    BY <2>3, <2>4, <2>7, HomeQuiet
  <2> QED BY <2>6, <2>7
<1>11. CASE Each(t)
  <2>1. Fixed /\ UNCHANGED queue
    BY <1>11 DEF Each, objVars, sigVars, connVars
  <2>2. CASE StackStep(t, {})
    BY <2>1, <2>2, HomeQuiet
  <2>3. ASSUME NEW c, NEW h, h.at = "each",
               StackStep(t, {Frame("test", c, {}, 0), h})
        PROVE  HomeInv'
    <3>1. PICK g : g = Frame("test", c, {}, 0)
      OBVIOUS
    <3>2. g.at = "test"
      BY <3>1, FrameTypes
    <3>3. CallHome(t, g) /\ CallHome(t, h)
      BY <2>3, <3>2, HomeAnywhere DEF SignalLabels
    <3>4. \A f \in {g, h} : CallHome(t, f)
      BY <3>3
    <3> QED BY <2>1, <2>3, <3>1, <3>4, HomeQuiet
  <2> QED BY <1>11, <2>2, <2>3, EachMoves
<1>12. ASSUME NEW do \in SignalLabels, RunDispatch(t, do) PROVE HomeInv'
  <2>1. PICK e : e = NextTask(t)
    OBVIOUS
  <2>2. PICK g, b : /\ g = Frame(do, e.arg, connects[e.arg], emits + 1)
                    /\ b = Bottom(e)
    OBVIOUS
  <2>3. /\ Taken(t) /\ e.do = do /\ e.arg \in Signals
        /\ StackStep(t, {g, b}) \/ StackStep(t, {b})
    BY <1>12, <2>1, <2>2, RunDispatchMoves
  <2>4. e \in Range(queue[t]) /\ e \in Tasks
    BY <2>1, <2>3 DEF Taken
  <2>5. CallHome(t, b)
    BY <2>2, <2>4, BottomFacts, HomeAnywhere DEF SignalLabels
  <2>6. CallHome(t, g)
    <3>1. g.at = do /\ g.arg = e.arg
      BY <2>2, FrameTypes
    <3>2. TaskHome(t, e)
      BY <2>4 DEF HomeInv, CallsHome
    <3> QED BY <2>3, <3>1, <3>2 DEF CallHome, TaskHome, SignalLabels
  <2>7. Fixed
    BY <1>12 DEF RunDispatch, objVars, sigVars, connVars
  <2>8. CASE StackStep(t, {g, b})
    <3>1. \A f \in {g, b} : CallHome(t, f)
      BY <2>5, <2>6
    <3> QED BY <2>3, <2>7, <2>8, <3>1, HomeQuiet
  <2>9. CASE StackStep(t, {b})
    BY <2>3, <2>5, <2>7, <2>9, HomeQuiet
  <2> QED BY <2>3, <2>8, <2>9
<1>13. ASSUME NEW do \in SignalLabels, Look(t, do) PROVE HomeInv'
  <2>1. PICK f : f = Head(stack[t])
    OBVIOUS
  <2>2. Fixed /\ UNCHANGED queue
    BY <1>13 DEF Look, objVars, sigVars, connVars
  <2>3. /\ f \in Range(stack[t]) /\ f.at = do /\ f.arg \in Signals
        /\ StackStep(t, {}) \/ \E c \in f.todo : LooksAt(t, f, c)
    BY <1>13, <2>1, LookMoves
  <2>4. CASE StackStep(t, {})
    BY <2>2, <2>4, HomeQuiet
  <2>5. ASSUME NEW c \in f.todo, LooksAt(t, f, c) PROVE HomeInv'
    <3>1. PICK g, h : /\ g = Frame("hand", c, {}, f.id)
                      /\ h = [f EXCEPT !.todo = @ \ {c}]
      OBVIOUS
    <3>2. /\ c \in Conns /\ SignalOf[c] = f.arg /\ h.at = do /\ h.arg = f.arg
          /\ StackStep(t, {g, h}) \/ StackStep(t, {h})
      BY <2>3, <2>5, <3>1 DEF LooksAt
    <3>3. g.at = "hand" /\ g.arg = c
      BY <3>1, FrameTypes
    <3>4. CallHome(t, f)
      BY <2>3 DEF HomeInv, CallsHome
    <3>5. CallHome(t, h)
      BY <2>3, <3>2, <3>4 DEF CallHome, SignalLabels
    <3>6. CallHome(t, g)
      BY <2>3, <3>2, <3>3, <3>4 DEF CallHome, SignalLabels, Sender
    <3>7. \A k \in {g, h} : CallHome(t, k)
      BY <3>5, <3>6
    <3> QED BY <2>2, <3>2, <3>5, <3>7, HomeQuiet
  <2> QED BY <2>3, <2>4, <2>5
<1>14. CASE Hand(t)
  <2>1. PICK f : f = Head(stack[t])
    OBVIOUS
  <2>2. PICK c, l : /\ c = f.arg
                    /\ l = IF ReceiverOf[c] = Nil THEN receiverLoop[c]
                           ELSE loop[ReceiverOf[c]]
    OBVIOUS
  <2>3. f \in Range(stack[t]) /\ f.at = "hand" /\ c \in Conns
    BY <1>14, <2>1, <2>2, HandMoves
  <2>4. Fixed
    BY <1>14 DEF Hand, objVars, sigVars, connVars
  <2>5. CallHome(t, f)
    BY <2>3 DEF HomeInv, CallsHome
  <2>6. ReceiverOf[c] \in alive \cup {Nil} /\ Unmoved(c) => l = Place(c)
    <3>1. alive \subseteq Objects
      BY PlaceTypes
    <3> QED BY <2>2, <3>1 DEF Place, Unmoved, HomeInv, LoopsHome
  <2>7. l \in Loops
    <3>1. c \in Known
      BY <2>2, <2>3 DEF Base, KnownInv, KnownCalls, KnownCall
    <3>2. ReceiverOf[c] = Nil \/ loop[ReceiverOf[c]] \in Loops
      BY <2>3, PlaceTypes
    <3> QED BY <2>2, <3>1, <3>2 DEF Known, Base, TypeOK, ConnsOK
  <2>8. CASE StackStep(t, {}) /\ UNCHANGED queue
    BY <2>4, <2>8, HomeQuiet
  <2>9. CASE /\ ReceiverOf[c] \in alive \cup {Nil} /\ l = signalLoop[SignalOf[c]]
             /\ StackStep(t, {[f EXCEPT !.at = "call"]}) /\ UNCHANGED queue
             /\ [f EXCEPT !.at = "call"].at = "call"
             /\ [f EXCEPT !.at = "call"].arg = c
    <3>1. PICK g : g = [f EXCEPT !.at = "call"]
      OBVIOUS
    <3>2. g.at = "call" /\ g.arg = c /\ StackStep(t, {g})
      BY <2>9, <3>1
    <3>3. Unmoved(c) => t = l
      <4> SUFFICES ASSUME Unmoved(c) PROVE t = l
        OBVIOUS
      <4>1. Sender(c) \notin moved
        BY DEF Unmoved
      <4>2. t = Home[Sender(c)]
        BY <2>2, <2>3, <2>5, <4>1 DEF CallHome, SignalLabels
      <4>3. SignalOf[c] \in Signals /\ Nil \notin Loops
        BY <2>3, PlaceTypes
      <4>4. signalLoop[SignalOf[c]] \in {Nil, Home[Sender(c)]}
        BY <4>1, <4>3 DEF HomeInv, LoopsHome, Sender
      <4> QED BY <2>7, <2>9, <4>2, <4>3, <4>4
    <3>4. CallHome(t, g)
      BY <2>6, <2>9, <3>2, <3>3 DEF CallHome, SignalLabels
    <3> QED BY <2>4, <2>9, <3>2, <3>4, HomeQuiet
  <2>10. ASSUME NEW u, ReceiverOf[c] \in alive \cup {Nil}
         PROVE  TaskHome(l, Task("slot", c, f.id, u))
    BY <2>6, <2>10, TaskTypes DEF TaskHome, SignalLabels
  <2>11. CASE /\ ReceiverOf[c] \in alive \cup {Nil}
              /\ StackStep(t, {[f EXCEPT !.at = "wait"]})
              /\ [f EXCEPT !.at = "wait"].at = "wait"
              /\ Posted(l, Task("slot", c, f.id, t))
    <3>1. PICK g : g = [f EXCEPT !.at = "wait"]
      OBVIOUS
    <3>2. CallHome(t, g)
      BY <2>11, <3>1, HomeAnywhere DEF SignalLabels
    <3> QED BY <2>4, <2>10, <2>11, <3>1, <3>2, HomeQuiet
  <2>12. CASE /\ ReceiverOf[c] \in alive \cup {Nil}
              /\ StackStep(t, {}) /\ Posted(l, Task("slot", c, f.id, Nil))
    BY <2>4, <2>10, <2>12, HomeQuiet
  <2> QED BY <1>14, <2>1, <2>2, <2>8, <2>9, <2>11, <2>12, HandMoves
<1>15. CASE CallSlot(t)
  <2>1. Fixed
    BY <1>15 DEF CallSlot, objVars, sigVars, connVars
  <2>2. PICK g \in Frames : g.at = "slot" /\ StackStep(t, {g})
    BY <1>15, CallSlotMoves
  <2>3. UNCHANGED queue
    BY <1>15, CallSlotMoves
  <2> QED BY <2>1, <2>2, <2>3, HomeAnywhere, HomeQuiet DEF SignalLabels
<1>16. CASE EndSlot(t)
  <2>1. Fixed
    BY <1>16 DEF EndSlot, objVars, sigVars, connVars
  <2>2. StackStep(t, {}) /\ UNCHANGED queue
    BY <1>16, EndSlotMoves
  <2> QED BY <2>1, <2>2, HomeQuiet
<1> QED BY <1>1, <1>2, <1>3, <1>4, <1>5, <1>6, <1>7, <1>8, <1>9, <1>10, <1>11,
           <1>12, <1>13, <1>14, <1>15, <1>16 DEF ThreadStep

LEMMA HomeInit == Init => HomeInv
<1> SUFFICES ASSUME Init PROVE HomeInv
  OBVIOUS
<1>1. \A l \in Loops : Range(stack[l]) = {} /\ Range(queue[l]) = {}
  BY DEF Init, Range
<1>2. LoopsHome
  BY DEF Init, LoopsHome
<1> QED BY <1>1, <1>2 DEF HomeInv, CallsHome

LEMMA HomeInvariant == Spec => []HomeInv
<1>1. ASSUME Base, HomeInv, [Next]_vars PROVE HomeInv'
  <2>1. CASE UNCHANGED vars
    <3>1. CallsHome'
      BY <1>1, <2>1, HomeStays
         DEF CallsHome, vars, loopVars, objVars, connVars
    <3>2. LoopsHome'
      BY <1>1, <2>1 DEF HomeInv, LoopsHome, vars, objVars, sigVars
    <3> QED BY <3>1, <3>2 DEF HomeInv
  <2>2. CASE Next
    BY <1>1, <2>2, HomeUser, HomeThread DEF Next
  <2> QED BY <1>1, <2>1, <2>2
<1> QED BY <1>1, HomeInit, BaseInvariant, PTL DEF Spec

(* A slot runs in the thread of its receiver's loop, or of the loop that   *)
(* connected it when it has no receiver; and a receiver is alive when its  *)
(* slot is called, however the emission, the posted function that carries  *)
(* it and the destruction of the receiver interleave.                      *)
THEOREM SlotsRunInPlace == Spec => []SlotInPlace
<1>1. ASSUME Base, HomeInv PROVE SlotInPlace
  <2> SUFFICES ASSUME NEW t \in Loops, At(t, "call"), Unmoved(Arg(t))
               PROVE  LET c == Arg(t)
                          r == ReceiverOf[c] IN
                      IF r = Nil THEN receiverLoop[c] = t
                      ELSE r \in alive /\ loop[r] = t
    BY DEF SlotInPlace
  <2>1. PICK f : f = Head(stack[t])
    OBVIOUS
  <2>2. /\ f \in Range(stack[t]) /\ f.at = "call" /\ Arg(t) = f.arg
    BY <1>1, <2>1, TopIs
  <2>3. t = Place(f.arg) /\ ReceiverOf[f.arg] \in alive \cup {Nil}
    BY <1>1, <2>2 DEF HomeInv, CallsHome, CallHome
  <2>4. ReceiverOf[f.arg] \in alive =>
          loop[ReceiverOf[f.arg]] = Home[ReceiverOf[f.arg]]
    BY <1>1, <2>2, PlaceTypes DEF Unmoved, HomeInv, LoopsHome
  <2> QED BY <1>1, <2>2, <2>3, <2>4, PlaceTypes DEF Place
<1> QED BY <1>1, BaseInvariant, HomeInvariant, PTL
-----------------------------------------------------------------------------
(* What calls and functions about a connection say of it: a round of slots *)
(* only misses the dead ones, a connect has not returned, a disconnect is  *)
(* only made of a connection whose connect has.                            *)

LinkLabels == SignalLabels \cup {"enter", "wire", "test", "sender", "receiver"}

CallLinks(l, f) ==
  /\ f.at \in SignalLabels
       => \A c \in f.todo : c \in connects[f.arg] \/ c \notin connAlive
  /\ f.at \in {"enter", "wire"} => f.arg \notin wired /\ receiverLoop[f.arg] = l
  /\ f.at = "enter" => f.arg \in connAlive
  /\ f.at \in {"test", "sender", "receiver"} => f.arg \in wired \/ undefined
  /\ f.at = "receiver" => f.arg \notin connAlive

TaskLinks(e) == e.do \in {"unregister", "leave"} => e.arg \notin connAlive

DueKnown == \A c \in Conns : due[c] # {} => c \in Known

LinkInv ==
  /\ \A l \in Loops : \A f \in Range(stack[l]) : CallLinks(l, f)
  /\ \A l \in Loops : \A e \in Range(queue[l]) : TaskLinks(e)
  /\ DueKnown

LinkTold(l, e) == Posted(l, e) /\ TaskLinks(e)'

LEMMA CallTypes ==
  ASSUME Base
  PROVE  /\ \A l \in Loops : \A f \in Range(stack[l]) : f \in Frames
         /\ \A l \in Loops : \A e \in Range(queue[l]) : e \in Tasks
<1>1. ASSUME NEW S, NEW s \in Seq(S), NEW x \in Range(s) PROVE x \in S
  BY DEF Range
<1>2. \A l \in Loops : stack[l] \in Seq(Frames) /\ queue[l] \in Seq(Tasks)
  BY DEF Base, TypeOK
<1> QED BY <1>1, <1>2

LEMMA LinkStep ==
  ASSUME Base, NEW t \in Loops, NEW F, StackStep(t, F),
         \A l \in Loops : \A f \in Range(stack[l]) : CallLinks(l, f)',
         \A f \in F : CallLinks(t, f)',
         \A l \in Loops : \A e \in Range(queue[l]) : TaskLinks(e)',
         UNCHANGED queue \/ Taken(t) \/ \E l, e : LinkTold(l, e),
         DueKnown'
  PROVE  LinkInv'
<1>1. \A l \in Loops : \A f \in Range(stack'[l]) : CallLinks(l, f)'
  BY DEF StackStep
<1>2. \A l \in Loops : \A e \in Range(queue'[l]) : TaskLinks(e)'
  <2>1. CASE UNCHANGED queue
    BY <2>1
  <2>2. CASE Taken(t)
    BY <2>2 DEF Taken
  <2>3. CASE \E l, e : LinkTold(l, e)
    BY <2>3 DEF LinkTold, Posted
  <2> QED BY <2>1, <2>2, <2>3
<1> QED BY <1>1, <1>2 DEF LinkInv

(* A step that changes nothing the links are about.                        *)
LEMMA LinkQuiet ==
  ASSUME Base, LinkInv, ~undefined,
         UNCHANGED <<connects, connAlive, wired, receiverLoop>>, DueKnown',
         NEW t \in Loops, NEW F, StackStep(t, F),
         \A f \in F : CallLinks(t, f) \/ CallLinks(t, f)',
         \/ UNCHANGED queue \/ Taken(t)
         \/ \E l, e : Posted(l, e) /\ TaskLinks(e)
  PROVE  LinkInv'
<1>1. \A l, f : CallLinks(l, f) => CallLinks(l, f)'
  BY DEF CallLinks
<1>2. \A e : TaskLinks(e) => TaskLinks(e)'
  BY DEF TaskLinks
<1>3. \A l, e : Posted(l, e) /\ TaskLinks(e) => LinkTold(l, e)
  BY <1>2 DEF LinkTold
<1>4. \A l \in Loops : \A f \in Range(stack[l]) : CallLinks(l, f)'
  BY <1>1 DEF LinkInv
<1>5. \A l \in Loops : \A e \in Range(queue[l]) : TaskLinks(e)'
  BY <1>2 DEF LinkInv
<1>6. \A f \in F : CallLinks(t, f)'
  BY <1>1
<1>7. UNCHANGED queue \/ Taken(t) \/ \E l, e : LinkTold(l, e)
  BY <1>3
<1> QED BY <1>4, <1>5, <1>6, <1>7, LinkStep

LEMMA LinkAnywhere ==
  ASSUME NEW f, f.at \notin LinkLabels, NEW l
  PROVE  CallLinks(l, f)
BY DEF CallLinks, LinkLabels

LEMMA DueKept ==
  ASSUME DueKnown, UNCHANGED <<due, receiverLoop>>
  PROVE  DueKnown'
BY DEF DueKnown, Known

(* The emission that begins is due at the registered connections only.     *)
LEMMA BeginDue ==
  ASSUME Base, DueKnown, NEW t, NEW do, NEW s \in Signals, NEW below,
         BeginDispatch(t, do, s, below), UNCHANGED receiverLoop
  PROVE  DueKnown'
<1>1. connects[s] \subseteq Known
  BY DEF Base, KnownInv, KnownSets
<1>2. \A c \in Conns : due'[c] = IF c \in connects[s] THEN due[c] \cup {emits + 1}
                                 ELSE due[c]
  BY DEF BeginDispatch
<1> QED BY <1>1, <1>2 DEF DueKnown, Known

LEMMA LinkConnect ==
  ASSUME Base, LinkInv, NEW t \in Loops, NEW c \in Conns, Connect(t, c)
  PROVE  LinkInv'
<1> DEFINE g == Frame(IF ReceiverOf[c] = Nil THEN "wire" ELSE "enter", c, {}, 0)
           e == Task("register", c, 0, Nil)
<1>1. g.at \in {"wire", "enter"} /\ g.arg = c /\ e.do = "register"
  BY FrameTypes, TaskTypes
<1>2. StackStep(t, {g})
      /\ IF loop[Sender(c)] = t THEN UNCHANGED queue
         ELSE Posted(loop[Sender(c)], e)
  BY ConnectMoves
<1> HIDE DEF g, e
<1>3. /\ receiverLoop[c] = Nil /\ connAlive' = connAlive \cup {c}
      /\ UNCHANGED <<wired, due>>
      /\ receiverLoop' = [receiverLoop EXCEPT ![c] = t]
  BY DEF Connect, emitVars
<1>4. c \notin Known /\ receiverLoop'[c] = t
      /\ \A d \in Conns \ {c} : receiverLoop'[d] = receiverLoop[d]
  BY <1>3 DEF Known, Base, TypeOK, ConnsOK
<1>5. \A s \in Signals : connects[s] \subseteq connects'[s]
  <2>1. CASE loop[Sender(c)] = t /\ Sender(c) \in alive
    <3>1. connects' = [connects EXCEPT ![SignalOf[c]] = @ \cup {c}]
      BY <2>1 DEF Connect, Register
    <3> QED BY <3>1 DEF Base, TypeOK, SignalsOK
  <2>2. CASE ~(loop[Sender(c)] = t /\ Sender(c) \in alive)
    BY <2>2 DEF Connect, Register, sigVars
  <2> QED BY <2>1, <2>2
<1>6. ASSUME NEW l \in Loops, NEW f \in Range(stack[l]) PROVE CallLinks(l, f)'
  <2>1. CallLinks(l, f) /\ KnownCall(f, Known)
    BY DEF LinkInv, Base, KnownInv, KnownCalls
  <2>2. f.at \in SignalLabels => f.arg \in Signals
    BY CallTypes DEF Frames
  <2>3. f.at \in {"enter", "wire", "test", "sender", "receiver"}
          => f.arg \in Conns \ {c}
    BY <1>4, <2>1 DEF KnownCall, ConnLabels, Known
  <2>4. c \notin f.todo
    BY <1>4, <2>1 DEF KnownCall
  <2>5. f.at \in SignalLabels
          => \A d \in f.todo : d \in connects'[f.arg] \/ d \notin connAlive'
    BY <1>3, <1>5, <2>1, <2>2, <2>4 DEF CallLinks
  <2>6. f.at \in {"test", "sender", "receiver"} => f.arg \in wired' \/ undefined'
    BY <1>3, <2>1 DEF CallLinks, Connect
  <2> QED BY <1>3, <1>4, <2>1, <2>3, <2>5, <2>6 DEF CallLinks
<1>7. CallLinks(t, g)'
  <2>1. c \notin wired
    BY <1>4 DEF Base, KnownInv, KnownSets
  <2> QED BY <1>1, <1>3, <1>4, <2>1 DEF CallLinks, SignalLabels
<1>8. ASSUME NEW l \in Loops, NEW x \in Range(queue[l]) PROVE TaskLinks(x)'
  <2>1. TaskLinks(x) /\ KnownTask(x, Known)
    BY DEF LinkInv, Base, KnownInv, KnownCalls
  <2> QED BY <1>3, <1>4, <2>1 DEF TaskLinks, KnownTask, SignalLabels
<1>9. DueKnown'
  BY <1>3, <1>4 DEF LinkInv, DueKnown, Known
<1>10. Posted(loop[Sender(c)], e) => LinkTold(loop[Sender(c)], e)
  BY <1>1 DEF LinkTold, TaskLinks
<1>11. UNCHANGED queue \/ Taken(t) \/ \E l, x : LinkTold(l, x)
  BY <1>2, <1>10
<1> QED BY <1>2, <1>6, <1>7, <1>8, <1>9, <1>11, LinkStep

LEMMA LinkUser ==
  ASSUME Base, LinkInv, ~undefined, NEW t \in Loops, UserCall(t)
  PROVE  LinkInv'
<1>1. ASSUME NEW c \in Conns, Connect(t, c) PROVE LinkInv'
  BY <1>1, LinkConnect
<1>2. ASSUME NEW c \in Conns, Disconnect(t, c) PROVE LinkInv'
  <2>1. PICK g : g = Frame("test", c, {}, 0)
    OBVIOUS
  <2>2. g.at = "test" /\ g.arg = c /\ c \in wired
    BY <1>2, <2>1, FrameTypes DEF Disconnect
  <2>3. StackStep(t, {g}) /\ UNCHANGED queue
    BY <1>2, <2>1, DisconnectMoves
  <2>4. UNCHANGED <<connects, connAlive, wired, receiverLoop, due>>
    BY <1>2 DEF Disconnect, sigVars, connVars, emitVars
  <2>5. CallLinks(t, g)
    BY <2>2 DEF CallLinks, SignalLabels
  <2>6. DueKnown'
    BY <2>4, DueKept DEF LinkInv
  <2> QED BY <2>3, <2>4, <2>5, <2>6, LinkQuiet
<1>3. ASSUME NEW o \in Objects, Destroy(t, o) PROVE LinkInv'
  <2>1. PICK g : g = Frame("each", o, asSender[o] \cup asReceiver[o], 0)
    OBVIOUS
  <2>2. CallLinks(t, g)
    BY <2>1, FrameTypes, LinkAnywhere DEF LinkLabels, SignalLabels
  <2>3. StackStep(t, {g}) /\ UNCHANGED queue
    BY <1>3, <2>1, DestroyMoves
  <2>4. UNCHANGED <<connects, connAlive, wired, receiverLoop, due>>
    BY <1>3 DEF Destroy, sigVars, connVars, emitVars
  <2>5. DueKnown'
    BY <2>4, DueKept DEF LinkInv
  <2> QED BY <2>2, <2>3, <2>4, <2>5, LinkQuiet
<1>4. ASSUME NEW o \in Objects, NEW l \in Loops, MoveToLoop(t, o, l)
      PROVE  LinkInv'
  <2>1. /\ UNCHANGED <<connects, connAlive, wired, receiverLoop, due>>
        /\ UNCHANGED <<stack, queue>>
    BY <1>4 DEF MoveToLoop, loopVars, connVars, emitVars
  <2>2. StackStep(t, {})
    BY <2>1, SameStep DEF Base
  <2>3. DueKnown'
    BY <2>1, DueKept DEF LinkInv
  <2> QED BY <2>1, <2>2, <2>3, LinkQuiet
<1>5. ASSUME NEW s \in Signals, NEW sync \in BOOLEAN, Emit(t, s, sync)
      PROVE  LinkInv'
  <2>1. PICK do : do = IF sync THEN "dispatchSync" ELSE "dispatch"
    OBVIOUS
  <2>2. PICK g, w : /\ g = Frame(do, s, connects[s], emits + 1)
                    /\ w = Frame("wait", s, {}, 0)
    OBVIOUS
  <2>3. /\ do \in SignalLabels /\ g.at = do /\ g.arg = s /\ w.at = "wait"
        /\ g.todo = connects[s] /\ \A u : Task(do, s, 0, u).do = do
    BY <2>1, <2>2, FrameTypes, TaskTypes DEF SignalLabels
  <2>4. UNCHANGED <<connects, connAlive, wired, receiverLoop>>
    BY <1>5 DEF Emit, sigVars, connVars
  <2>5. CallLinks(t, w)
    BY <2>3, LinkAnywhere DEF LinkLabels, SignalLabels
  <2>6. CallLinks(t, g)
    BY <2>3 DEF CallLinks, SignalLabels
  <2>7. \A u : TaskLinks(Task(do, s, 0, u))
    BY <2>3 DEF TaskLinks, SignalLabels
  <2>8. DueKnown'
    <3>1. UNCHANGED due \/ BeginDispatch(t, do, s, stack[t])
      BY <1>5, <2>1 DEF Emit
    <3> QED BY <2>4, <3>1, DueKept, BeginDue DEF LinkInv
  <2>9. CASE StackStep(t, {}) /\ UNCHANGED queue
    BY <2>4, <2>8, <2>9, LinkQuiet
  <2>10. CASE StackStep(t, {g}) /\ UNCHANGED queue
    BY <2>4, <2>6, <2>8, <2>10, LinkQuiet
  <2>11. CASE StackStep(t, {w}) /\ Posted(signalLoop[s], Task(do, s, 0, t))
    BY <2>4, <2>5, <2>7, <2>8, <2>11, LinkQuiet
  <2>12. CASE StackStep(t, {}) /\ Posted(signalLoop[s], Task(do, s, 0, Nil))
    BY <2>4, <2>7, <2>8, <2>12, LinkQuiet
  <2> QED BY <1>5, <2>1, <2>2, <2>9, <2>10, <2>11, <2>12, EmitMoves
<1>6. ASSUME NEW call \in Calls, DisconnectQuery(t, call[3]) PROVE LinkInv'
  <2>1. PICK q : q = call[3]
    OBVIOUS
  <2>2. PICK g, e : /\ g = Frame("each", q.object, Chosen(q), 0)
                    /\ e = Task("query", q, 0, Nil)
    OBVIOUS
  <2>3. CallLinks(t, g) /\ e.do = "query"
    BY <2>2, FrameTypes, TaskTypes, LinkAnywhere DEF LinkLabels, SignalLabels
  <2>4. UNCHANGED <<connects, connAlive, wired, receiverLoop, due>>
    BY <1>6 DEF DisconnectQuery, sigVars, connVars, emitVars
  <2>5. TaskLinks(e) /\ DueKnown'
    BY <2>3, <2>4, DueKept DEF TaskLinks, LinkInv
  <2>6. CASE StackStep(t, {g}) /\ UNCHANGED queue
    BY <2>3, <2>4, <2>5, <2>6, LinkQuiet
  <2>7. CASE StackStep(t, {}) /\ Posted(loop[q.object], e)
    BY <2>4, <2>5, <2>7, LinkQuiet
  <2> QED BY <1>6, <2>1, <2>2, <2>6, <2>7, DisconnectQueryMoves
<1> QED BY <1>1, <1>2, <1>3, <1>4, <1>5, <1>6 DEF UserCall

LEMMA LinkWire ==
  ASSUME Base, LinkInv, NEW t \in Loops, Wire(t)
  PROVE  LinkInv'
<1>1. PICK c : c = Arg(t)
  OBVIOUS
<1>2. At(t, "wire") /\ Pop(t) /\ wired' = wired \cup {c}
      /\ UNCHANGED <<queue, connects, connAlive, receiverLoop, due, undefined>>
  BY <1>1 DEF Wire, sigVars, logVars, emitVars
<1>3. stack[t] # <<>> /\ Head(stack[t]).at = "wire" /\ Head(stack[t]).arg = c
      /\ Head(stack[t]) \in Range(stack[t])
  BY <1>1, <1>2, TopIs DEF Arg
<1>4. receiverLoop[c] = t
  BY <1>3 DEF LinkInv, CallLinks
<1>5. /\ stack'[t] = Tail(stack[t])
      /\ \A l \in Loops \ {t} : stack'[l] = stack[l]
      /\ Range(stack'[t]) \subseteq Range(stack[t])
  BY <1>2, <1>3, PopStep DEF Base, Becomes
<1>6. StackOK(stack[t])
  BY DEF Base, StackInv
<1>7. ASSUME NEW l \in Loops, NEW f \in Range(stack'[l]) PROVE CallLinks(l, f)'
  <2>1. f \in Range(stack[l])
    <3>1. CASE l = t
      BY <1>5, <3>1
    <3>2. CASE l # t
      BY <1>5, <3>2
    <3> QED BY <3>1, <3>2
  <2>2. CallLinks(l, f)
    BY <2>1 DEF LinkInv
  <2>3. f.at \in {"enter", "wire"} => f.arg # c
    <3>1. CASE l = t
      <4>1. f.at \in SuspendedLabels
        BY <1>3, <1>5, <1>6, <3>1 DEF StackOK
      <4> QED BY <4>1 DEF SuspendedLabels, SignalLabels
    <3>2. CASE l # t
      BY <1>4, <2>2, <3>2 DEF CallLinks
    <3> QED BY <3>1, <3>2
  <2> QED BY <1>2, <2>2, <2>3 DEF CallLinks
<1>8. ASSUME NEW l \in Loops, NEW e \in Range(queue'[l]) PROVE TaskLinks(e)'
  BY <1>2 DEF LinkInv, TaskLinks
<1>9. DueKnown'
  BY <1>2, DueKept DEF LinkInv
<1> QED BY <1>7, <1>8, <1>9 DEF LinkInv

LEMMA LinkLeaveSender ==
  ASSUME Base, LinkInv, ~undefined, NEW t \in Loops, LeaveSender(t)
  PROVE  LinkInv'
<1>1. PICK c : c = Head(stack[t]).arg
  OBVIOUS
<1>2. PICK e : e = Task("unregister", c, 0, Nil)
  OBVIOUS
<1>3. /\ Head(stack[t]) \in Range(stack[t]) /\ Head(stack[t]).at = "sender"
      /\ connAlive' = connAlive \ {c}
  BY <1>1, LeaveSenderMoves
<1>4. PICK g \in Frames : g.at = "receiver" /\ g.arg = c /\ StackStep(t, {g})
  BY <1>1, LeaveSenderMoves
<1>5. IF Sender(c) \in alive THEN Posted(loop[Sender(c)], e) ELSE UNCHANGED queue
  BY <1>1, <1>2, LeaveSenderMoves
<1>6. UNCHANGED <<connects, wired, receiverLoop, due, undefined>>
  BY DEF LeaveSender, sigVars, logVars, emitVars
<1>7. c \in wired
  BY <1>1, <1>3 DEF LinkInv, CallLinks
<1>8. ASSUME NEW l \in Loops, NEW f \in Range(stack[l]) PROVE CallLinks(l, f)'
  <2>1. CallLinks(l, f)
    BY DEF LinkInv
  <2>2. f.at = "enter" => f.arg # c
    BY <1>7, <2>1 DEF CallLinks
  <2> QED BY <1>3, <1>6, <2>1, <2>2 DEF CallLinks
<1>9. CallLinks(t, g)'
  BY <1>3, <1>4, <1>6, <1>7 DEF CallLinks, SignalLabels
<1>10. \A l \in Loops : \A x \in Range(queue[l]) : TaskLinks(x)'
  BY <1>3 DEF LinkInv, TaskLinks
<1>11. TaskLinks(e)'
  BY <1>2, <1>3, TaskTypes DEF TaskLinks
<1>12. DueKnown'
  BY <1>6, DueKept DEF LinkInv
<1>13. UNCHANGED queue \/ Taken(t) \/ \E l, x : LinkTold(l, x)
  BY <1>5, <1>11 DEF LinkTold
<1> QED BY <1>4, <1>8, <1>9, <1>10, <1>12, <1>13, LinkStep

LEMMA LinkRegistration ==
  ASSUME Base, LinkInv, NEW t \in Loops, RunRegister(t) \/ RunUnregister(t)
  PROVE  LinkInv'
<1>1. PICK e : e = NextTask(t)
  OBVIOUS
<1>2. UNCHANGED <<stack, connAlive, wired, receiverLoop, due, undefined>>
  BY DEF RunRegister, RunUnregister, connVars, logVars, emitVars
<1>3. StackStep(t, {}) /\ Taken(t)
  BY <1>2, RunMoves DEF RunRegister, RunUnregister
<1>4. e \in Range(queue[t]) /\ e \in Tasks
  BY <1>1, <1>3 DEF Taken
<1>5. \A s \in Signals : \A c \in connects[s] :
        c \in connects'[s] \/ c \notin connAlive
  <2>1. CASE RunRegister(t)
    <3>1. Register(e.arg, receiverLoop[e.arg])
      BY <1>1, <2>1 DEF RunRegister
    <3>2. \/ UNCHANGED connects
          \/ connects' = [connects EXCEPT ![SignalOf[e.arg]] = @ \cup {e.arg}]
      BY <3>1 DEF Register, sigVars
    <3> QED BY <3>2 DEF Base, TypeOK, SignalsOK
  <2>2. CASE RunUnregister(t)
    <3>1. \/ UNCHANGED connects
          \/ connects' = [connects EXCEPT ![SignalOf[e.arg]] = @ \ {e.arg}]
      BY <1>1, <2>2 DEF RunUnregister
    <3>2. e.do = "unregister"
      BY <1>1, <2>2 DEF RunUnregister, NextIs, NextTask
    <3>3. e.arg \notin connAlive
      BY <1>4, <3>2 DEF LinkInv, TaskLinks
    <3> QED BY <3>1, <3>3 DEF Base, TypeOK, SignalsOK
  <2> QED BY <2>1, <2>2
<1>6. ASSUME NEW l \in Loops, NEW f \in Range(stack[l]) PROVE CallLinks(l, f)'
  <2>1. CallLinks(l, f)
    BY DEF LinkInv
  <2>2. f.at \in SignalLabels => f.arg \in Signals
    BY CallTypes DEF Frames
  <2>3. f.at \in SignalLabels
          => \A c \in f.todo : c \in connects'[f.arg] \/ c \notin connAlive'
    BY <1>2, <1>5, <2>1, <2>2 DEF CallLinks
  <2> QED BY <1>2, <2>1, <2>3 DEF CallLinks
<1>7. \A l \in Loops : \A x \in Range(queue[l]) : TaskLinks(x)'
  BY <1>2 DEF LinkInv, TaskLinks
<1>8. DueKnown'
  BY <1>2, DueKept DEF LinkInv
<1> QED BY <1>3, <1>6, <1>7, <1>8, LinkStep

LEMMA LinkThread ==
  ASSUME Base, LinkInv, ~undefined, NEW t \in Loops, ThreadStep(t)
  PROVE  LinkInv'
<1> DEFINE Fixed == UNCHANGED <<connects, connAlive, wired, receiverLoop, due>>
<1>0. Fixed => DueKnown'
  BY DueKept DEF LinkInv
<1>1. CASE RunRegister(t) \/ RunUnregister(t)
  BY <1>1, LinkRegistration
<1>2. CASE RunEnter(t) \/ RunLeave(t)
  <2>1. Fixed /\ UNCHANGED stack
    BY <1>2 DEF RunEnter, RunLeave, sigVars, connVars, logVars, emitVars
  <2>2. StackStep(t, {}) /\ Taken(t)
    BY <1>2, <2>1, RunMoves DEF RunEnter, RunLeave
  <2> QED BY <1>0, <2>1, <2>2, LinkQuiet
<1>3. CASE RunQuery(t)
  <2>1. PICK q : q = NextTask(t).arg
    OBVIOUS
  <2>2. PICK g : g = Frame("each", q.object, Chosen(q), 0)
    OBVIOUS
  <2>3. CallLinks(t, g)
    BY <2>2, FrameTypes, LinkAnywhere DEF LinkLabels, SignalLabels
  <2>4. Taken(t) /\ (StackStep(t, {g}) \/ StackStep(t, {}))
    BY <1>3, <2>1, <2>2, RunQueryMoves
  <2>5. Fixed
    BY <1>3 DEF RunQuery, sigVars, connVars, logVars, emitVars
  <2>6. CASE StackStep(t, {g})
    BY <1>0, <2>3, <2>4, <2>5, <2>6, LinkQuiet
  <2>7. CASE StackStep(t, {})
    BY <1>0, <2>4, <2>5, <2>7, LinkQuiet
  <2> QED BY <2>4, <2>6, <2>7
<1>4. CASE RunSlot(t)
  <2>1. PICK e : e = NextTask(t)
    OBVIOUS
  <2>2. PICK g, b : g = Frame("call", e.arg, {}, e.id) /\ b = Bottom(e)
    OBVIOUS
  <2>3. /\ Taken(t)
        /\ StackStep(t, {g, b}) \/ StackStep(t, {b})
    BY <1>4, <2>1, <2>2, RunSlotMoves
  <2>4. e \in Tasks
    BY <2>1, <2>3 DEF Taken
  <2>5. CallLinks(t, b)
    BY <2>2, <2>4, BottomFacts, LinkAnywhere DEF LinkLabels, SignalLabels
  <2>6. CallLinks(t, g)
    BY <2>2, FrameTypes, LinkAnywhere DEF LinkLabels, SignalLabels
  <2>7. Fixed
    BY <1>4 DEF RunSlot, sigVars, connVars, logVars, emitVars
  <2>8. CASE StackStep(t, {g, b})
    <3>1. \A f \in {g, b} : CallLinks(t, f)
      BY <2>5, <2>6
    <3> QED BY <1>0, <2>3, <2>7, <2>8, <3>1, LinkQuiet
  <2>9. CASE StackStep(t, {b})
    BY <1>0, <2>3, <2>5, <2>7, <2>9, LinkQuiet
  <2> QED BY <2>3, <2>8, <2>9
<1>5. CASE Return(t)
  <2>1. /\ \A l \in Loops : Range(stack'[l]) \subseteq Range(stack[l])
        /\ UNCHANGED queue
    BY <1>5, ReturnMoves
  <2>2. Fixed /\ UNCHANGED undefined
    BY <1>5 DEF Return, sigVars, connVars, logVars, emitVars
  <2>3. ASSUME NEW l \in Loops, NEW f \in Range(stack'[l]) PROVE CallLinks(l, f)'
    BY <2>1, <2>2 DEF LinkInv, CallLinks
  <2>4. ASSUME NEW l \in Loops, NEW e \in Range(queue'[l]) PROVE TaskLinks(e)'
    BY <2>1, <2>2 DEF LinkInv, TaskLinks
  <2> QED BY <1>0, <2>2, <2>3, <2>4 DEF LinkInv
<1>6. CASE Enter(t)
  <2>1. PICK c : c = Head(stack[t]).arg
    OBVIOUS
  <2>2. PICK e : e = Task("enter", c, 0, Nil)
    OBVIOUS
  <2>3. PICK g \in Frames : g.at = "wire" /\ g.arg = c /\ StackStep(t, {g})
    BY <1>6, <2>1, EnterMoves
  <2>4. /\ Head(stack[t]) \in Range(stack[t]) /\ Head(stack[t]).at = "enter"
        /\ UNCHANGED queue \/ Posted(loop[ReceiverOf[c]], e)
    BY <1>6, <2>1, <2>2, EnterMoves
  <2>5. Fixed
    BY <1>6 DEF Enter, sigVars, connVars, logVars, emitVars
  <2>6. CallLinks(t, Head(stack[t]))
    BY <2>4 DEF LinkInv
  <2>7. CallLinks(t, g)
    BY <2>1, <2>3, <2>4, <2>6 DEF CallLinks, SignalLabels
  <2>8. TaskLinks(e)
    BY <2>2, TaskTypes DEF TaskLinks
  <2> QED BY <1>0, <2>3, <2>4, <2>5, <2>7, <2>8, LinkQuiet
<1>7. CASE Wire(t)
  BY <1>7, LinkWire
<1>8. CASE Test(t)
  <2>1. PICK f : f = Head(stack[t])
    OBVIOUS
  <2>2. Fixed /\ UNCHANGED <<queue, undefined>>
    BY <1>8 DEF Test, sigVars, connVars, logVars, emitVars
  <2>3. /\ f \in Range(stack[t]) /\ f.at = "test"
        /\ \/ \E g \in Frames : /\ g.at = "sender" /\ g.arg = f.arg
                                /\ StackStep(t, {g})
           \/ StackStep(t, {})
    BY <1>8, <2>1, TestMoves
  <2>4. CASE StackStep(t, {})
    BY <1>0, <2>2, <2>4, LinkQuiet
  <2>5. ASSUME NEW g, g.at = "sender", g.arg = f.arg, StackStep(t, {g})
        PROVE  LinkInv'
    <3>1. CallLinks(t, f)
      BY <2>3 DEF LinkInv
    <3>2. CallLinks(t, g)
      BY <2>3, <2>5, <3>1 DEF CallLinks, SignalLabels
    <3> QED BY <1>0, <2>2, <2>5, <3>2, LinkQuiet
  <2> QED BY <2>3, <2>4, <2>5
<1>9. CASE LeaveSender(t)
  BY <1>9, LinkLeaveSender
<1>10. CASE LeaveReceiver(t)
  <2>1. PICK c : c = Head(stack[t]).arg
    OBVIOUS
  <2>2. PICK e : e = Task("leave", c, 0, Nil)
    OBVIOUS
  <2>3. /\ StackStep(t, {}) /\ c \in Conns
        /\ IF ReceiverOf[c] \in alive THEN Posted(loop[ReceiverOf[c]], e)
           ELSE UNCHANGED queue
    BY <1>10, <2>1, <2>2, LeaveReceiverMoves
  <2>4. Head(stack[t]) \in Range(stack[t]) /\ Head(stack[t]).at = "receiver"
    BY <1>10, LeaveReceiverMoves
  <2>5. Fixed
    BY <1>10 DEF LeaveReceiver, sigVars, logVars, emitVars
  <2>6. TaskLinks(e)
    <3>1. c \notin connAlive
      BY <2>1, <2>4 DEF LinkInv, CallLinks
    <3> QED BY <2>2, <3>1, TaskTypes DEF TaskLinks
  <2>7. CASE ReceiverOf[c] \in alive
    BY <1>0, <2>3, <2>5, <2>6, <2>7, LinkQuiet
  <2>8. CASE ReceiverOf[c] \notin alive
    BY <1>0, <2>3, <2>5, <2>8, LinkQuiet
  <2> QED BY <2>7, <2>8
<1>11. CASE Each(t)
  <2>1. Fixed /\ UNCHANGED queue
    BY <1>11 DEF Each, sigVars, connVars, logVars, emitVars
  <2>2. CASE StackStep(t, {})
    BY <1>0, <2>1, <2>2, LinkQuiet
  <2>3. ASSUME NEW c, NEW h, h.at = "each", undefined' = (c \notin wired),
               StackStep(t, {Frame("test", c, {}, 0), h})
        PROVE  LinkInv'
    <3>1. PICK g : g = Frame("test", c, {}, 0)
      OBVIOUS
    <3>2. g.at = "test" /\ g.arg = c
      BY <3>1, FrameTypes
    <3>3. CallLinks(t, g)'
      BY <2>1, <2>3, <3>2 DEF CallLinks, SignalLabels
    <3>4. CallLinks(t, h)
      BY <2>3, LinkAnywhere DEF LinkLabels, SignalLabels
    <3>5. \A f \in {g, h} : CallLinks(t, f) \/ CallLinks(t, f)'
      BY <3>3, <3>4
    <3> QED BY <1>0, <2>1, <2>3, <3>1, <3>5, LinkQuiet
  <2> QED BY <1>11, <2>2, <2>3, EachMoves
<1>12. ASSUME NEW do \in SignalLabels, RunDispatch(t, do) PROVE LinkInv'
  <2>1. PICK e : e = NextTask(t)
    OBVIOUS
  <2>2. PICK g, b : /\ g = Frame(do, e.arg, connects[e.arg], emits + 1)
                    /\ b = Bottom(e)
    OBVIOUS
  <2>3. /\ Taken(t) /\ e.arg \in Signals
        /\ StackStep(t, {g, b}) \/ StackStep(t, {b})
    BY <1>12, <2>1, <2>2, RunDispatchMoves
  <2>4. e \in Tasks
    BY <2>1, <2>3 DEF Taken
  <2>5. CallLinks(t, b)
    BY <2>2, <2>4, BottomFacts, LinkAnywhere DEF LinkLabels, SignalLabels
  <2>6. CallLinks(t, g)
    <3>1. g.at = do /\ g.arg = e.arg /\ g.todo = connects[e.arg]
      BY <2>2, FrameTypes
    <3> QED BY <3>1 DEF CallLinks, SignalLabels
  <2>7. UNCHANGED <<connects, connAlive, wired, receiverLoop>>
    BY <1>12 DEF RunDispatch, sigVars, connVars
  <2>8. DueKnown'
    <3>1. UNCHANGED due \/ BeginDispatch(t, do, e.arg, <<Bottom(e)>>)
      BY <1>12, <2>1 DEF RunDispatch
    <3> QED BY <2>3, <2>7, <3>1, DueKept, BeginDue DEF LinkInv
  <2>9. CASE StackStep(t, {g, b})
    <3>1. \A f \in {g, b} : CallLinks(t, f)
      BY <2>5, <2>6
    <3> QED BY <2>3, <2>7, <2>8, <2>9, <3>1, LinkQuiet
  <2>10. CASE StackStep(t, {b})
    BY <2>3, <2>5, <2>7, <2>8, <2>10, LinkQuiet
  <2> QED BY <2>3, <2>9, <2>10
<1>13. ASSUME NEW do \in SignalLabels, Look(t, do) PROVE LinkInv'
  <2>1. PICK f : f = Head(stack[t])
    OBVIOUS
  <2>2. Fixed /\ UNCHANGED queue
    BY <1>13 DEF Look, sigVars, connVars, logVars, emitVars
  <2>3. /\ f \in Range(stack[t]) /\ f.at = do
        /\ StackStep(t, {}) \/ \E c \in f.todo : LooksAt(t, f, c)
    BY <1>13, <2>1, LookMoves
  <2>4. CASE StackStep(t, {})
    BY <1>0, <2>2, <2>4, LinkQuiet
  <2>5. ASSUME NEW c \in f.todo, LooksAt(t, f, c) PROVE LinkInv'
    <3>1. PICK g, h : /\ g = Frame("hand", c, {}, f.id)
                      /\ h = [f EXCEPT !.todo = @ \ {c}]
      OBVIOUS
    <3>2. /\ h.at = do /\ h.arg = f.arg /\ h.todo = f.todo \ {c}
          /\ StackStep(t, {g, h}) \/ StackStep(t, {h})
      BY <2>3, <2>5, <3>1 DEF LooksAt
    <3>3. CallLinks(t, g)
      BY <3>1, FrameTypes, LinkAnywhere DEF LinkLabels, SignalLabels
    <3>4. CallLinks(t, f)
      BY <2>3 DEF LinkInv
    <3>5. CallLinks(t, h)
      BY <2>3, <3>2, <3>4 DEF CallLinks, SignalLabels
    <3>6. \A k \in {g, h} : CallLinks(t, k)
      BY <3>3, <3>5
    <3> QED BY <1>0, <2>2, <3>2, <3>5, <3>6, LinkQuiet
  <2> QED BY <2>3, <2>4, <2>5
<1>14. CASE Hand(t)
  <2>1. PICK f : f = Head(stack[t])
    OBVIOUS
  <2>2. PICK c, l : /\ c = f.arg
                    /\ l = IF ReceiverOf[c] = Nil THEN receiverLoop[c]
                           ELSE loop[ReceiverOf[c]]
    OBVIOUS
  <2>3. Fixed
    BY <1>14 DEF Hand, sigVars, connVars, logVars, emitVars
  <2>4. ASSUME NEW g, g.at \in {"call", "wait"} PROVE CallLinks(t, g)
    BY <2>4, LinkAnywhere DEF LinkLabels, SignalLabels
  <2>5. \A u : TaskLinks(Task("slot", c, f.id, u))
    BY TaskTypes DEF TaskLinks
  <2>6. CASE StackStep(t, {}) /\ UNCHANGED queue
    BY <1>0, <2>3, <2>6, LinkQuiet
  <2>7. CASE /\ StackStep(t, {[f EXCEPT !.at = "call"]}) /\ UNCHANGED queue
             /\ [f EXCEPT !.at = "call"].at = "call"
    <3>1. PICK g : g = [f EXCEPT !.at = "call"]
      OBVIOUS
    <3>2. g.at = "call" /\ StackStep(t, {g})
      BY <2>7, <3>1
    <3> QED BY <1>0, <2>3, <2>4, <2>7, <3>2, LinkQuiet
  <2>8. CASE /\ StackStep(t, {[f EXCEPT !.at = "wait"]})
             /\ [f EXCEPT !.at = "wait"].at = "wait"
             /\ Posted(l, Task("slot", c, f.id, t))
    <3>1. PICK g : g = [f EXCEPT !.at = "wait"]
      OBVIOUS
    <3>2. g.at = "wait" /\ StackStep(t, {g})
      BY <2>8, <3>1
    <3> QED BY <1>0, <2>3, <2>4, <2>5, <2>8, <3>2, LinkQuiet
  <2>9. CASE StackStep(t, {}) /\ Posted(l, Task("slot", c, f.id, Nil))
    BY <1>0, <2>3, <2>5, <2>9, LinkQuiet
  <2> QED BY <1>14, <2>1, <2>2, <2>6, <2>7, <2>8, <2>9, HandMoves
<1>15. CASE CallSlot(t)
  <2>1. PICK g \in Frames : g.at = "slot" /\ StackStep(t, {g})
    BY <1>15, CallSlotMoves
  <2>2. CallLinks(t, g)
    BY <2>1, LinkAnywhere DEF LinkLabels, SignalLabels
  <2>3. Fixed /\ UNCHANGED queue
    BY <1>15 DEF CallSlot, sigVars, connVars
  <2> QED BY <1>0, <2>1, <2>2, <2>3, LinkQuiet
<1>16. CASE EndSlot(t)
  <2>1. Fixed
    BY <1>16 DEF EndSlot, sigVars, connVars, logVars, emitVars
  <2>2. StackStep(t, {}) /\ UNCHANGED queue
    BY <1>16, EndSlotMoves
  <2> QED BY <1>0, <2>1, <2>2, LinkQuiet
<1> HIDE DEF Fixed
<1> QED BY <1>1, <1>2, <1>3, <1>4, <1>5, <1>6, <1>7, <1>8, <1>9, <1>10, <1>11,
           <1>12, <1>13, <1>14, <1>15, <1>16 DEF ThreadStep

LEMMA LinkInit == Init => LinkInv
BY DEF Init, LinkInv, DueKnown, Range

LEMMA LinkInvariant == Spec => []LinkInv
<1>1. Init => LinkInv
  BY LinkInit
<1>2. Base /\ LinkInv /\ [Next]_vars => LinkInv'
  <2> SUFFICES ASSUME Base, LinkInv, [Next]_vars PROVE LinkInv'
    OBVIOUS
  <2>1. CASE UNCHANGED vars
    BY <2>1 DEF LinkInv, CallLinks, TaskLinks, DueKnown, Known, vars, loopVars,
                sigVars, connVars, logVars, emitVars
  <2>2. CASE Next
    BY <2>2, LinkUser, LinkThread DEF Next
  <2> QED BY <2>1, <2>2
<1> QED BY <1>1, <1>2, BaseInvariant, PTL DEF Spec
-----------------------------------------------------------------------------
(* Emissions are not lost.                                                 *)

(* A call, or a posted function, that an emission is under way in.         *)
Carries(f, c, n) ==
  /\ f.id = n
  /\ \/ f.at \in SignalLabels /\ c \in f.todo
     \/ f.at \in {"hand", "call"} /\ f.arg = c

Bears(e, c, n) == e.do = "slot" /\ e.arg = c /\ e.id = n

Arrives(c, n) == n \in ran[c] \/ UnderWay(c, n) \/ Gone(c)

LEMMA UnderWayIs ==
  ASSUME NEW c, NEW n
  PROVE  /\ UnderWay(c, n) <=>
              \E l \in Loops : \/ \E e \in Range(queue[l]) : Bears(e, c, n)
                               \/ \E f \in Range(stack[l]) : Carries(f, c, n)
         /\ UnderWay(c, n)' <=>
              \E l \in Loops : \/ \E e \in Range(queue'[l]) : Bears(e, c, n)
                               \/ \E f \in Range(stack'[l]) : Carries(f, c, n)
BY DEF UnderWay, Range, Bears, Carries

LEMMA ArriveKept ==
  ASSUME Base, LinkInv, EmissionsArrive, alive' \subseteq alive,
         \A c \in Known : c \in connAlive' => c \in connAlive,
         \A c \in Conns : ran[c] \subseteq ran'[c],
         \A c \in Conns : \A n \in due'[c] : n \in due[c] \/ Arrives(c, n)',
         \A l \in Loops : \A f \in Range(stack[l]) : \A c \in Conns : \A n :
            Carries(f, c, n) => f \in Range(stack'[l]) \/ Arrives(c, n)',
         \A l \in Loops : \A e \in Range(queue[l]) : \A c \in Conns : \A n :
            Bears(e, c, n) => e \in Range(queue'[l]) \/ Arrives(c, n)'
  PROVE  EmissionsArrive'
<1> SUFFICES ASSUME NEW c \in Conns, NEW n \in due'[c] PROVE Arrives(c, n)'
  BY DEF EmissionsArrive, Arrives
<1> SUFFICES ASSUME n \in due[c] PROVE Arrives(c, n)'
  OBVIOUS
<1>1. CASE n \in ran[c]
  BY <1>1 DEF Arrives
<1>2. CASE Gone(c)
  <2>1. c \in Known
    BY DEF LinkInv, DueKnown
  <2>2. Gone(c)'
    BY <1>2, <2>1 DEF Gone
  <2> QED BY <2>2 DEF Arrives
<1>3. CASE UnderWay(c, n)
  <2>1. PICK l \in Loops : \/ \E e \in Range(queue[l]) : Bears(e, c, n)
                           \/ \E f \in Range(stack[l]) : Carries(f, c, n)
    BY <1>3, UnderWayIs
  <2>2. CASE \E e \in Range(queue[l]) : Bears(e, c, n)
    BY <2>2, UnderWayIs DEF Arrives
  <2>3. CASE \E f \in Range(stack[l]) : Carries(f, c, n)
    BY <2>3, UnderWayIs DEF Arrives
  <2> QED BY <2>1, <2>2, <2>3
<1> QED BY <1>1, <1>2, <1>3 DEF EmissionsArrive

(* Of the calls of a thread only the innermost ends, of the functions of   *)
(* its loop only the first.                                                *)
LEMMA ArriveMove ==
  ASSUME Base, LinkInv, EmissionsArrive, alive' \subseteq alive,
         \A c \in Known : c \in connAlive' => c \in connAlive,
         \A c \in Conns : ran[c] \subseteq ran'[c],
         \A c \in Conns : \A n \in due'[c] : n \in due[c] \/ Arrives(c, n)',
         NEW t \in Loops, NEW F, StackStep(t, F),
         \A c \in Conns : \A n : stack[t] # <<>> /\ Carries(Head(stack[t]), c, n)
            => Arrives(c, n)',
         \/ UNCHANGED queue \/ \E l, e : Posted(l, e)
         \/ Taken(t) /\ \A c \in Conns : \A n : Bears(NextTask(t), c, n)
                                                  => Arrives(c, n)'
  PROVE  EmissionsArrive'
<1>1. ASSUME NEW l \in Loops, NEW f \in Range(stack[l]), NEW c \in Conns, NEW n,
             Carries(f, c, n)
      PROVE  f \in Range(stack'[l]) \/ Arrives(c, n)'
  <2>1. CASE l = t
    <3>1. stack[t] # <<>>
      BY <2>1 DEF Range
    <3> QED BY <1>1, <2>1, <3>1 DEF StackStep
  <2>2. CASE l # t
    BY <2>2 DEF StackStep
  <2> QED BY <2>1, <2>2
<1>2. ASSUME NEW l \in Loops, NEW e \in Range(queue[l]), NEW c \in Conns, NEW n,
             Bears(e, c, n)
      PROVE  e \in Range(queue'[l]) \/ Arrives(c, n)'
  <2>1. CASE UNCHANGED queue
    BY <2>1
  <2>2. CASE \E m, x : Posted(m, x)
    BY <2>2 DEF Posted
  <2>3. CASE Taken(t) /\ \A d \in Conns : \A k : Bears(NextTask(t), d, k)
                                                   => Arrives(d, k)'
    <3>1. CASE l = t
      BY <1>2, <2>3, <3>1 DEF Taken
    <3>2. CASE l # t
      BY <2>3, <3>2 DEF Taken
    <3> QED BY <3>1, <3>2
  <2> QED BY <2>1, <2>2, <2>3
<1> QED BY <1>1, <1>2, ArriveKept

(* A step in which no emission gets anywhere.                              *)
LEMMA ArriveQuiet ==
  ASSUME Base, LinkInv, EmissionsArrive, alive' \subseteq alive,
         \A c \in Known : c \in connAlive' => c \in connAlive,
         UNCHANGED <<ran, due>>,
         NEW t \in Loops, NEW F, StackStep(t, F),
         stack[t] # <<>> =>
            Head(stack[t]).at \notin SignalLabels \cup {"hand", "call"},
         \/ UNCHANGED queue \/ \E l, e : Posted(l, e)
         \/ Taken(t) /\ NextTask(t).do # "slot"
  PROVE  EmissionsArrive'
<1>1. \A c, n : ~(stack[t] # <<>> /\ Carries(Head(stack[t]), c, n))
  BY DEF Carries
<1>2. NextTask(t).do # "slot" => \A c, n : ~Bears(NextTask(t), c, n)
  BY DEF Bears
<1> QED BY <1>1, <1>2, ArriveMove

(* Where an emission is after a step.                                      *)
LEMMA ArriveIn ==
  ASSUME NEW c, NEW n, NEW l \in Loops
  PROVE  /\ \A f \in Range(stack'[l]) : Carries(f, c, n) => Arrives(c, n)'
         /\ \A e \in Range(queue'[l]) : Bears(e, c, n) => Arrives(c, n)'
         /\ n \in ran'[c] => Arrives(c, n)'
         /\ Gone(c)' => Arrives(c, n)'
BY UnderWayIs DEF Arrives

LEMMA BeginArrive ==
  ASSUME Base, NEW t \in Loops, NEW do \in SignalLabels, NEW s \in Signals,
         NEW below, BeginDispatch(t, do, s, below),
         Frame(do, s, connects[s], emits + 1) \in Range(stack'[t])
  PROVE  \A c \in Conns : \A n \in due'[c] : n \in due[c] \/ Arrives(c, n)'
<1> SUFFICES ASSUME NEW c \in Conns, NEW n \in due'[c], n \notin due[c]
             PROVE  Arrives(c, n)'
  OBVIOUS
<1>1. due' = [d \in Conns |-> IF d \in connects[s] THEN due[d] \cup {emits + 1}
                              ELSE due[d]]
  BY DEF BeginDispatch
<1>2. c \in connects[s] /\ n = emits + 1
  BY <1>1
<1>3. PICK g : g = Frame(do, s, connects[s], emits + 1)
  OBVIOUS
<1>4. Carries(g, c, n)
  BY <1>2, <1>3, FrameTypes DEF Carries
<1>5. g \in Range(stack'[t])
  BY <1>3
<1> QED BY <1>4, <1>5, ArriveIn

LEMMA MayQuiet ==
  ASSUME Base, NEW t \in Loops, NEW op, NEW arg, May(t, op, arg)
  PROVE  stack[t] # <<>> =>
           Head(stack[t]).at \notin SignalLabels \cup {"hand", "call"}
BY DEF May, At, SignalLabels

LEMMA ArriveUser ==
  ASSUME Base, LinkInv, EmissionsArrive, NEW t \in Loops, UserCall(t)
  PROVE  EmissionsArrive'
<1>1. ASSUME NEW c \in Conns, Connect(t, c) PROVE EmissionsArrive'
  <2>1. /\ May(t, "connect", c) /\ receiverLoop[c] = Nil
        /\ connAlive' = connAlive \cup {c} /\ UNCHANGED <<alive, ran, due>>
    BY <1>1 DEF Connect, emitVars
  <2>2. \A d \in Known : d \in connAlive' => d \in connAlive
    BY <2>1 DEF Known
  <2>3. PICK F : StackStep(t, F)
    BY <1>1, ConnectMoves
  <2>4. UNCHANGED queue \/ \E l, e : Posted(l, e)
    BY <1>1, ConnectMoves
  <2> QED BY <2>1, <2>2, <2>3, <2>4, MayQuiet, ArriveQuiet
<1>2. ASSUME NEW c \in Conns, Disconnect(t, c) PROVE EmissionsArrive'
  <2>1. May(t, "disconnect", c) /\ UNCHANGED <<alive, connAlive, ran, due, queue>>
    BY <1>2 DEF Disconnect, objVars, connVars, emitVars
  <2>2. PICK F : StackStep(t, F)
    BY <1>2, DisconnectMoves
  <2> QED BY <2>1, <2>2, MayQuiet, ArriveQuiet
<1>3. ASSUME NEW o \in Objects, Destroy(t, o) PROVE EmissionsArrive'
  <2>1. /\ May(t, "destroy", o) /\ alive' \subseteq alive
        /\ UNCHANGED <<connAlive, ran, due, queue>>
    BY <1>3 DEF Destroy, connVars, emitVars
  <2>2. PICK F : StackStep(t, F)
    BY <1>3, DestroyMoves
  <2> QED BY <2>1, <2>2, MayQuiet, ArriveQuiet
<1>4. ASSUME NEW o \in Objects, NEW l \in Loops, MoveToLoop(t, o, l)
      PROVE  EmissionsArrive'
  <2>1. /\ May(t, "move", o)
        /\ UNCHANGED <<alive, connAlive, ran, due, queue, stack>>
    BY <1>4 DEF MoveToLoop, loopVars, connVars, emitVars
  <2>2. StackStep(t, {})
    BY <2>1, SameStep DEF Base
  <2> QED BY <2>1, <2>2, MayQuiet, ArriveQuiet
<1>5. ASSUME NEW s \in Signals, NEW sync \in BOOLEAN, Emit(t, s, sync)
      PROVE  EmissionsArrive'
  <2>1. PICK do : do = IF sync THEN "dispatchSync" ELSE "dispatch"
    OBVIOUS
  <2>2. PICK g, w : /\ g = Frame(do, s, connects[s], emits + 1)
                    /\ w = Frame("wait", s, {}, 0)
    OBVIOUS
  <2>3. PICK op : May(t, op, s)
    BY <1>5 DEF Emit
  <2>4. do \in SignalLabels /\ UNCHANGED <<alive, connAlive, ran>>
    BY <1>5, <2>1 DEF Emit, SignalLabels, objVars, connVars
  <2>5. CASE /\ UNCHANGED due /\ (\E F : StackStep(t, F))
             /\ UNCHANGED queue \/ \E l, e : Posted(l, e)
    <3>1. PICK F : StackStep(t, F)
      BY <2>5
    <3>2. stack[t] # <<>> =>
            Head(stack[t]).at \notin SignalLabels \cup {"hand", "call"}
      BY <2>3, MayQuiet
    <3> QED BY <2>4, <2>5, <3>1, <3>2, ArriveQuiet
  <2>6. CASE signalLoop[s] = t /\ StackStep(t, {g}) /\ g \in Range(stack'[t])
             /\ UNCHANGED queue
    <3>1. t # Nil
      BY PlaceTypes
    <3>2. BeginDispatch(t, do, s, stack[t])
      BY <1>5, <2>1, <2>6, <3>1 DEF Emit
    <3>3. \A c \in Conns : \A n \in due'[c] : n \in due[c] \/ Arrives(c, n)'
      BY <2>2, <2>4, <2>6, <3>2, BeginArrive
    <3>4. \A c, n : ~(stack[t] # <<>> /\ Carries(Head(stack[t]), c, n))
      BY <2>3, MayQuiet DEF Carries
    <3> QED BY <2>4, <2>6, <3>3, <3>4, ArriveMove
  <2> QED BY <1>5, <2>1, <2>2, <2>5, <2>6, EmitMoves
<1>6. ASSUME NEW call \in Calls, DisconnectQuery(t, call[3])
      PROVE  EmissionsArrive'
  <2>1. PICK q : q = call[3]
    OBVIOUS
  <2>2. May(t, "query", q) /\ UNCHANGED <<alive, connAlive, ran, due>>
    BY <1>6, <2>1 DEF DisconnectQuery, objVars, connVars, emitVars
  <2>3. PICK F : StackStep(t, F)
    BY <1>6, <2>1, DisconnectQueryMoves
  <2>4. UNCHANGED queue \/ \E l, e : Posted(l, e)
    BY <1>6, <2>1, DisconnectQueryMoves
  <2> QED BY <2>2, <2>3, <2>4, MayQuiet, ArriveQuiet
<1> QED BY <1>1, <1>2, <1>3, <1>4, <1>5, <1>6 DEF UserCall

(* The round of an emission goes on: a connection it passes over is dead,  *)
(* and all are when the container is.                                      *)
LEMMA ArriveLook ==
  ASSUME Base, LinkInv, EmissionsArrive, NEW t \in Loops,
         NEW do \in SignalLabels, Look(t, do)
  PROVE  EmissionsArrive'
<1>1. PICK f : f = Head(stack[t])
  OBVIOUS
<1>2. UNCHANGED <<alive, connAlive, ran, due, queue>>
  BY DEF Look, objVars, connVars, logVars, emitVars
<1>3. /\ f \in Frames /\ f \in Range(stack[t]) /\ f.at = do /\ f.arg \in Signals
      /\ \/ /\ f.todo = {} \/ Container[f.arg] \notin alive
            /\ StackStep(t, {})
         \/ \E c \in f.todo : LooksAt(t, f, c)
  BY <1>1, LookMoves
<1>4. ASSUME NEW c \in f.todo PROVE c \in Conns /\ Sender(c) = Container[f.arg]
  BY <1>3 DEF Frames, Sender
<1>5. f.at \notin {"hand", "call"}
  BY <1>3 DEF SignalLabels
<1>6. CASE (f.todo = {} \/ Container[f.arg] \notin alive) /\ StackStep(t, {})
  <2>1. ASSUME NEW c \in Conns, NEW n, Carries(f, c, n) PROVE Arrives(c, n)'
    <3>1. c \in f.todo
      BY <1>5, <2>1 DEF Carries
    <3>2. Sender(c) \notin alive \cup {Nil}
      BY <1>4, <1>6, <3>1, PlaceTypes
    <3>3. Gone(c)'
      BY <1>2, <3>2 DEF Gone
    <3> QED BY <3>3, ArriveIn
  <2> QED BY <1>1, <1>2, <1>6, <2>1, ArriveMove
<1>7. ASSUME NEW d \in f.todo, LooksAt(t, f, d) PROVE EmissionsArrive'
  <2>1. PICK g, h : /\ g = Frame("hand", d, {}, f.id)
                    /\ h = [f EXCEPT !.todo = @ \ {d}]
    OBVIOUS
  <2>2. /\ h.at = f.at /\ h.todo = f.todo \ {d} /\ h.id = f.id
        /\ h \in Range(stack'[t])
        /\ \/ /\ d \in connects[f.arg] \cap connAlive
              /\ StackStep(t, {g, h}) /\ g \in Range(stack'[t])
           \/ /\ d \notin connects[f.arg] \cap connAlive
              /\ StackStep(t, {h})
    BY <1>7, <2>1 DEF LooksAt
  <2>3. g.at = "hand" /\ g.arg = d /\ g.id = f.id
    BY <2>1, FrameTypes
  <2>4. PICK F : StackStep(t, F)
    BY <2>2
  <2>5. ASSUME NEW c \in Conns, NEW n, Carries(f, c, n) PROVE Arrives(c, n)'
    <3>1. c \in f.todo /\ f.id = n
      BY <1>5, <2>5 DEF Carries
    <3>2. CASE c # d
      <4>1. Carries(h, c, n)
        BY <1>3, <2>2, <3>1, <3>2 DEF Carries
      <4> QED BY <2>2, <4>1, ArriveIn
    <3>3. CASE c = d /\ g \in Range(stack'[t])
      <4>1. Carries(g, c, n)
        BY <2>3, <3>1, <3>3 DEF Carries
      <4> QED BY <3>3, <4>1, ArriveIn
    <3>4. CASE c = d /\ d \notin connects[f.arg] \cap connAlive
      <4>1. c \notin connAlive
        BY <1>3, <3>1, <3>4 DEF LinkInv, CallLinks
      <4>2. Gone(c)'
        BY <1>2, <4>1 DEF Gone
      <4> QED BY <4>2, ArriveIn
    <3> QED BY <2>2, <3>2, <3>3, <3>4
  <2> QED BY <1>1, <1>2, <2>4, <2>5, ArriveMove
<1> QED BY <1>3, <1>6, <1>7

LEMMA ArriveHand ==
  ASSUME Base, LinkInv, EmissionsArrive, NEW t \in Loops, Hand(t)
  PROVE  EmissionsArrive'
<1>1. PICK f : f = Head(stack[t])
  OBVIOUS
<1>2. PICK c, l : /\ c = f.arg
                  /\ l = IF ReceiverOf[c] = Nil THEN receiverLoop[c]
                         ELSE loop[ReceiverOf[c]]
  OBVIOUS
<1>3. UNCHANGED <<alive, connAlive, ran, due>>
  BY DEF Hand, objVars, connVars, logVars, emitVars
<1>4. f \in Range(stack[t]) /\ f.at = "hand" /\ c \in Conns
  BY <1>1, <1>2, HandMoves
<1>5. \A d, n : Carries(f, d, n) => d = c /\ n = f.id
  BY <1>2, <1>4 DEF Carries, SignalLabels
<1>6. (UNCHANGED queue \/ \E m, e : Posted(m, e)) /\ (\E F : StackStep(t, F))
      /\ Arrives(c, f.id)' => EmissionsArrive'
  BY <1>1, <1>3, <1>5, ArriveMove
<1>7. CASE /\ ReceiverOf[c] \notin alive \cup {Nil}
           /\ StackStep(t, {}) /\ UNCHANGED queue
  <2>1. Gone(c)'
    BY <1>3, <1>7 DEF Gone
  <2>2. Arrives(c, f.id)'
    BY <2>1, ArriveIn
  <2> QED BY <1>6, <1>7, <2>2
<1>8. ASSUME NEW g, g.at = "call", g.arg = c, g.id = f.id, StackStep(t, {g}),
             g \in Range(stack'[t]), UNCHANGED queue
      PROVE  EmissionsArrive'
  <2>1. Carries(g, c, f.id)
    BY <1>8 DEF Carries
  <2>2. Arrives(c, f.id)'
    BY <1>8, <2>1, ArriveIn
  <2> QED BY <1>6, <1>8, <2>2
<1>9. ASSUME NEW u, NEW F, StackStep(t, F), Posted(l, Task("slot", c, f.id, u))
      PROVE  EmissionsArrive'
  <2>1. PICK e : e = Task("slot", c, f.id, u)
    OBVIOUS
  <2>2. Bears(e, c, f.id)
    BY <2>1, TaskTypes DEF Bears
  <2>3. Posted(l, e) /\ l \in Loops /\ e \in Range(queue'[l])
    BY <1>9, <2>1 DEF Posted
  <2>4. Arrives(c, f.id)'
    BY <2>2, <2>3, ArriveIn
  <2> QED BY <1>6, <1>9, <2>3, <2>4
<1>10. PICK g, w : g = [f EXCEPT !.at = "call"] /\ w = [f EXCEPT !.at = "wait"]
  OBVIOUS
<1>11. \/ /\ ReceiverOf[c] \notin alive \cup {Nil}
          /\ StackStep(t, {}) /\ UNCHANGED queue
       \/ /\ g.at = "call" /\ g.arg = c /\ g.id = f.id
          /\ StackStep(t, {g}) /\ g \in Range(stack'[t]) /\ UNCHANGED queue
       \/ StackStep(t, {w}) /\ Posted(l, Task("slot", c, f.id, t))
       \/ StackStep(t, {}) /\ Posted(l, Task("slot", c, f.id, Nil))
  BY <1>1, <1>2, <1>10, HandMoves
<1> QED BY <1>7, <1>8, <1>9, <1>11

(* The receiver may have died before the function is run.                  *)
LEMMA ArriveRunSlot ==
  ASSUME Base, LinkInv, EmissionsArrive, NEW t \in Loops, RunSlot(t)
  PROVE  EmissionsArrive'
<1>1. PICK e : e = NextTask(t)
  OBVIOUS
<1>2. PICK g, b : g = Frame("call", e.arg, {}, e.id) /\ b = Bottom(e)
  OBVIOUS
<1>3. /\ Taken(t) /\ e.arg \in Conns /\ stack[t] = <<>>
      /\ \/ /\ ReceiverOf[e.arg] \in alive \cup {Nil}
            /\ StackStep(t, {g, b}) /\ g \in Range(stack'[t])
         \/ /\ ReceiverOf[e.arg] \notin alive \cup {Nil}
            /\ StackStep(t, {b})
  BY <1>1, <1>2, RunSlotMoves
<1>4. UNCHANGED <<alive, connAlive, ran, due>>
  BY DEF RunSlot, objVars, connVars, logVars, emitVars
<1>5. Arrives(e.arg, e.id)'
  <2>1. CASE g \in Range(stack'[t])
    <3>1. Carries(g, e.arg, e.id)
      BY <1>2, FrameTypes DEF Carries
    <3> QED BY <2>1, <3>1, ArriveIn
  <2>2. CASE ReceiverOf[e.arg] \notin alive \cup {Nil}
    <3>1. Gone(e.arg)'
      BY <1>4, <2>2 DEF Gone
    <3> QED BY <3>1, ArriveIn
  <2> QED BY <1>3, <2>1, <2>2
<1>6. \A c, n : Bears(e, c, n) => Arrives(c, n)'
  BY <1>5 DEF Bears
<1>7. PICK F : StackStep(t, F)
  BY <1>3
<1> QED BY <1>1, <1>3, <1>4, <1>6, <1>7, ArriveMove

LEMMA ArriveCallSlot ==
  ASSUME Base, LinkInv, EmissionsArrive, NEW t \in Loops, CallSlot(t)
  PROVE  EmissionsArrive'
<1>1. PICK f, c : f = Head(stack[t]) /\ c = f.arg
  OBVIOUS
<1>2. /\ f.at = "call" /\ c \in Conns /\ UNCHANGED queue
      /\ ran' = [ran EXCEPT ![c] = @ \cup {f.id}]
  BY <1>1, CallSlotMoves
<1>3. PICK F : StackStep(t, F)
  BY CallSlotMoves
<1>4. UNCHANGED <<alive, connAlive, due>>
  BY DEF CallSlot, objVars, connVars
<1>5. /\ \A d \in Conns : ran[d] \subseteq ran'[d]
      /\ f.id \in ran'[c]
  BY <1>2 DEF Base, TypeOK, LogOK
<1>6. \A d, n : Carries(f, d, n) => d = c /\ n = f.id
  BY <1>1, <1>2 DEF Carries, SignalLabels
<1>7. Arrives(c, f.id)'
  BY <1>5, ArriveIn
<1> QED BY <1>1, <1>2, <1>3, <1>4, <1>5, <1>6, <1>7, ArriveMove

LEMMA ArriveReturn ==
  ASSUME Base, LinkInv, EmissionsArrive, NEW t \in Loops, Return(t)
  PROVE  EmissionsArrive'
<1>1. UNCHANGED <<alive, connAlive, ran, due, queue>>
  BY DEF Return, objVars, connVars, logVars, emitVars
<1>2. \A l \in Loops : \A f \in Range(stack[l]) :
        f \in Range(stack'[l]) \/ f.at \in {"task", "wait"}
  BY ReturnMoves
<1>3. \A f, c, n : Carries(f, c, n) => f.at \notin {"task", "wait"}
  BY DEF Carries, SignalLabels
<1> QED BY <1>1, <1>2, <1>3, ArriveKept

LEMMA ArriveDispatch ==
  ASSUME Base, LinkInv, EmissionsArrive, NEW t \in Loops,
         NEW do \in SignalLabels, RunDispatch(t, do)
  PROVE  EmissionsArrive'
<1>1. PICK e : e = NextTask(t)
  OBVIOUS
<1>2. PICK g, b : /\ g = Frame(do, e.arg, connects[e.arg], emits + 1)
                  /\ b = Bottom(e)
  OBVIOUS
<1>3. /\ Taken(t) /\ e.do = do /\ e.arg \in Signals /\ stack[t] = <<>>
      /\ \/ /\ Container[e.arg] \in alive /\ StackStep(t, {g, b})
            /\ g \in Range(stack'[t])
         \/ /\ StackStep(t, {b}) /\ UNCHANGED <<emits, due, nested>>
  BY <1>1, <1>2, RunDispatchMoves
<1>4. UNCHANGED <<alive, connAlive, ran>>
  BY DEF RunDispatch, objVars, connVars
<1>5. e.do # "slot"
  BY <1>3 DEF SignalLabels
<1>6. CASE /\ Container[e.arg] \in alive /\ StackStep(t, {g, b})
           /\ g \in Range(stack'[t])
  <2>1. BeginDispatch(t, do, e.arg, <<b>>)
    BY <1>1, <1>2, <1>6 DEF RunDispatch
  <2>2. \A c \in Conns : \A n \in due'[c] : n \in due[c] \/ Arrives(c, n)'
    BY <1>2, <1>3, <1>6, <2>1, BeginArrive
  <2>3. \A c, n : ~Bears(e, c, n)
    BY <1>5 DEF Bears
  <2> QED BY <1>1, <1>3, <1>4, <1>6, <2>2, <2>3, ArriveMove
<1>7. CASE StackStep(t, {b}) /\ UNCHANGED <<emits, due, nested>>
  BY <1>1, <1>3, <1>4, <1>5, <1>7, ArriveQuiet
<1> QED BY <1>3, <1>6, <1>7

LEMMA ArriveThread ==
  ASSUME Base, LinkInv, EmissionsArrive, NEW t \in Loops, ThreadStep(t)
  PROVE  EmissionsArrive'
<1> DEFINE Still == UNCHANGED <<ran, due>> /\ alive' \subseteq alive
                      /\ connAlive' \subseteq connAlive
           Other == \/ UNCHANGED queue \/ \E l, e : Posted(l, e)
                    \/ Taken(t) /\ NextTask(t).do # "slot"
           Plain == stack[t] # <<>> =>
                      Head(stack[t]).at \notin SignalLabels \cup {"hand", "call"}
           Moves == \E F : StackStep(t, F)
<1>0. Still /\ Plain /\ Moves /\ Other => EmissionsArrive'
  BY ArriveQuiet
<1>1. ASSUME NEW label, At(t, label),
             label \notin SignalLabels \cup {"hand", "call"}
      PROVE  Plain
  BY <1>1 DEF At
<1>2. ASSUME NEW do, NextIs(t, do), Take(t), do # "slot"
      PROVE  Plain /\ Taken(t) /\ NextTask(t).do # "slot"
  BY <1>2, TakeMoves
<1>3. CASE RunRegister(t)
  <2>1. Still /\ UNCHANGED stack
    BY <1>3 DEF RunRegister, logVars, emitVars
  <2>2. NextIs(t, "register") /\ Take(t)
    BY <1>3 DEF RunRegister
  <2>3. StackStep(t, {})
    BY <2>1, SameStep DEF Base
  <2> QED BY <1>0, <1>2, <2>1, <2>2, <2>3
<1>4. CASE RunEnter(t)
  <2>1. Still /\ UNCHANGED stack
    BY <1>4 DEF RunEnter, connVars, logVars, emitVars
  <2>2. NextIs(t, "enter") /\ Take(t)
    BY <1>4 DEF RunEnter
  <2>3. StackStep(t, {})
    BY <2>1, SameStep DEF Base
  <2> QED BY <1>0, <1>2, <2>1, <2>2, <2>3
<1>5. CASE RunUnregister(t)
  <2>1. Still /\ UNCHANGED stack
    BY <1>5 DEF RunUnregister, connVars, logVars, emitVars
  <2>2. NextIs(t, "unregister") /\ Take(t)
    BY <1>5 DEF RunUnregister
  <2>3. StackStep(t, {})
    BY <2>1, SameStep DEF Base
  <2> QED BY <1>0, <1>2, <2>1, <2>2, <2>3
<1>6. CASE RunLeave(t)
  <2>1. Still /\ UNCHANGED stack
    BY <1>6 DEF RunLeave, connVars, logVars, emitVars
  <2>2. NextIs(t, "leave") /\ Take(t)
    BY <1>6 DEF RunLeave
  <2>3. StackStep(t, {})
    BY <2>1, SameStep DEF Base
  <2> QED BY <1>0, <1>2, <2>1, <2>2, <2>3
<1>7. CASE RunQuery(t)
  <2>1. Still
    BY <1>7 DEF RunQuery, objVars, connVars, logVars, emitVars
  <2>2. NextIs(t, "query") /\ Take(t)
    BY <1>7 DEF RunQuery
  <2>3. Moves
    BY <1>7, RunQueryMoves
  <2> QED BY <1>0, <1>2, <2>1, <2>2, <2>3
<1>8. CASE Enter(t)
  <2>1. Still
    BY <1>8 DEF Enter, connVars, logVars, emitVars
  <2>2. At(t, "enter") /\ "enter" \notin SignalLabels \cup {"hand", "call"}
    BY <1>8 DEF Enter, SignalLabels
  <2>3. Moves
    BY <1>8, EnterMoves
  <2>4. UNCHANGED queue \/ \E l, e : Posted(l, e)
    BY <1>8, EnterMoves
  <2> QED BY <1>0, <1>1, <2>1, <2>2, <2>3, <2>4
<1>9. CASE Wire(t)
  <2>1. Still
    BY <1>9 DEF Wire, objVars, logVars, emitVars
  <2>2. At(t, "wire") /\ "wire" \notin SignalLabels \cup {"hand", "call"}
    BY <1>9 DEF Wire, SignalLabels
  <2>3. Moves /\ UNCHANGED queue
    BY <1>9, WireMoves
  <2> QED BY <1>0, <1>1, <2>1, <2>2, <2>3
<1>10. CASE Test(t)
  <2>1. Still /\ UNCHANGED queue
    BY <1>10 DEF Test, objVars, connVars, logVars, emitVars
  <2>2. At(t, "test") /\ "test" \notin SignalLabels \cup {"hand", "call"}
    BY <1>10 DEF Test, SignalLabels
  <2>3. Moves
    BY <1>10, TestMoves
  <2> QED BY <1>0, <1>1, <2>1, <2>2, <2>3
<1>11. CASE LeaveSender(t)
  <2>1. Still
    BY <1>11 DEF LeaveSender, objVars, logVars, emitVars
  <2>2. At(t, "sender") /\ "sender" \notin SignalLabels \cup {"hand", "call"}
    BY <1>11 DEF LeaveSender, SignalLabels
  <2>3. Moves
    BY <1>11, LeaveSenderMoves
  <2>4. UNCHANGED queue \/ \E l, e : Posted(l, e)
    BY <1>11, LeaveSenderMoves
  <2> QED BY <1>0, <1>1, <2>1, <2>2, <2>3, <2>4
<1>12. CASE LeaveReceiver(t)
  <2>1. Still
    BY <1>12 DEF LeaveReceiver, objVars, logVars, emitVars
  <2>2. At(t, "receiver") /\ "receiver" \notin SignalLabels \cup {"hand", "call"}
    BY <1>12 DEF LeaveReceiver, SignalLabels
  <2>3. Moves
    BY <1>12, LeaveReceiverMoves
  <2>4. UNCHANGED queue \/ \E l, e : Posted(l, e)
    BY <1>12, LeaveReceiverMoves
  <2> QED BY <1>0, <1>1, <2>1, <2>2, <2>3, <2>4
<1>13. CASE Each(t)
  <2>1. Still /\ UNCHANGED queue
    BY <1>13 DEF Each, objVars, connVars, logVars, emitVars
  <2>2. At(t, "each") /\ "each" \notin SignalLabels \cup {"hand", "call"}
    BY <1>13 DEF Each, SignalLabels
  <2>3. Moves
    BY <1>13, EachMoves
  <2> QED BY <1>0, <1>1, <2>1, <2>2, <2>3
<1>14. CASE EndSlot(t)
  <2>1. Still
    BY <1>14 DEF EndSlot, objVars, connVars, logVars, emitVars
  <2>2. At(t, "slot") /\ "slot" \notin SignalLabels \cup {"hand", "call"}
    BY <1>14 DEF EndSlot, SignalLabels
  <2>3. Moves /\ UNCHANGED queue
    BY <1>14, EndSlotMoves
  <2> QED BY <1>0, <1>1, <2>1, <2>2, <2>3
<1> HIDE DEF Still, Other, Plain, Moves
<1>15. ASSUME NEW do \in SignalLabels, RunDispatch(t, do) \/ Look(t, do)
       PROVE  EmissionsArrive'
  BY <1>15, ArriveDispatch, ArriveLook
<1>16. CASE RunSlot(t) \/ Return(t) \/ Hand(t) \/ CallSlot(t)
  BY <1>16, ArriveRunSlot, ArriveReturn, ArriveHand, ArriveCallSlot
<1> QED BY <1>3, <1>4, <1>5, <1>6, <1>7, <1>8, <1>9, <1>10, <1>11, <1>12, <1>13,
           <1>14, <1>15, <1>16 DEF ThreadStep

(* No emission is lost, whatever slots do before its turn comes: each      *)
(* connection that was registered when it began is reached, or has been    *)
(* disconnected, or one of its ends is destroyed.                          *)
THEOREM NoEmissionLost == Spec => []EmissionsArrive
<1>1. Init => EmissionsArrive
  BY DEF Init, EmissionsArrive
<1>2. Base /\ LinkInv /\ EmissionsArrive /\ [Next]_vars => EmissionsArrive'
  <2> SUFFICES ASSUME Base, LinkInv, EmissionsArrive, [Next]_vars
               PROVE  EmissionsArrive'
    OBVIOUS
  <2>1. CASE UNCHANGED vars
    BY <2>1 DEF EmissionsArrive, UnderWay, Gone, vars, loopVars, objVars,
                connVars, logVars, emitVars
  <2>2. CASE Next
    BY <2>2, ArriveUser, ArriveThread DEF Next
  <2> QED BY <2>1, <2>2
<1> QED BY <1>1, <1>2, BaseInvariant, LinkInvariant, PTL DEF Spec
-----------------------------------------------------------------------------
(* Both ends of a connection agree about it.                               *)

Says(e, do, c) == e.do = do /\ e.arg = c
Tells(s, do, c) == \E i \in DOMAIN s : Says(s[i], do, c)
Followed(s, in, out, c) ==
  \A i \in DOMAIN s : Says(s[i], in, c) =>
    \E j \in DOMAIN s : j > i /\ Says(s[j], out, c)

(* What an end knows of connection c, by the functions s that wait in its  *)
(* loop: K are the connections alive, A those the end has, and J and L     *)
(* those whose connect, or disconnect, has still to tell it.  A function   *)
(* that would enter a dead connection is followed by one that removes it.  *)
EndOK(c, K, s, in, out, A, J, L) ==
  /\ c \in K => c \in A \/ c \in J \/ Tells(s, in, c)
  /\ c \in A => c \in K \/ c \in L \/ Tells(s, out, c)
  /\ c \in K \/ c \in L \/ Followed(s, in, out, c)

LEMMA AppendTells ==
  ASSUME NEW s \in Seq(Tasks), NEW e \in Tasks, NEW in, NEW out, in # out, NEW c
  PROVE  /\ \A do : Tells(s, do, c) \/ Says(e, do, c) => Tells(Append(s, e), do, c)
         /\ Followed(s, in, out, c) /\ ~Says(e, in, c)
              => Followed(Append(s, e), in, out, c)
         /\ Says(e, out, c) => Followed(Append(s, e), in, out, c)
<1>1. PICK u : u = Append(s, e)
  OBVIOUS
<1>2. PICK n : n = Len(s)
  OBVIOUS
<1>3. /\ n \in Nat /\ DOMAIN s = 1 .. n /\ DOMAIN u = 1 .. n + 1
      /\ \A i \in 1 .. n : u[i] = s[i]
      /\ u[n + 1] = e
  BY <1>1, <1>2, AppendFacts
<1>4. n + 1 \in DOMAIN u /\ \A i \in DOMAIN s : i \in DOMAIN u /\ i < n + 1
  BY <1>3
<1>5. \A i \in DOMAIN u : i = n + 1 \/ i \in DOMAIN s
  BY <1>3
<1>6. \A do : Tells(s, do, c) \/ Says(e, do, c) => Tells(u, do, c)
  BY <1>3, <1>4 DEF Tells
<1>7. Followed(s, in, out, c) /\ ~Says(e, in, c) => Followed(u, in, out, c)
  <2> SUFFICES ASSUME Followed(s, in, out, c), ~Says(e, in, c),
                      NEW i \in DOMAIN u, Says(u[i], in, c)
               PROVE  \E j \in DOMAIN u : j > i /\ Says(u[j], out, c)
    BY DEF Followed
  <2>1. i \in DOMAIN s /\ Says(s[i], in, c)
    BY <1>3, <1>5
  <2>2. PICK j \in DOMAIN s : j > i /\ Says(s[j], out, c)
    BY <2>1 DEF Followed
  <2> QED BY <1>3, <1>4, <2>2
<1>8. Says(e, out, c) => Followed(u, in, out, c)
  <2> SUFFICES ASSUME Says(e, out, c), NEW i \in DOMAIN u, Says(u[i], in, c)
               PROVE  \E j \in DOMAIN u : j > i /\ Says(u[j], out, c)
    BY DEF Followed
  <2>1. i # n + 1
    BY <1>3 DEF Says
  <2>2. n + 1 > i
    BY <1>3, <2>1
  <2> QED BY <1>3, <1>4, <2>2
<1> QED BY <1>1, <1>6, <1>7, <1>8

LEMMA TailTells ==
  ASSUME NEW s \in Seq(Tasks), s # <<>>, NEW in, NEW out, in # out, NEW c
  PROVE  /\ \A do : Tells(s, do, c) => Tells(Tail(s), do, c) \/ Says(Head(s), do, c)
         /\ Followed(s, in, out, c) => /\ Followed(Tail(s), in, out, c)
                                       /\ Says(Head(s), in, c)
                                            => Tells(Tail(s), out, c)
<1>1. PICK u : u = Tail(s)
  OBVIOUS
<1>2. PICK n : n = Len(s)
  OBVIOUS
<1>3. /\ n \in Nat \ {0} /\ DOMAIN s = 1 .. n /\ s[1] = Head(s)
      /\ \A i \in 1 .. n - 1 : u[i] = s[i + 1]
      /\ u \in Seq(Tasks) /\ Len(u) = n - 1
  BY <1>1, <1>2, HeadTailFacts
<1>4. DOMAIN u = 1 .. n - 1
  BY <1>3
<1>5. \A i \in DOMAIN s : i # 1 => i - 1 \in DOMAIN u /\ u[i - 1] = s[i]
  BY <1>3, <1>4
<1>6. \A do : Tells(s, do, c) => Tells(u, do, c) \/ Says(Head(s), do, c)
  BY <1>3, <1>5 DEF Tells
<1>7. ASSUME Followed(s, in, out, c) PROVE Followed(u, in, out, c)
  <2> SUFFICES ASSUME NEW i \in DOMAIN u, Says(u[i], in, c)
               PROVE  \E j \in DOMAIN u : j > i /\ Says(u[j], out, c)
    BY DEF Followed
  <2>1. i + 1 \in DOMAIN s /\ Says(s[i + 1], in, c) /\ i \in Nat
    BY <1>3, <1>4
  <2>2. PICK j \in DOMAIN s : j > i + 1 /\ Says(s[j], out, c)
    BY <1>7, <2>1 DEF Followed
  <2>3. j # 1 /\ j - 1 > i /\ j \in Nat
    BY <1>3, <2>1, <2>2
  <2> QED BY <1>5, <2>2, <2>3
<1>8. ASSUME Followed(s, in, out, c), Says(Head(s), in, c) PROVE Tells(u, out, c)
  <2>1. 1 \in DOMAIN s /\ Says(s[1], in, c)
    BY <1>3, <1>8
  <2>2. PICK j \in DOMAIN s : j > 1 /\ Says(s[j], out, c)
    BY <1>8, <2>1 DEF Followed
  <2> QED BY <1>3, <1>5, <2>2 DEF Tells
<1> QED BY <1>1, <1>6, <1>7, <1>8

LEMMA EndAlive ==
  ASSUME NEW c, NEW K, NEW s, NEW in, NEW out, NEW A, NEW J, NEW L,
         c \in K, c \in A \/ c \in J \/ Tells(s, in, c)
  PROVE  EndOK(c, K, s, in, out, A, J, L)
BY DEF EndOK

LEMMA EndDead ==
  ASSUME NEW c, NEW K, NEW s, NEW in, NEW out, NEW A, NEW J, NEW L,
         c \notin K, c \in L
  PROVE  EndOK(c, K, s, in, out, A, J, L)
BY DEF EndOK

(* The last function posted removes the connection.                        *)
LEMMA EndTold ==
  ASSUME NEW c, NEW K, NEW s \in Seq(Tasks), NEW in, NEW out, in # out, NEW A,
         NEW J, NEW L, c \notin K, NEW e \in Tasks, Says(e, out, c)
  PROVE  EndOK(c, K, Append(s, e), in, out, A, J, L)
BY AppendTells DEF EndOK

(* The end runs the function that enters the connection.                   *)
LEMMA EndEnters ==
  ASSUME NEW c, NEW K, NEW s \in Seq(Tasks), s # <<>>, NEW in, NEW out, in # out,
         NEW A, NEW B, NEW J, NEW L, EndOK(c, K, s, in, out, A, J, L),
         Says(Head(s), in, c), c \in B
  PROVE  EndOK(c, K, Tail(s), in, out, B, J, L)
BY TailTells DEF EndOK

(* The end runs the function that removes it.                              *)
LEMMA EndLeaves ==
  ASSUME NEW c, NEW K, NEW s \in Seq(Tasks), s # <<>>, NEW in, NEW out, in # out,
         NEW A, NEW B, NEW J, NEW L, EndOK(c, K, s, in, out, A, J, L),
         c \notin K, c \notin B
  PROVE  EndOK(c, K, Tail(s), in, out, B, J, L)
BY TailTells DEF EndOK

(* The functions of the loop do not concern the end in this step.          *)
Aside(s, u, c, in, out) ==
  \/ u = s
  \/ \E e \in Tasks : u = Append(s, e) /\ ~Says(e, in, c)
  \/ /\ s # <<>> /\ u = Tail(s)
     /\ ~Says(Head(s), in, c) /\ ~Says(Head(s), out, c)

LEMMA EndKept ==
  ASSUME NEW c, NEW K, NEW K2, NEW s \in Seq(Tasks), NEW u, NEW in, NEW out,
         in # out, NEW A, NEW A2, NEW J, NEW J2, NEW L, NEW L2,
         EndOK(c, K, s, in, out, A, J, L), Aside(s, u, c, in, out),
         c \in K2 <=> c \in K, c \in A2 <=> c \in A,
         c \in J => c \in J2, c \in L => c \in L2
  PROVE  EndOK(c, K2, u, in, out, A2, J2, L2)
<1>1. Tells(s, in, c) => Tells(u, in, c)
  BY AppendTells, TailTells DEF Aside
<1>2. Tells(s, out, c) => Tells(u, out, c)
  BY AppendTells, TailTells DEF Aside
<1>3. Followed(s, in, out, c) => Followed(u, in, out, c)
  BY AppendTells, TailTells DEF Aside
<1> QED BY <1>1, <1>2, <1>3 DEF EndOK

Calling(at) ==
  {c \in Conns : \E l \in Loops : \E f \in Range(stack[l]) : f.at = at /\ f.arg = c}

SenderOK(c) ==
  Sender(c) \in alive \ moved =>
    EndOK(c, connAlive, queue[Home[Sender(c)]], "register", "unregister",
          asSender[Sender(c)], {}, {})

ReceiverOK(c) ==
  ReceiverOf[c] \in alive \ moved =>
    EndOK(c, connAlive, queue[Home[ReceiverOf[c]]], "enter", "leave",
          asReceiver[ReceiverOf[c]], Calling("enter"), Calling("receiver"))

Agree(c) == c \in asSender[Sender(c)] <=> c \in connects[SignalOf[c]]

EndsInv == \A c \in Known : SenderOK(c) /\ ReceiverOK(c) /\ Agree(c)

LEMMA HomeTypes ==
  ASSUME Base
  PROVE  /\ \A c \in Conns : Home[Sender(c)] \in Loops
         /\ \A c \in Conns : ReceiverOf[c] \in alive =>
              ReceiverOf[c] \in Objects /\ Home[ReceiverOf[c]] \in Loops
         /\ \A l \in Loops : queue[l] \in Seq(Tasks)
<1>1. Home \in [Objects -> Loops]
  BY ConnectionAssumption
<1> QED BY <1>1, PlaceTypes DEF Base, TypeOK

LEMMA QueueAside ==
  ASSUME Base, NEW t \in Loops, NEW c, NEW in, NEW out,
         \/ UNCHANGED queue
         \/ \E l, e : Posted(l, e) /\ ~Says(e, in, c)
         \/ Taken(t) /\ ~Says(NextTask(t), in, c) /\ ~Says(NextTask(t), out, c)
  PROVE  \A l \in Loops : Aside(queue[l], queue'[l], c, in, out)
<1>1. CASE UNCHANGED queue
  BY <1>1 DEF Aside
<1>2. ASSUME NEW m, NEW e, Posted(m, e), ~Says(e, in, c)
      PROVE  \A l \in Loops : Aside(queue[l], queue'[l], c, in, out)
  BY <1>2 DEF Aside, Posted
<1>3. CASE Taken(t) /\ ~Says(NextTask(t), in, c) /\ ~Says(NextTask(t), out, c)
  BY <1>3 DEF Aside, Taken, NextTask
<1> QED BY <1>1, <1>2, <1>3

LEMMA SenderKept ==
  ASSUME Base, NEW c \in Known, SenderOK(c), alive' \subseteq alive,
         moved \subseteq moved', c \in connAlive' <=> c \in connAlive,
         c \in asSender'[Sender(c)] <=> c \in asSender[Sender(c)],
         Aside(queue[Home[Sender(c)]], queue'[Home[Sender(c)]], c, "register",
               "unregister")
  PROVE  SenderOK(c)'
<1> SUFFICES ASSUME (Sender(c) \in alive \ moved)' PROVE SenderOK(c)'
  BY DEF SenderOK
<1>1. Sender(c) \in alive \ moved /\ queue[Home[Sender(c)]] \in Seq(Tasks)
  BY HomeTypes DEF Sender, Known
<1>2. EndOK(c, connAlive, queue[Home[Sender(c)]], "register", "unregister",
            asSender[Sender(c)], {}, {})
  BY <1>1 DEF SenderOK
<1>3. EndOK(c, connAlive', queue'[Home[Sender(c)]], "register", "unregister",
            asSender'[Sender(c)], {}, {})
  BY <1>1, <1>2, EndKept
<1> QED BY <1>3 DEF SenderOK, Sender

LEMMA ReceiverKept ==
  ASSUME Base, NEW c \in Known, ReceiverOK(c), alive' \subseteq alive,
         moved \subseteq moved', c \in connAlive' <=> c \in connAlive,
         ReceiverOf[c] \in Objects =>
           (c \in asReceiver'[ReceiverOf[c]] <=> c \in asReceiver[ReceiverOf[c]]),
         c \in Calling("enter") => c \in Calling("enter")',
         c \in Calling("receiver") => c \in Calling("receiver")',
         ReceiverOf[c] \in alive =>
           Aside(queue[Home[ReceiverOf[c]]], queue'[Home[ReceiverOf[c]]], c,
                 "enter", "leave")
  PROVE  ReceiverOK(c)'
<1> SUFFICES ASSUME (ReceiverOf[c] \in alive \ moved)' PROVE ReceiverOK(c)'
  BY DEF ReceiverOK
<1>1. /\ ReceiverOf[c] \in alive \ moved /\ ReceiverOf[c] \in Objects
      /\ queue[Home[ReceiverOf[c]]] \in Seq(Tasks)
  BY HomeTypes DEF Known
<1>2. PICK J, J2, L, L2 : /\ J = Calling("enter") /\ J2 = Calling("enter")'
                          /\ L = Calling("receiver") /\ L2 = Calling("receiver")'
  OBVIOUS
<1>3. EndOK(c, connAlive, queue[Home[ReceiverOf[c]]], "enter", "leave",
            asReceiver[ReceiverOf[c]], J, L)
  BY <1>1, <1>2 DEF ReceiverOK
<1>4. (c \in J => c \in J2) /\ (c \in L => c \in L2)
  BY <1>2
<1>5. EndOK(c, connAlive', queue'[Home[ReceiverOf[c]]], "enter", "leave",
            asReceiver'[ReceiverOf[c]], J2, L2)
  BY <1>1, <1>3, <1>4, EndKept
<1> QED BY <1>2, <1>5 DEF ReceiverOK

(* Only the innermost call of a thread ends.                               *)
LEMMA CallingKept ==
  ASSUME Base, NEW t \in Loops, NEW F, StackStep(t, F), NEW c, NEW at,
         stack[t] # <<>> => ~(Head(stack[t]).at = at /\ Head(stack[t]).arg = c),
         c \in Calling(at)
  PROVE  c \in Calling(at)'
<1>1. PICK l \in Loops : \E f \in Range(stack[l]) : f.at = at /\ f.arg = c
  BY DEF Calling
<1>2. PICK f \in Range(stack[l]) : f.at = at /\ f.arg = c
  BY <1>1
<1>3. f \in Range(stack'[l])
  <2>1. CASE l = t
    <3>1. stack[t] # <<>>
      BY <2>1 DEF Range
    <3> QED BY <1>2, <2>1, <3>1 DEF StackStep
  <2>2. CASE l # t
    BY <2>2 DEF StackStep
  <2> QED BY <2>1, <2>2
<1>4. c \in Conns
  BY DEF Calling
<1> QED BY <1>2, <1>3, <1>4 DEF Calling

(* A connection that a step does not concern.                              *)
Apart(c) ==
  /\ c \in connAlive' <=> c \in connAlive
  /\ c \in asSender'[Sender(c)] <=> c \in asSender[Sender(c)]
  /\ c \in connects'[SignalOf[c]] <=> c \in connects[SignalOf[c]]
  /\ ReceiverOf[c] \in Objects =>
       (c \in asReceiver'[ReceiverOf[c]] <=> c \in asReceiver[ReceiverOf[c]])

LEMMA ApartKept ==
  ASSUME Base, EndsInv, NEW c \in Known, Apart(c), alive' \subseteq alive,
         moved \subseteq moved',
         NEW t \in Loops, NEW F, StackStep(t, F),
         stack[t] # <<>> => \/ Head(stack[t]).arg # c
                            \/ Head(stack[t]).at \notin {"enter", "receiver"},
         \/ UNCHANGED queue
         \/ \E l, e : Posted(l, e)
              /\ (e.arg # c \/ e.do \notin {"register", "enter"})
         \/ /\ Taken(t)
            /\ \/ NextTask(t).arg # c
               \/ NextTask(t).do \notin {"register", "unregister", "enter", "leave"}
  PROVE  (SenderOK(c) /\ ReceiverOK(c) /\ Agree(c))'
<1>1. SenderOK(c) /\ ReceiverOK(c) /\ Agree(c)
  BY DEF EndsInv
<1>2. \A l \in Loops : Aside(queue[l], queue'[l], c, "register", "unregister")
  BY QueueAside DEF Says
<1>3. \A l \in Loops : Aside(queue[l], queue'[l], c, "enter", "leave")
  BY QueueAside DEF Says
<1>4. SenderOK(c)'
  BY <1>1, <1>2, SenderKept, HomeTypes DEF Apart, Known
<1>5. \A at \in {"enter", "receiver"} : c \in Calling(at) => c \in Calling(at)'
  BY CallingKept
<1>6. ReceiverOK(c)'
  BY <1>1, <1>3, <1>5, ReceiverKept, HomeTypes DEF Apart, Known
<1>7. Agree(c)'
  BY <1>1 DEF Agree, Apart, Sender
<1> QED BY <1>4, <1>6, <1>7

(* A step that concerns no connection.                                     *)
LEMMA EndsQuiet ==
  ASSUME Base, EndsInv, UNCHANGED <<connAlive, asSender, asReceiver, connects>>,
         UNCHANGED receiverLoop, alive' \subseteq alive, moved \subseteq moved',
         NEW t \in Loops, NEW F, StackStep(t, F),
         stack[t] # <<>> => Head(stack[t]).at \notin {"enter", "receiver"},
         \/ UNCHANGED queue
         \/ \E l, e : Posted(l, e) /\ e.do \notin {"register", "enter"}
         \/ /\ Taken(t)
            /\ NextTask(t).do \notin {"register", "unregister", "enter", "leave"}
  PROVE  EndsInv'
<1>1. \A c : Apart(c)
  BY DEF Apart
<1>2. Known' = Known
  BY DEF Known
<1> QED BY <1>1, <1>2, ApartKept DEF EndsInv

LEMMA MayFree ==
  ASSUME NEW t, NEW op, NEW arg, May(t, op, arg)
  PROVE  stack[t] # <<>> => Head(stack[t]).at \notin {"enter", "receiver"}
BY DEF May, At

LEMMA EndsConnect ==
  ASSUME Base, HomeInv, EndsInv, NEW t \in Loops, NEW c \in Conns, Connect(t, c)
  PROVE  EndsInv'
<1>1. PICK g : g = Frame(IF ReceiverOf[c] = Nil THEN "wire" ELSE "enter", c, {}, 0)
  OBVIOUS
<1>2. PICK e : e = Task("register", c, 0, Nil)
  OBVIOUS
<1>3. /\ g.at = IF ReceiverOf[c] = Nil THEN "wire" ELSE "enter"
      /\ g.arg = c /\ e.do = "register" /\ e.arg = c
  BY <1>1, <1>2, FrameTypes, TaskTypes
<1>4. StackStep(t, {g})
      /\ IF loop[Sender(c)] = t THEN UNCHANGED queue
         ELSE Posted(loop[Sender(c)], e)
  BY <1>1, <1>2, ConnectMoves
<1>5. /\ May(t, "connect", c) /\ receiverLoop[c] = Nil
      /\ {Sender(c), ReceiverOf[c]} \subseteq alive \cup {Nil}
      /\ connAlive' = connAlive \cup {c} /\ UNCHANGED <<alive, moved, asReceiver>>
      /\ receiverLoop' = [receiverLoop EXCEPT ![c] = t]
  BY DEF Connect
<1>6. Known' = Known \cup {c}
  BY <1>5, PlaceTypes DEF Known, Base, TypeOK, ConnsOK
<1>7. PICK S, s : S = Sender(c) /\ s = SignalOf[c]
  OBVIOUS
<1>8. S \in Objects /\ s \in Signals /\ S \in alive
  BY <1>5, <1>7, PlaceTypes
<1>9. IF loop[S] = t
        THEN /\ asSender' = [asSender EXCEPT ![S] = @ \cup {c}]
             /\ connects' = [connects EXCEPT ![s] = @ \cup {c}]
        ELSE UNCHANGED <<asSender, connects>>
  BY <1>7, <1>8 DEF Connect, Register, sigVars
<1>10. asSender \in [Objects -> SUBSET Conns] /\ connects \in [Signals -> SUBSET Conns]
  BY DEF Base, TypeOK, ObjectsOK, SignalsOK
<1>11. ASSUME NEW d \in Known, d # c PROVE (SenderOK(d) /\ ReceiverOK(d) /\ Agree(d))'
  <2>1. Apart(d)
    <3>1. Sender(d) \in Objects /\ SignalOf[d] \in Signals
      BY PlaceTypes DEF Known
    <3> QED BY <1>5, <1>8, <1>9, <1>10, <1>11, <3>1 DEF Apart
  <2>2. stack[t] # <<>> => Head(stack[t]).at \notin {"enter", "receiver"}
    BY <1>5, MayFree
  <2>3. UNCHANGED queue \/ \E l, x : Posted(l, x) /\ x.arg # d
    BY <1>3, <1>4, <1>11
  <2> QED BY <1>4, <1>5, <2>1, <2>2, <2>3, ApartKept
<1>12. c \in connAlive'
  BY <1>5
<1>13. SenderOK(c)'
  <2> SUFFICES ASSUME S \notin moved PROVE SenderOK(c)'
    BY <1>5, <1>7 DEF SenderOK, Sender
  <2>1. CASE loop[S] = t
    <3>1. c \in asSender'[S]
      BY <1>8, <1>9, <1>10, <2>1
    <3> QED BY <1>7, <1>12, <3>1, EndAlive DEF SenderOK, Sender
  <2>2. CASE loop[S] # t
    <3>1. loop[S] = Home[S]
      BY <1>8 DEF HomeInv, LoopsHome
    <3>2. queue[Home[S]] \in Seq(Tasks) /\ e \in Tasks
          /\ queue'[Home[S]] = Append(queue[Home[S]], e)
      BY <1>4, <1>7, <2>2, <3>1, HomeTypes DEF Posted
    <3>3. Tells(queue'[Home[S]], "register", c)
      BY <1>3, <3>2, AppendTells DEF Says
    <3> QED BY <1>7, <1>12, <3>3, EndAlive DEF SenderOK, Sender
  <2> QED BY <2>1, <2>2
<1>14. ReceiverOK(c)'
  <2> SUFFICES ASSUME ReceiverOf[c] \in alive PROVE ReceiverOK(c)'
    BY <1>5 DEF ReceiverOK
  <2>1. ReceiverOf[c] # Nil
    BY PlaceTypes
  <2>2. g \in Range(stack'[t]) /\ g.at = "enter"
    <3>1. Push(t, g) /\ g \in Frames /\ Ready(stack[t]) /\ g.at # "task"
      BY <1>1, <1>3, <1>5, <2>1, MayFacts, FrameTypes DEF Connect, ConnLabels
    <3>2. Range(stack'[t]) = {g} \cup Range(stack[t])
      BY <3>1, PushMoves DEF Base
    <3> QED BY <1>3, <2>1, <3>2
  <2>3. c \in Calling("enter")'
    BY <1>3, <2>2 DEF Calling
  <2> QED BY <1>12, <2>3, EndAlive DEF ReceiverOK
<1>15. Agree(c)'
  <2>1. CASE loop[S] = t
    BY <1>7, <1>8, <1>9, <1>10, <2>1 DEF Agree, Sender
  <2>2. CASE loop[S] # t
    <3>1. c \notin asSender[S] /\ c \notin connects[s]
      BY <1>5, <1>8, <1>10 DEF Base, KnownInv, KnownSets, Known
    <3> QED BY <1>7, <1>9, <2>2, <3>1 DEF Agree, Sender
  <2> QED BY <2>1, <2>2
<1> QED BY <1>6, <1>11, <1>13, <1>14, <1>15 DEF EndsInv

(* The sender's end takes its functions in the order they were posted.     *)
LEMMA EndsRegistration ==
  ASSUME Base, HomeInv, LinkInv, EndsInv, NEW t \in Loops,
         RunRegister(t) \/ RunUnregister(t)
  PROVE  EndsInv'
<1>1. PICK e : e = NextTask(t)
  OBVIOUS
<1>2. PICK c : c = e.arg
  OBVIOUS
<1>3. /\ UNCHANGED <<stack, alive, moved, asReceiver, connAlive, receiverLoop>>
  BY DEF RunRegister, RunUnregister, connVars
<1>4. \/ NextIs(t, "register") /\ Take(t)
      \/ NextIs(t, "unregister") /\ Take(t)
  BY DEF RunRegister, RunUnregister
<1>5. /\ Taken(t) /\ stack[t] = <<>> /\ StackStep(t, {})
      /\ e.do \in {"register", "unregister"} /\ e \in Range(queue[t])
      /\ queue[t] # <<>> /\ e = Head(queue[t])
  BY <1>1, <1>3, <1>4, TakeMoves, SameStep DEF Base, NextIs, NextTask
<1>6. c \in Known /\ c \in Conns
  BY <1>2, <1>5 DEF Base, KnownInv, KnownCalls, KnownTask, SignalLabels, Known
<1>7. PICK S, s : S = Sender(c) /\ s = SignalOf[c]
  OBVIOUS
<1>8. S \in Objects /\ s \in Signals
  BY <1>6, <1>7, PlaceTypes
<1>9. \/ S \notin alive /\ UNCHANGED <<asSender, connects>>
      \/ /\ e.do = "register" /\ S \in alive
         /\ asSender' = [asSender EXCEPT ![S] = @ \cup {c}]
         /\ connects' = [connects EXCEPT ![s] = @ \cup {c}]
      \/ /\ e.do = "unregister" /\ S \in alive
         /\ asSender' = [asSender EXCEPT ![S] = @ \ {c}]
         /\ connects' = [connects EXCEPT ![s] = @ \ {c}]
  <2>1. CASE RunRegister(t)
    <3>1. Register(c, receiverLoop[c]) /\ e.do = "register"
      BY <1>1, <1>2, <2>1 DEF RunRegister, NextIs, NextTask
    <3> QED BY <1>7, <3>1 DEF Register, sigVars
  <2>2. CASE RunUnregister(t)
    BY <1>1, <1>2, <1>7, <2>2 DEF RunUnregister, NextIs, NextTask
  <2> QED BY <2>1, <2>2
<1>10. asSender \in [Objects -> SUBSET Conns] /\ connects \in [Signals -> SUBSET Conns]
  BY DEF Base, TypeOK, ObjectsOK, SignalsOK
<1>11. ASSUME NEW d \in Known, d # c PROVE (SenderOK(d) /\ ReceiverOK(d) /\ Agree(d))'
  <2>1. Apart(d)
    <3>1. Sender(d) \in Objects /\ SignalOf[d] \in Signals
      BY PlaceTypes DEF Known
    <3> QED BY <1>3, <1>8, <1>9, <1>10, <1>11, <3>1 DEF Apart
  <2> QED BY <1>1, <1>2, <1>3, <1>5, <1>11, <2>1, ApartKept
<1>12. SenderOK(c) /\ ReceiverOK(c) /\ Agree(c)
  BY <1>6 DEF EndsInv
<1>13. ReceiverOK(c)'
  <2>1. \A l \in Loops : Aside(queue[l], queue'[l], c, "enter", "leave")
    BY <1>1, <1>5, QueueAside DEF Says
  <2>2. \A at : Calling(at)' = Calling(at)
    BY <1>3 DEF Calling
  <2> QED BY <1>3, <1>6, <1>12, <2>1, <2>2, ReceiverKept, HomeTypes
<1>14. Agree(c)'
  BY <1>7, <1>8, <1>9, <1>10, <1>12 DEF Agree, Sender
<1>15. SenderOK(c)'
  <2> SUFFICES ASSUME S \in alive \ moved PROVE SenderOK(c)'
    BY <1>3, <1>7 DEF SenderOK, Sender
  <2>1. t = Home[S]
    BY <1>2, <1>5, <1>7 DEF HomeInv, CallsHome, TaskHome
  <2>2. queue[t] \in Seq(Tasks) /\ queue'[t] = Tail(queue[t])
    BY <1>5, HomeTypes DEF Taken
  <2>3. EndOK(c, connAlive, queue[t], "register", "unregister", asSender[S], {}, {})
    BY <1>7, <1>12, <2>1 DEF SenderOK
  <2>4. EndOK(c, connAlive, queue'[t], "register", "unregister", asSender'[S], {}, {})
    <3>1. CASE e.do = "register"
      <4>1. c \in asSender'[S]
        BY <1>8, <1>9, <1>10, <3>1
      <4>2. Says(Head(queue[t]), "register", c)
        BY <1>2, <1>5, <3>1 DEF Says
      <4> QED BY <1>5, <2>2, <2>3, <4>1, <4>2, EndEnters
    <3>2. CASE e.do = "unregister"
      <4>1. c \notin asSender'[S]
        BY <1>8, <1>9, <1>10, <3>2
      <4>2. c \notin connAlive
        BY <1>2, <1>5, <3>2 DEF LinkInv, TaskLinks
      <4> QED BY <1>5, <2>2, <2>3, <4>1, <4>2, EndLeaves
    <3> QED BY <1>5, <3>1, <3>2
  <2> QED BY <1>3, <1>7, <2>1, <2>4 DEF SenderOK, Sender
<1>16. Known' = Known
  BY <1>3 DEF Known
<1> QED BY <1>11, <1>13, <1>14, <1>15, <1>16 DEF EndsInv

(* And so does the receiver's end.                                         *)
LEMMA EndsReception ==
  ASSUME Base, HomeInv, LinkInv, EndsInv, NEW t \in Loops, RunEnter(t) \/ RunLeave(t)
  PROVE  EndsInv'
<1>1. PICK e : e = NextTask(t)
  OBVIOUS
<1>2. PICK c : c = e.arg
  OBVIOUS
<1>3. UNCHANGED <<stack, alive, moved, asSender, connects, connAlive, receiverLoop>>
  BY DEF RunEnter, RunLeave, sigVars, connVars
<1>4. \/ NextIs(t, "enter") /\ Take(t)
      \/ NextIs(t, "leave") /\ Take(t)
  BY DEF RunEnter, RunLeave
<1>5. /\ Taken(t) /\ stack[t] = <<>> /\ StackStep(t, {})
      /\ e.do \in {"enter", "leave"} /\ e \in Range(queue[t]) /\ e \in Tasks
      /\ queue[t] # <<>> /\ e = Head(queue[t])
  BY <1>1, <1>3, <1>4, TakeMoves, SameStep DEF Base, NextIs, NextTask, Taken
<1>6. c \in Known /\ c \in Conns
  BY <1>2, <1>5 DEF Base, KnownInv, KnownCalls, KnownTask, SignalLabels, Known
<1>7. PICK R : R = ReceiverOf[c]
  OBVIOUS
<1>8. \/ R \notin alive /\ UNCHANGED asReceiver
      \/ /\ e.do = "enter" /\ R \in alive
         /\ asReceiver' = [asReceiver EXCEPT ![R] = @ \cup {c}]
      \/ /\ e.do = "leave" /\ R \in alive
         /\ asReceiver' = [asReceiver EXCEPT ![R] = @ \ {c}]
  <2>1. CASE RunEnter(t)
    <3>1. EnterReceiver(c) /\ e.do = "enter"
      BY <1>1, <1>2, <2>1 DEF RunEnter, NextIs, NextTask
    <3> QED BY <1>7, <3>1 DEF EnterReceiver
  <2>2. CASE RunLeave(t)
    BY <1>1, <1>2, <1>7, <2>2 DEF RunLeave, NextIs, NextTask
  <2> QED BY <2>1, <2>2
<1>9. asReceiver \in [Objects -> SUBSET Conns] /\ alive \subseteq Objects
  BY DEF Base, TypeOK, ObjectsOK
<1>10. \A at : Calling(at)' = Calling(at)
  BY <1>3 DEF Calling
<1>11. ASSUME NEW d \in Known, d # c PROVE (SenderOK(d) /\ ReceiverOK(d) /\ Agree(d))'
  <2>1. Apart(d)
    BY <1>3, <1>8, <1>9, <1>11 DEF Apart
  <2> QED BY <1>1, <1>2, <1>3, <1>5, <1>11, <2>1, ApartKept
<1>12. SenderOK(c) /\ ReceiverOK(c) /\ Agree(c)
  BY <1>6 DEF EndsInv
<1>13. SenderOK(c)'
  <2>1. \A l \in Loops : Aside(queue[l], queue'[l], c, "register", "unregister")
    BY <1>1, <1>5, QueueAside DEF Says
  <2> QED BY <1>3, <1>6, <1>12, <2>1, SenderKept, HomeTypes
<1>14. Agree(c)'
  BY <1>3, <1>12 DEF Agree, Sender
<1>15. ReceiverOK(c)'
  <2> SUFFICES ASSUME R \in alive \ moved PROVE ReceiverOK(c)'
    BY <1>3, <1>7 DEF ReceiverOK
  <2>1. t = Home[R]
    BY <1>2, <1>5, <1>7 DEF HomeInv, CallsHome, TaskHome
  <2>2. queue[t] \in Seq(Tasks) /\ queue'[t] = Tail(queue[t])
    BY <1>5, HomeTypes DEF Taken
  <2>3. PICK J, L : J = Calling("enter") /\ L = Calling("receiver")
    OBVIOUS
  <2>4. EndOK(c, connAlive, queue[t], "enter", "leave", asReceiver[R], J, L)
    BY <1>7, <1>12, <2>1, <2>3 DEF ReceiverOK
  <2>5. EndOK(c, connAlive, queue'[t], "enter", "leave", asReceiver'[R], J, L)
    <3>1. CASE e.do = "enter"
      <4>1. c \in asReceiver'[R]
        BY <1>8, <1>9, <3>1
      <4>2. Says(Head(queue[t]), "enter", c)
        BY <1>2, <1>5, <3>1 DEF Says
      <4> QED BY <1>5, <2>2, <2>4, <4>1, <4>2, EndEnters
    <3>2. CASE e.do = "leave"
      <4>1. c \notin asReceiver'[R]
        BY <1>8, <1>9, <3>2
      <4>2. c \notin connAlive
        BY <1>2, <1>5, <3>2 DEF LinkInv, TaskLinks
      <4> QED BY <1>5, <2>2, <2>4, <4>1, <4>2, EndLeaves
    <3> QED BY <1>5, <3>1, <3>2
  <2> QED BY <1>3, <1>7, <1>10, <2>1, <2>3, <2>5 DEF ReceiverOK
<1>16. Known' = Known
  BY <1>3 DEF Known
<1> QED BY <1>11, <1>13, <1>14, <1>15, <1>16 DEF EndsInv

LEMMA EndsEnter ==
  ASSUME Base, HomeInv, LinkInv, EndsInv, NEW t \in Loops, Enter(t)
  PROVE  EndsInv'
<1>1. PICK f, c : f = Head(stack[t]) /\ c = f.arg
  OBVIOUS
<1>2. PICK e : e = Task("enter", c, 0, Nil)
  OBVIOUS
<1>3. PICK g \in Frames : g.at = "wire" /\ g.arg = c /\ StackStep(t, {g})
  BY <1>1, EnterMoves
<1>4. /\ f \in Range(stack[t]) /\ f.at = "enter" /\ c \in Conns
      /\ ReceiverOf[c] \in Objects
      /\ IF loop[ReceiverOf[c]] = t THEN EnterReceiver(c) /\ UNCHANGED queue
         ELSE Posted(loop[ReceiverOf[c]], e) /\ UNCHANGED asReceiver
  BY <1>1, <1>2, EnterMoves
<1>5. UNCHANGED <<alive, moved, asSender, connects, connAlive, receiverLoop>>
  BY DEF Enter, sigVars, connVars
<1>6. e.do = "enter" /\ e.arg = c
  BY <1>2, TaskTypes
<1>7. c \in Known /\ c \in connAlive
  BY <1>1, <1>4 DEF LinkInv, CallLinks, Base, KnownInv, KnownCalls, KnownCall,
                    ConnLabels
<1>8. PICK R : R = ReceiverOf[c]
  OBVIOUS
<1>9. asReceiver \in [Objects -> SUBSET Conns] /\ alive \subseteq Objects
  BY DEF Base, TypeOK, ObjectsOK
<1>10. \/ UNCHANGED asReceiver
       \/ asReceiver' = [asReceiver EXCEPT ![R] = @ \cup {c}]
  BY <1>4, <1>8 DEF EnterReceiver
<1>11. ASSUME NEW d \in Known, d # c PROVE (SenderOK(d) /\ ReceiverOK(d) /\ Agree(d))'
  <2>1. Apart(d)
    BY <1>5, <1>9, <1>10, <1>11 DEF Apart
  <2>2. UNCHANGED queue \/ \E l, x : Posted(l, x) /\ x.arg # d
    BY <1>4, <1>6, <1>11
  <2> QED BY <1>1, <1>3, <1>5, <1>11, <2>1, <2>2, ApartKept
<1>12. SenderOK(c) /\ ReceiverOK(c) /\ Agree(c)
  BY <1>7 DEF EndsInv
<1>13. SenderOK(c)'
  <2>1. UNCHANGED queue \/ \E l, x : Posted(l, x) /\ ~Says(x, "register", c)
    BY <1>4, <1>6 DEF Says
  <2>2. \A l \in Loops : Aside(queue[l], queue'[l], c, "register", "unregister")
    BY <2>1, QueueAside
  <2> QED BY <1>4, <1>5, <1>7, <1>12, <2>2, SenderKept, HomeTypes
<1>14. Agree(c)'
  BY <1>5, <1>12 DEF Agree, Sender
<1>15. ReceiverOK(c)'
  <2> SUFFICES ASSUME R \in alive \ moved PROVE ReceiverOK(c)'
    BY <1>5, <1>8 DEF ReceiverOK
  <2>1. loop[R] = Home[R]
    BY <1>4, <1>8 DEF HomeInv, LoopsHome
  <2>2. c \in asReceiver'[R] \/ Tells(queue'[Home[R]], "enter", c)
    <3>1. CASE loop[R] = t
      <4>1. asReceiver' = [asReceiver EXCEPT ![R] = @ \cup {c}]
        BY <1>4, <1>8, <3>1 DEF EnterReceiver
      <4> QED BY <1>9, <4>1
    <3>2. CASE loop[R] # t
      <4>1. queue[Home[R]] \in Seq(Tasks) /\ e \in Tasks
            /\ queue'[Home[R]] = Append(queue[Home[R]], e)
        BY <1>4, <1>8, <2>1, <3>2, HomeTypes DEF Posted
      <4> QED BY <1>6, <4>1, AppendTells DEF Says
    <3> QED BY <3>1, <3>2
  <2> QED BY <1>5, <1>7, <1>8, <2>2, EndAlive DEF ReceiverOK
<1>16. Known' = Known
  BY <1>5 DEF Known
<1> QED BY <1>11, <1>13, <1>14, <1>15, <1>16 DEF EndsInv

LEMMA EndsLeaveSender ==
  ASSUME Base, HomeInv, EndsInv, NEW t \in Loops, LeaveSender(t)
  PROVE  EndsInv'
<1>1. PICK f, c : f = Head(stack[t]) /\ c = f.arg
  OBVIOUS
<1>2. PICK e : e = Task("unregister", c, 0, Nil)
  OBVIOUS
<1>3. PICK g \in Frames : /\ g.at = "receiver" /\ g.arg = c /\ StackStep(t, {g})
                          /\ g \in Range(stack'[t])
  BY <1>1, LeaveSenderMoves
<1>4. /\ f \in Range(stack[t]) /\ f.at = "sender" /\ c \in Conns
      /\ connAlive' = connAlive \ {c}
      /\ IF Sender(c) \in alive THEN Posted(loop[Sender(c)], e) ELSE UNCHANGED queue
  BY <1>1, <1>2, LeaveSenderMoves
<1>5. UNCHANGED <<alive, moved, asSender, asReceiver, connects, receiverLoop, loop>>
  BY DEF LeaveSender, objVars, sigVars
<1>6. e.do = "unregister" /\ e.arg = c
  BY <1>2, TaskTypes
<1>7. c \in Known
  BY <1>1, <1>4 DEF Base, KnownInv, KnownCalls, KnownCall, ConnLabels
<1>8. ASSUME NEW d \in Known, d # c PROVE (SenderOK(d) /\ ReceiverOK(d) /\ Agree(d))'
  <2>1. Apart(d)
    BY <1>4, <1>5, <1>8 DEF Apart
  <2>2. UNCHANGED queue \/ \E l, x : Posted(l, x) /\ x.arg # d
    BY <1>4, <1>6, <1>8
  <2>3. stack[t] # <<>> => Head(stack[t]).at \notin {"enter", "receiver"}
    BY <1>1, <1>4
  <2> QED BY <1>3, <1>5, <1>8, <2>1, <2>2, <2>3, ApartKept
<1>9. c \notin connAlive'
  BY <1>4
<1>10. SenderOK(c)'
  <2> SUFFICES ASSUME Sender(c) \in alive \ moved PROVE SenderOK(c)'
    BY <1>5 DEF SenderOK, Sender
  <2>1. loop[Sender(c)] = Home[Sender(c)]
    BY <1>4, PlaceTypes DEF HomeInv, LoopsHome
  <2>2. PICK q : q = queue[Home[Sender(c)]]
    OBVIOUS
  <2>3. q \in Seq(Tasks) /\ e \in Tasks /\ queue'[Home[Sender(c)]] = Append(q, e)
    BY <1>4, <2>1, <2>2, HomeTypes DEF Posted
  <2>4. Says(e, "unregister", c)
    BY <1>6 DEF Says
  <2>5. EndOK(c, connAlive', Append(q, e), "register", "unregister",
              asSender'[Sender(c)], {}, {})
    BY <1>9, <2>3, <2>4, EndTold
  <2> QED BY <2>3, <2>5 DEF SenderOK, Sender
<1>11. ReceiverOK(c)'
  <2>1. c \in Calling("receiver")'
    BY <1>3, <1>4 DEF Calling
  <2> QED BY <1>9, <2>1, EndDead DEF ReceiverOK
<1>12. Agree(c)'
  BY <1>5, <1>7 DEF EndsInv, Agree, Sender
<1>13. Known' = Known
  BY <1>5 DEF Known
<1> QED BY <1>8, <1>10, <1>11, <1>12, <1>13 DEF EndsInv

LEMMA EndsLeaveReceiver ==
  ASSUME Base, HomeInv, LinkInv, EndsInv, NEW t \in Loops, LeaveReceiver(t)
  PROVE  EndsInv'
<1>1. PICK f, c : f = Head(stack[t]) /\ c = f.arg
  OBVIOUS
<1>2. PICK e : e = Task("leave", c, 0, Nil)
  OBVIOUS
<1>3. /\ f \in Range(stack[t]) /\ f.at = "receiver" /\ c \in Conns
      /\ StackStep(t, {})
      /\ IF ReceiverOf[c] \in alive THEN Posted(loop[ReceiverOf[c]], e)
         ELSE UNCHANGED queue
  BY <1>1, <1>2, LeaveReceiverMoves
<1>4. UNCHANGED <<alive, moved, asSender, asReceiver, connects, connAlive,
                  receiverLoop, loop>>
  BY DEF LeaveReceiver, objVars, sigVars
<1>5. e.do = "leave" /\ e.arg = c
  BY <1>2, TaskTypes
<1>6. c \in Known /\ c \notin connAlive
  BY <1>1, <1>3 DEF Base, KnownInv, KnownCalls, KnownCall, ConnLabels, LinkInv,
                    CallLinks
<1>7. \A d : Apart(d)
  BY <1>4 DEF Apart
<1>8. UNCHANGED queue
      \/ \E l, x : Posted(l, x) /\ x.do \notin {"register", "enter"}
  BY <1>3, <1>5
<1>9. ASSUME NEW d \in Known, d # c PROVE (SenderOK(d) /\ ReceiverOK(d) /\ Agree(d))'
  BY <1>1, <1>3, <1>4, <1>7, <1>8, <1>9, ApartKept
<1>10. SenderOK(c)'
  <2>1. \A l \in Loops : Aside(queue[l], queue'[l], c, "register", "unregister")
    BY <1>8, QueueAside DEF Says
  <2> QED BY <1>3, <1>4, <1>6, <2>1, SenderKept, HomeTypes DEF EndsInv
<1>11. ReceiverOK(c)'
  <2> SUFFICES ASSUME ReceiverOf[c] \in alive \ moved PROVE ReceiverOK(c)'
    BY <1>4 DEF ReceiverOK
  <2>1. loop[ReceiverOf[c]] = Home[ReceiverOf[c]]
    BY <1>3, HomeTypes DEF HomeInv, LoopsHome
  <2>2. PICK q : q = queue[Home[ReceiverOf[c]]]
    OBVIOUS
  <2>3. q \in Seq(Tasks) /\ e \in Tasks /\ queue'[Home[ReceiverOf[c]]] = Append(q, e)
    BY <1>3, <2>1, <2>2, HomeTypes DEF Posted
  <2>4. Says(e, "leave", c)
    BY <1>5 DEF Says
  <2>5. PICK J, L : J = Calling("enter")' /\ L = Calling("receiver")'
    OBVIOUS
  <2>6. EndOK(c, connAlive', Append(q, e), "enter", "leave",
              asReceiver'[ReceiverOf[c]], J, L)
    BY <1>4, <1>6, <2>3, <2>4, EndTold
  <2> QED BY <2>3, <2>5, <2>6 DEF ReceiverOK
<1>12. Agree(c)'
  BY <1>4, <1>6 DEF EndsInv, Agree, Sender
<1>13. Known' = Known
  BY <1>4 DEF Known
<1> QED BY <1>9, <1>10, <1>11, <1>12, <1>13 DEF EndsInv

LEMMA EndsUser ==
  ASSUME Base, HomeInv, EndsInv, NEW t \in Loops, UserCall(t)
  PROVE  EndsInv'
<1> DEFINE Fixed == UNCHANGED <<connAlive, asSender, asReceiver, connects,
                                receiverLoop>>
<1>1. ASSUME NEW c \in Conns, Connect(t, c) PROVE EndsInv'
  BY <1>1, EndsConnect
<1>2. ASSUME NEW c \in Conns, Disconnect(t, c) PROVE EndsInv'
  <2>1. May(t, "disconnect", c) /\ Fixed /\ UNCHANGED <<alive, moved, queue>>
    BY <1>2 DEF Disconnect, objVars, sigVars, connVars
  <2>2. PICK F : StackStep(t, F)
    BY <1>2, DisconnectMoves
  <2> QED BY <2>1, <2>2, MayFree, EndsQuiet
<1>3. ASSUME NEW o \in Objects, Destroy(t, o) PROVE EndsInv'
  <2>1. /\ May(t, "destroy", o) /\ Fixed /\ alive' \subseteq alive
        /\ UNCHANGED <<moved, queue>>
    BY <1>3 DEF Destroy, sigVars, connVars
  <2>2. PICK F : StackStep(t, F)
    BY <1>3, DestroyMoves
  <2> QED BY <2>1, <2>2, MayFree, EndsQuiet
<1>4. ASSUME NEW o \in Objects, NEW l \in Loops, MoveToLoop(t, o, l)
      PROVE  EndsInv'
  <2>1. /\ May(t, "move", o) /\ Fixed /\ moved \subseteq moved'
        /\ UNCHANGED <<alive, queue, stack>>
    BY <1>4 DEF MoveToLoop, loopVars, connVars
  <2>2. StackStep(t, {})
    BY <2>1, SameStep DEF Base
  <2> QED BY <2>1, <2>2, MayFree, EndsQuiet
<1>5. ASSUME NEW s \in Signals, NEW sync \in BOOLEAN, Emit(t, s, sync)
      PROVE  EndsInv'
  <2>1. PICK op : May(t, op, s)
    BY <1>5 DEF Emit
  <2>2. Fixed /\ UNCHANGED <<alive, moved>>
    BY <1>5 DEF Emit, objVars, sigVars, connVars
  <2>3. PICK F : StackStep(t, F)
    BY <1>5, EmitMoves
  <2>4. PICK do \in SignalLabels : do = IF sync THEN "dispatchSync" ELSE "dispatch"
    BY DEF SignalLabels
  <2>5. UNCHANGED queue \/ \E u : Posted(signalLoop[s], Task(do, s, 0, u))
    BY <1>5, <2>4, EmitMoves
  <2>6. UNCHANGED queue
        \/ \E l, e : Posted(l, e) /\ e.do \notin {"register", "enter"}
    BY <2>4, <2>5, TaskTypes DEF SignalLabels
  <2> QED BY <2>1, <2>2, <2>3, <2>6, MayFree, EndsQuiet
<1>6. ASSUME NEW call \in Calls, DisconnectQuery(t, call[3]) PROVE EndsInv'
  <2>1. PICK q : q = call[3]
    OBVIOUS
  <2>2. May(t, "query", q) /\ Fixed /\ UNCHANGED <<alive, moved>>
    BY <1>6, <2>1 DEF DisconnectQuery, objVars, sigVars, connVars
  <2>3. PICK F : StackStep(t, F)
    BY <1>6, <2>1, DisconnectQueryMoves
  <2>4. PICK e : e = Task("query", q, 0, Nil)
    OBVIOUS
  <2>5. UNCHANGED queue \/ Posted(loop[q.object], e)
    BY <1>6, <2>1, <2>4, DisconnectQueryMoves
  <2>6. UNCHANGED queue
        \/ \E l, x : Posted(l, x) /\ x.do \notin {"register", "enter"}
    BY <2>4, <2>5, TaskTypes
  <2> QED BY <2>2, <2>3, <2>6, MayFree, EndsQuiet
<1> QED BY <1>1, <1>2, <1>3, <1>4, <1>5, <1>6 DEF UserCall

LEMMA EndsThread ==
  ASSUME Base, HomeInv, LinkInv, EndsInv, NEW t \in Loops, ThreadStep(t)
  PROVE  EndsInv'
<1> DEFINE Fixed == /\ UNCHANGED <<connAlive, asSender, asReceiver, connects>>
                    /\ UNCHANGED <<receiverLoop, alive, moved>>
           Free == stack[t] # <<>> => Head(stack[t]).at \notin {"enter", "receiver"}
           Moves == \E F : StackStep(t, F)
           Other == \/ UNCHANGED queue
                    \/ \E l, e : Posted(l, e) /\ e.do \notin {"register", "enter"}
                    \/ /\ Taken(t)
                       /\ NextTask(t).do \notin {"register", "unregister", "enter",
                                                 "leave"}
<1>0. Fixed /\ Free /\ Moves /\ Other => EndsInv'
  BY EndsQuiet
<1>1. ASSUME NEW label, At(t, label), label \notin {"enter", "receiver"} PROVE Free
  BY <1>1 DEF At
<1>2. CASE RunRegister(t) \/ RunUnregister(t)
  BY <1>2, EndsRegistration
<1>3. CASE RunEnter(t) \/ RunLeave(t)
  BY <1>3, EndsReception
<1>4. CASE Enter(t) \/ LeaveSender(t) \/ LeaveReceiver(t)
  BY <1>4, EndsEnter, EndsLeaveSender, EndsLeaveReceiver
<1>5. CASE RunQuery(t)
  <2>1. Fixed
    BY <1>5 DEF RunQuery, objVars, sigVars, connVars
  <2>2. NextIs(t, "query") /\ Take(t)
    BY <1>5 DEF RunQuery
  <2>3. Moves
    BY <1>5, RunQueryMoves
  <2>4. Free /\ Other
    BY <2>2, TakeMoves
  <2> QED BY <1>0, <2>1, <2>3, <2>4
<1>6. CASE RunSlot(t)
  <2>1. Fixed
    BY <1>6 DEF RunSlot, objVars, sigVars, connVars
  <2>2. NextIs(t, "slot") /\ Take(t)
    BY <1>6 DEF RunSlot
  <2>3. Moves
    BY <1>6, RunSlotMoves
  <2>4. Free /\ Other
    BY <2>2, TakeMoves
  <2> QED BY <1>0, <2>1, <2>3, <2>4
<1>7. CASE Return(t)
  <2>1. Fixed /\ UNCHANGED queue
    BY <1>7 DEF Return, objVars, sigVars, connVars
  <2>2. /\ \A l \in Loops : Range(stack'[l]) \subseteq Range(stack[l])
        /\ \A l \in Loops : \A f \in Range(stack[l]) :
             f \in Range(stack'[l]) \/ f.at \in {"task", "wait"}
    BY <1>7, ReturnMoves
  <2>3. \A at \in {"enter", "receiver"} : Calling(at)' = Calling(at)
    BY <2>2 DEF Calling
  <2>4. Known' = Known
    BY <2>1 DEF Known
  <2>5. ASSUME NEW c \in Known PROVE (SenderOK(c) /\ ReceiverOK(c) /\ Agree(c))'
    <3>1. SenderOK(c) /\ ReceiverOK(c) /\ Agree(c)
      BY DEF EndsInv
    <3>2. SenderOK(c)' /\ Agree(c)'
      BY <2>1, <3>1 DEF SenderOK, Agree, Sender
    <3>3. ReceiverOK(c)'
      BY <2>1, <2>3, <3>1 DEF ReceiverOK
    <3> QED BY <3>2, <3>3
  <2> QED BY <2>4, <2>5 DEF EndsInv
<1>8. CASE Wire(t)
  <2>1. Fixed
    BY <1>8 DEF Wire, objVars, sigVars
  <2>2. At(t, "wire")
    BY <1>8 DEF Wire
  <2>3. Moves /\ UNCHANGED queue
    BY <1>8, WireMoves
  <2> QED BY <1>0, <1>1, <2>1, <2>2, <2>3
<1>9. CASE Test(t)
  <2>1. Fixed /\ UNCHANGED queue
    BY <1>9 DEF Test, objVars, sigVars, connVars
  <2>2. At(t, "test")
    BY <1>9 DEF Test
  <2>3. Moves
    BY <1>9, TestMoves
  <2> QED BY <1>0, <1>1, <2>1, <2>2, <2>3
<1>10. CASE Each(t)
  <2>1. Fixed /\ UNCHANGED queue
    BY <1>10 DEF Each, objVars, sigVars, connVars
  <2>2. At(t, "each")
    BY <1>10 DEF Each
  <2>3. Moves
    BY <1>10, EachMoves
  <2> QED BY <1>0, <1>1, <2>1, <2>2, <2>3
<1>11. ASSUME NEW do \in SignalLabels, RunDispatch(t, do) PROVE EndsInv'
  <2>1. Fixed
    BY <1>11 DEF RunDispatch, objVars, sigVars, connVars
  <2>2. NextIs(t, do) /\ Take(t)
    BY <1>11 DEF RunDispatch
  <2>3. Moves
    BY <1>11, RunDispatchMoves
  <2>4. Free /\ Other
    BY <2>2, TakeMoves DEF SignalLabels
  <2> QED BY <1>0, <2>1, <2>3, <2>4
<1>12. ASSUME NEW do \in SignalLabels, Look(t, do) PROVE EndsInv'
  <2>1. Fixed /\ UNCHANGED queue
    BY <1>12 DEF Look, objVars, sigVars, connVars
  <2>2. At(t, do) /\ do \notin {"enter", "receiver"}
    BY <1>12 DEF Look, SignalLabels
  <2>3. Moves
    <3>1. PICK f : f = Head(stack[t])
      OBVIOUS
    <3>2. StackStep(t, {}) \/ \E c \in f.todo : LooksAt(t, f, c)
      BY <1>12, <3>1, LookMoves
    <3>3. ASSUME NEW c, LooksAt(t, f, c) PROVE Moves
      <4>1. PICK g, h : /\ g = Frame("hand", c, {}, f.id)
                        /\ h = [f EXCEPT !.todo = @ \ {c}]
        OBVIOUS
      <4>2. StackStep(t, {g, h}) \/ StackStep(t, {h})
        BY <3>3, <4>1 DEF LooksAt
      <4> QED BY <4>2
    <3> QED BY <3>2, <3>3
  <2> QED BY <1>0, <1>1, <2>1, <2>2, <2>3
<1>13. CASE Hand(t)
  <2>1. Fixed
    BY <1>13 DEF Hand, objVars, sigVars, connVars
  <2>2. At(t, "hand")
    BY <1>13 DEF Hand
  <2>3. Moves
    BY <1>13, HandMoves
  <2>4. UNCHANGED queue \/ \E l, c, n, u : Posted(l, Task("slot", c, n, u))
    BY <1>13, HandMoves
  <2>5. Other
    BY <2>4, TaskTypes
  <2> QED BY <1>0, <1>1, <2>1, <2>2, <2>3, <2>5
<1>14. CASE CallSlot(t)
  <2>1. Fixed /\ UNCHANGED queue
    BY <1>14 DEF CallSlot, objVars, sigVars, connVars
  <2>2. At(t, "call")
    BY <1>14 DEF CallSlot
  <2>3. Moves
    BY <1>14, CallSlotMoves
  <2> QED BY <1>0, <1>1, <2>1, <2>2, <2>3
<1>15. CASE EndSlot(t)
  <2>1. Fixed
    BY <1>15 DEF EndSlot, objVars, sigVars, connVars
  <2>2. At(t, "slot")
    BY <1>15 DEF EndSlot
  <2>3. Moves /\ UNCHANGED queue
    BY <1>15, EndSlotMoves
  <2> QED BY <1>0, <1>1, <2>1, <2>2, <2>3
<1> HIDE DEF Fixed, Free, Moves, Other
<1> QED BY <1>2, <1>3, <1>4, <1>5, <1>6, <1>7, <1>8, <1>9, <1>10, <1>11, <1>12,
           <1>13, <1>14, <1>15 DEF ThreadStep

LEMMA EndsInvariant == Spec => []EndsInv
<1>1. Init => EndsInv
  BY DEF Init, EndsInv, Known
<1>2. Base /\ HomeInv /\ LinkInv /\ EndsInv /\ [Next]_vars => EndsInv'
  <2> SUFFICES ASSUME Base, HomeInv, LinkInv, EndsInv, [Next]_vars PROVE EndsInv'
    OBVIOUS
  <2>1. CASE UNCHANGED vars
    <3>1. /\ UNCHANGED <<connAlive, asSender, asReceiver, connects, receiverLoop>>
          /\ UNCHANGED <<alive, moved, queue, stack>>
      BY <2>1 DEF vars, loopVars, objVars, sigVars, connVars
    <3> QED BY <3>1 DEF EndsInv, Known, SenderOK, ReceiverOK, Agree, Sender, Calling
  <2>2. CASE Next
    BY <2>2, EndsUser, EndsThread DEF Next
  <2> QED BY <2>1, <2>2
<1> QED BY <1>1, <1>2, BaseInvariant, HomeInvariant, LinkInvariant, PTL DEF Spec

(* When every function about a connection has run, both ends know it if it *)
(* is alive and neither does if it is not, whatever order the functions of *)
(* connect, disconnect and the destructors were posted and run in.         *)
THEOREM EndsSettleAlike == Spec => []EndsAgree
<1>1. Base /\ HomeInv /\ EndsInv => EndsAgree
  <2> SUFFICES ASSUME Base, HomeInv, EndsInv,
                      NEW c \in Conns, Settled(c), Unmoved(c)
               PROVE  /\ Sender(c) \in alive =>
                           /\ c \in asSender[Sender(c)] <=> c \in connAlive
                           /\ c \in connects[SignalOf[c]] <=> c \in connAlive
                      /\ ReceiverOf[c] \in alive =>
                           (c \in asReceiver[ReceiverOf[c]] <=> c \in connAlive)
    BY DEF EndsAgree
  <2>1. c \in Known
    BY DEF Settled, Base, KnownInv, KnownSets
  <2>2. SenderOK(c) /\ ReceiverOK(c) /\ Agree(c)
    BY <2>1 DEF EndsInv
  <2>3. \A l \in Loops : \A do : do # "slot" => ~Tells(queue[l], do, c)
    BY DEF Settled, Tells, Says
  <2>4. c \notin Calling("enter") /\ c \notin Calling("receiver")
    BY DEF Settled, Calling, Range
  <2>5. ASSUME Sender(c) \in alive PROVE c \in asSender[Sender(c)] <=> c \in connAlive
    <3>1. Sender(c) \notin moved /\ Home[Sender(c)] \in Loops
      BY HomeTypes DEF Unmoved
    <3> QED BY <2>2, <2>3, <2>5, <3>1 DEF SenderOK, EndOK
  <2>6. ASSUME ReceiverOf[c] \in alive
        PROVE  c \in asReceiver[ReceiverOf[c]] <=> c \in connAlive
    <3>1. ReceiverOf[c] \notin moved /\ Home[ReceiverOf[c]] \in Loops
      BY <2>6, HomeTypes DEF Unmoved
    <3> QED BY <2>2, <2>3, <2>4, <2>6, <3>1 DEF ReceiverOK, EndOK
  <2> QED BY <2>2, <2>5, <2>6 DEF Agree
<1> QED BY <1>1, BaseInvariant, HomeInvariant, EndsInvariant, PTL
-----------------------------------------------------------------------------
(* Slots run in the order of the emissions.                                *)

(* The calls an emission is under way in.                                  *)
Carrying == SignalLabels \cup {"hand", "call"}

(* m comes before n in the emissions c is handed; when the slots of a      *)
(* signal, one of N, emit it themselves, they are only not the same.       *)
Behind(c, m, n, N) == m # n /\ (SignalOf[c] \notin N => m < n)

(* The rounds of emissions a thread is in, the innermost begun last.       *)
Over(f, g, N) ==
  f.at \in SignalLabels /\ g.at \in SignalLabels
    => g.id < f.id /\ (f.arg = g.arg => f.arg \in N)
Falls(s, N) == \A i, j \in DOMAIN s : i < j => Over(s[i], s[j], N)

(* The slots posted to a loop, about objects that are not of M.            *)
Sooner(e, d, M, N) ==
  e.do = "slot" /\ d.do = "slot" /\ e.arg = d.arg
  /\ {Sender(e.arg), ReceiverOf[e.arg]} \cap M = {}
    => Behind(e.arg, e.id, d.id, N)
Line(q, M, N) == \A i, j \in DOMAIN q : i < j => Sooner(q[i], q[j], M, N)

(* The emissions c has still to be handed, is being handed, has its slot   *)
(* posted for, and its slot called for.                                    *)
Rounds(c) ==
  {n \in Nat : \E l \in Loops : \E f \in Range(stack[l]) :
     f.at \in SignalLabels /\ c \in f.todo /\ f.id = n}
Stage(at, c) ==
  {n \in Nat : \E l \in Loops : \E f \in Range(stack[l]) :
     f.at = at /\ f.arg = c /\ f.id = n}
Posts(c) ==
  {n \in Nat : \E l \in Loops : \E e \in Range(queue[l]) : Bears(e, c, n)}

(* The earlier an emission is, the further it has come.                    *)
Turns(c, N, R, C, Q, H, O) ==
  /\ \A m \in R : \A n \in C \cup Q \cup H \cup O : Behind(c, m, n, N)
  /\ \A m \in C : \A n \in Q \cup H \cup O : Behind(c, m, n, N)
  /\ \A m \in Q : \A n \in H \cup O : Behind(c, m, n, N)
  /\ \A m \in H : \A n \in O : Behind(c, m, n, N)

InTurn(c) ==
  Turns(c, nested, ran[c], Stage("call", c), Posts(c), Stage("hand", c),
        Rounds(c))

(* A slot of the sender's thread is never posted.                          *)
Direct(c) == Place(c) = Home[Sender(c)] => Posts(c) = {}

FallInv == \A l \in Loops : Falls(stack[l], nested)
LineInv == \A l \in Loops : Line(queue[l], moved, nested)
IdsInv ==
  /\ \A l \in Loops : \A f \in Range(stack[l]) :
       f.at \in Carrying => f.id <= emits
  /\ \A l \in Loops : \A e \in Range(queue[l]) :
       e.do = "slot" => e.id <= emits
  /\ \A c \in Conns : \A m \in ran[c] : m <= emits
TunedInv ==
  /\ \A s \in Signals : connects[s] # {} => signalLoop[s] # Nil
  /\ \A l \in Loops : \A f \in Range(stack[l]) :
       f.at = "hand" => signalLoop[SignalOf[f.arg]] # Nil
TurnInv == \A c \in Known : Unmoved(c) => InTurn(c) /\ Direct(c)

OrderInv == FallInv /\ LineInv /\ IdsInv /\ TunedInv /\ TurnInv

LEMMA BehindKept ==
  ASSUME NEW c, NEW m, NEW n, NEW N, NEW N1, N \subseteq N1, Behind(c, m, n, N)
  PROVE  Behind(c, m, n, N1)
BY DEF Behind

LEMMA FallsCons ==
  ASSUME NEW s \in Seq(Frames), NEW g \in Frames, NEW N, Falls(s, N),
         \A f \in Range(s) : Over(g, f, N)
  PROVE  Falls(<<g>> \o s, N)
<1> DEFINE u == <<g>> \o s
           n == Len(s)
<1>1. /\ n \in Nat /\ DOMAIN u = 1 .. n + 1 /\ u[1] = g
      /\ \A i \in 1 .. n : u[i + 1] = s[i]
  BY ConsFacts
<1>2. DOMAIN s = 1 .. n
  BY LenProperties
<1> HIDE DEF u, n
<1>3. ASSUME NEW i \in DOMAIN u, NEW j \in DOMAIN u, i < j
      PROVE  Over(u[i], u[j], N)
  <2>1. j - 1 \in 1 .. n /\ u[j] = s[j - 1]
    <3>1. j - 1 \in 1 .. n /\ (j - 1) + 1 = j
      BY <1>1, <1>3
    <3>2. u[(j - 1) + 1] = s[j - 1]
      BY <1>1, <3>1
    <3> QED BY <3>1, <3>2
  <2>2. CASE i = 1
    <3>1. s[j - 1] \in Range(s)
      BY <1>2, <2>1 DEF Range
    <3> QED BY <1>1, <2>1, <2>2, <3>1
  <2>3. CASE i # 1
    <3>1. i - 1 \in 1 .. n /\ (i - 1) + 1 = i
      BY <1>1, <1>3, <2>3
    <3>2. u[(i - 1) + 1] = s[i - 1]
      BY <1>1, <3>1
    <3>3. i - 1 < j - 1
      BY <1>1, <1>3
    <3>4. i - 1 \in DOMAIN s /\ j - 1 \in DOMAIN s
      BY <1>2, <2>1, <3>1
    <3>5. Over(s[i - 1], s[j - 1], N)
      BY <3>3, <3>4 DEF Falls
    <3> QED BY <2>1, <3>1, <3>2, <3>5
  <2> QED BY <2>2, <2>3
<1>4. Falls(u, N)
  BY <1>3 DEF Falls
<1> QED BY <1>4 DEF u

LEMMA FallsTail ==
  ASSUME NEW s \in Seq(Frames), s # <<>>, NEW N, Falls(s, N)
  PROVE  /\ Falls(Tail(s), N)
         /\ \A f \in Range(Tail(s)) : Over(Head(s), f, N)
<1> DEFINE u == Tail(s)
           n == Len(s)
<1>1. /\ u \in Seq(Frames) /\ n \in Nat \ {0} /\ Len(u) = n - 1
      /\ DOMAIN s = 1 .. n /\ s[1] = Head(s)
      /\ \A i \in 1 .. n - 1 : u[i] = s[i + 1]
  BY HeadTailFacts
<1>2. DOMAIN u = 1 .. n - 1
  BY <1>1, LenProperties
<1> HIDE DEF u, n
<1>3. ASSUME NEW i \in 1 .. n - 1, NEW j \in 1 .. n - 1, i < j
      PROVE  Over(u[i], u[j], N)
  <2>1. i + 1 \in DOMAIN s /\ j + 1 \in DOMAIN s /\ i + 1 < j + 1
    BY <1>1, <1>3
  <2>2. Over(s[i + 1], s[j + 1], N)
    BY <2>1 DEF Falls
  <2> QED BY <1>1, <2>2
<1>4. ASSUME NEW f \in Range(u) PROVE Over(Head(s), f, N)
  <2>1. PICK j \in 1 .. n - 1 : f = u[j]
    BY <1>2 DEF Range
  <2>2. 1 \in DOMAIN s /\ j + 1 \in DOMAIN s /\ 1 < j + 1
    BY <1>1
  <2>3. Over(s[1], s[j + 1], N)
    BY <2>2 DEF Falls
  <2> QED BY <1>1, <2>1, <2>3
<1>5. Falls(u, N)
  BY <1>2, <1>3 DEF Falls
<1> QED BY <1>4, <1>5 DEF u

LEMMA FallsMore ==
  ASSUME NEW s, NEW N, NEW N1, N \subseteq N1, Falls(s, N)
  PROVE  Falls(s, N1)
BY DEF Falls, Over

(* New calls are no rounds, or begin after those there are.                *)
LEMMA FallsGrow ==
  ASSUME NEW s \in Seq(Frames), NEW u, NEW F, NEW N, Falls(s, N),
         Grows(s, u, F), \A g \in F : \A f \in Range(s) : Over(g, f, N)
  PROVE  Falls(u, N)
<1>1. s # <<>> => /\ Tail(s) \in Seq(Frames) /\ Falls(Tail(s), N)
                  /\ Range(Tail(s)) \subseteq Range(s)
  BY FallsTail, HeadTailFacts
<1>2. ASSUME NEW r \in Seq(Frames), Falls(r, N), Range(r) \subseteq Range(s),
             NEW g \in F \cap Frames
      PROVE  Falls(<<g>> \o r, N)
  BY <1>2, FallsCons
<1>3. ASSUME NEW r \in Seq(Frames), Falls(r, N), Range(r) \subseteq Range(s),
             NEW g \in F \cap Frames, NEW h \in F \cap Frames,
             ~({g.at, h.at} \subseteq SignalLabels)
      PROVE  Falls(<<g>> \o (<<h>> \o r), N)
  <2> DEFINE v == <<h>> \o r
  <2>1. v \in Seq(Frames) /\ Range(v) = {h} \cup Range(r) /\ Falls(v, N)
    BY <1>2, <1>3, ConsFacts
  <2>2. Over(g, h, N)
    BY <1>3 DEF Over
  <2> HIDE DEF v
  <2>3. \A f \in Range(v) : Over(g, f, N)
    BY <1>3, <2>1, <2>2
  <2>4. Falls(<<g>> \o v, N)
    BY <2>1, <2>3, FallsCons
  <2> QED BY <2>4 DEF v
<1>4. CASE u = s
  BY <1>4
<1>5. CASE s # <<>> /\ u = Tail(s)
  BY <1>1, <1>5
<1>6. CASE \E g \in F \cap Frames : \/ u = <<g>> \o s
                                    \/ s # <<>> /\ u = <<g>> \o Tail(s)
  BY <1>1, <1>2, <1>6
<1>7. CASE \E g, h \in F \cap Frames :
             /\ ~({g.at, h.at} \subseteq SignalLabels)
             /\ \/ s = <<>> /\ u = <<g>> \o (<<h>> \o s)
                \/ s # <<>> /\ u = <<g>> \o (<<h>> \o Tail(s))
  <2>1. PICK g \in F \cap Frames, h \in F \cap Frames :
             /\ ~({g.at, h.at} \subseteq SignalLabels)
             /\ \/ s = <<>> /\ u = <<g>> \o (<<h>> \o s)
                \/ s # <<>> /\ u = <<g>> \o (<<h>> \o Tail(s))
    BY <1>7
  <2>2. CASE s = <<>>
    BY <1>3, <2>1, <2>2
  <2>3. CASE s # <<>>
    BY <1>1, <1>3, <2>1, <2>3
  <2> QED BY <2>2, <2>3
<1> QED BY <1>4, <1>5, <1>6, <1>7 DEF Grows

LEMMA LineTail ==
  ASSUME NEW q \in Seq(Tasks), q # <<>>, NEW M, NEW N, Line(q, M, N)
  PROVE  /\ Line(Tail(q), M, N)
         /\ \A e \in Range(Tail(q)) : Sooner(Head(q), e, M, N)
<1> DEFINE u == Tail(q)
           n == Len(q)
<1>1. /\ u \in Seq(Tasks) /\ n \in Nat \ {0} /\ Len(u) = n - 1
      /\ DOMAIN q = 1 .. n /\ q[1] = Head(q)
      /\ \A i \in 1 .. n - 1 : u[i] = q[i + 1]
  BY HeadTailFacts
<1>2. DOMAIN u = 1 .. n - 1
  BY <1>1, LenProperties
<1> HIDE DEF u, n
<1>3. ASSUME NEW i \in 1 .. n - 1, NEW j \in 1 .. n - 1, i < j
      PROVE  Sooner(u[i], u[j], M, N)
  <2>1. i + 1 \in DOMAIN q /\ j + 1 \in DOMAIN q /\ i + 1 < j + 1
    BY <1>1, <1>3
  <2>2. Sooner(q[i + 1], q[j + 1], M, N)
    BY <2>1 DEF Line
  <2> QED BY <1>1, <2>2
<1>4. ASSUME NEW e \in Range(u) PROVE Sooner(Head(q), e, M, N)
  <2>1. PICK j \in 1 .. n - 1 : e = u[j]
    BY <1>2 DEF Range
  <2>2. 1 \in DOMAIN q /\ j + 1 \in DOMAIN q /\ 1 < j + 1
    BY <1>1
  <2>3. Sooner(q[1], q[j + 1], M, N)
    BY <2>2 DEF Line
  <2> QED BY <1>1, <2>1, <2>3
<1>5. Line(u, M, N)
  BY <1>2, <1>3 DEF Line
<1> QED BY <1>4, <1>5 DEF u

LEMMA LineAppend ==
  ASSUME NEW q \in Seq(Tasks), NEW e \in Tasks, NEW M, NEW N, Line(q, M, N),
         \A d \in Range(q) : Sooner(d, e, M, N)
  PROVE  Line(Append(q, e), M, N)
<1> DEFINE u == Append(q, e)
           n == Len(q)
<1>1. /\ n \in Nat /\ DOMAIN q = 1 .. n /\ DOMAIN u = 1 .. n + 1
      /\ \A i \in 1 .. n : u[i] = q[i]
      /\ u[n + 1] = e
  BY AppendFacts
<1> HIDE DEF u, n
<1>2. ASSUME NEW i \in DOMAIN u, NEW j \in DOMAIN u, i < j
      PROVE  Sooner(u[i], u[j], M, N)
  <2>1. i \in 1 .. n /\ u[i] = q[i]
    BY <1>1, <1>2
  <2>2. CASE j = n + 1
    <3>1. q[i] \in Range(q)
      BY <1>1, <2>1 DEF Range
    <3> QED BY <1>1, <2>1, <2>2, <3>1
  <2>3. CASE j # n + 1
    <3>1. j \in 1 .. n /\ u[j] = q[j]
      BY <1>1, <2>3
    <3>2. Sooner(q[i], q[j], M, N)
      BY <1>1, <1>2, <2>1, <3>1 DEF Line
    <3> QED BY <2>1, <3>1, <3>2
  <2> QED BY <2>2, <2>3
<1>3. Line(u, M, N)
  BY <1>2 DEF Line
<1> QED BY <1>3 DEF u

LEMMA LineMore ==
  ASSUME NEW q, NEW M, NEW M1, NEW N, NEW N1, M \subseteq M1, N \subseteq N1,
         Line(q, M, N)
  PROVE  Line(q, M1, N1)
<1>1. \A e, d : Sooner(e, d, M, N) => Sooner(e, d, M1, N1)
  BY BehindKept DEF Sooner
<1> QED BY <1>1 DEF Line

LEMMA FallsKept ==
  ASSUME Base, FallInv, nested \subseteq nested', NEW t \in Loops, NEW F,
         StackStep(t, F),
         \A g \in F : \A f \in Range(stack[t]) : Over(g, f, nested')
  PROVE  FallInv'
<1>1. \A l \in Loops : stack[l] \in Seq(Frames) /\ Falls(stack[l], nested')
  BY FallsMore DEF Base, StackInv, FallInv
<1>2. Falls(stack'[t], nested')
  BY <1>1, FallsGrow DEF StackStep
<1>3. \A l \in Loops : Falls(stack'[l], nested')
  BY <1>1, <1>2 DEF StackStep
<1> QED BY <1>3 DEF FallInv

LEMMA LineKept ==
  ASSUME Base, LineInv, moved \subseteq moved', nested \subseteq nested',
         NEW t \in Loops,
         \/ UNCHANGED queue \/ Taken(t)
         \/ \E l, e : /\ Posted(l, e)
                      /\ \A d \in Range(queue[l]) : Sooner(d, e, moved', nested')
  PROVE  LineInv'
<1>1. \A l \in Loops : queue[l] \in Seq(Tasks) /\ Line(queue[l], moved', nested')
  BY LineMore DEF Base, TypeOK, LineInv
<1>2. CASE UNCHANGED queue
  BY <1>1, <1>2 DEF LineInv
<1>3. CASE Taken(t)
  <2>1. Line(queue'[t], moved', nested')
    BY <1>1, <1>3, LineTail DEF Taken
  <2>2. \A l \in Loops : Line(queue'[l], moved', nested')
    BY <1>1, <1>3, <2>1 DEF Taken
  <2> QED BY <2>2 DEF LineInv
<1>4. ASSUME NEW l, NEW e, Posted(l, e),
             \A d \in Range(queue[l]) : Sooner(d, e, moved', nested')
      PROVE  LineInv'
  <2>1. Line(queue'[l], moved', nested')
    BY <1>1, <1>4, LineAppend DEF Posted
  <2>2. \A m \in Loops : Line(queue'[m], moved', nested')
    BY <1>1, <1>4, <2>1 DEF Posted
  <2> QED BY <2>2 DEF LineInv
<1> QED BY <1>2, <1>3, <1>4

(* Signals keep the loop they have been told.                              *)
Tuning ==
  \A s \in Signals :
    /\ signalLoop[s] # Nil => signalLoop'[s] # Nil
    /\ connects'[s] # {} => connects[s] # {} \/ signalLoop'[s] # Nil

(* What a thread adds to its calls, and to a loop's functions.             *)
CallsOn(F) ==
  \A f \in F : /\ f.at \in Carrying => f.id <= emits'
               /\ f.at = "hand" => /\ f.arg \in Conns
                                   /\ signalLoop'[SignalOf[f.arg]] # Nil
PostsOn(t) ==
  \/ UNCHANGED queue \/ Taken(t)
  \/ \E l, e : /\ Posted(l, e)
               /\ e.do = "slot" => e.id <= emits'
               /\ \A d \in Range(queue[l]) : Sooner(d, e, moved', nested')

LEMMA IdsKept ==
  ASSUME Base, IdsInv, emits' \in Nat, emits <= emits', NEW t \in Loops, NEW F,
         StackStep(t, F), CallsOn(F), PostsOn(t),
         \A c \in Conns : \A m \in ran'[c] : m \in ran[c] \/ m <= emits'
  PROVE  IdsInv'
<1>1. emits \in Nat /\ \A c \in Conns : ran[c] \subseteq Nat
  BY DEF Base, TypeOK, LogOK
<1>2. ASSUME NEW l \in Loops, NEW f \in Range(stack'[l]), f.at \in Carrying
      PROVE  f.id <= emits'
  <2>1. CASE f \in Range(stack[l])
    <3>1. f \in Frames
      <4>1. stack[l] \in Seq(Frames)
        BY DEF Base, TypeOK
      <4> QED BY <2>1, <4>1 DEF Range
    <3>2. f.id \in Nat
      BY <3>1 DEF Frames
    <3> QED BY <1>1, <1>2, <2>1, <3>2 DEF IdsInv
  <2>2. CASE f \in F
    BY <1>2, <2>2 DEF CallsOn
  <2> QED BY <1>2, <2>1, <2>2 DEF StackStep
<1>3. ASSUME NEW l \in Loops, NEW e \in Range(queue'[l]), e.do = "slot"
      PROVE  e.id <= emits'
  <2>1. CASE e \in Range(queue[l])
    <3>1. queue[l] \in Seq(Tasks)
      BY DEF Base, TypeOK
    <3>2. e \in Tasks
      BY <2>1, <3>1 DEF Range
    <3>3. e.id \in Nat
      BY <3>2 DEF Tasks
    <3> QED BY <1>1, <1>3, <2>1, <3>3 DEF IdsInv
  <2>2. CASE e \notin Range(queue[l])
    BY <1>3, <2>2 DEF PostsOn, Posted, Taken
  <2> QED BY <2>1, <2>2
<1>4. ASSUME NEW c \in Conns, NEW m \in ran'[c] PROVE m <= emits'
  BY <1>1 DEF IdsInv
<1> QED BY <1>2, <1>3, <1>4 DEF IdsInv

LEMMA TunedKept ==
  ASSUME Base, TunedInv, Tuning, NEW t \in Loops, NEW F, StackStep(t, F),
         CallsOn(F)
  PROVE  TunedInv'
<1>1. \A s \in Signals : connects'[s] # {} => signalLoop'[s] # Nil
  BY DEF Tuning, TunedInv
<1>2. ASSUME NEW l \in Loops, NEW f \in Range(stack'[l]), f.at = "hand"
      PROVE  signalLoop'[SignalOf[f.arg]] # Nil
  <2>1. CASE f \in Range(stack[l])
    <3>1. stack[l] \in Seq(Frames)
      BY DEF Base, TypeOK
    <3>2. f \in Frames
      BY <2>1, <3>1 DEF Range
    <3>3. f.arg \in Conns
      BY <1>2, <3>2 DEF Frames
    <3>4. SignalOf[f.arg] \in Signals
      BY <3>3, PlaceTypes
    <3> QED BY <1>2, <2>1, <3>4 DEF Tuning, TunedInv
  <2>2. CASE f \in F
    BY <1>2, <2>2 DEF CallsOn
  <2> QED BY <1>2, <2>1, <2>2 DEF StackStep
<1> QED BY <1>1, <1>2 DEF TunedInv

(* An emission that goes from one stage to the next.                       *)
LEMMA TurnsFewer ==
  ASSUME NEW c, NEW N, NEW R, NEW C, NEW Q, NEW H, NEW O,
         Turns(c, N, R, C, Q, H, O),
         NEW N1, NEW R1, NEW C1, NEW Q1, NEW H1, NEW O1, N \subseteq N1,
         R1 \subseteq R, C1 \subseteq C, Q1 \subseteq Q, H1 \subseteq H,
         O1 \subseteq O
  PROVE  Turns(c, N1, R1, C1, Q1, H1, O1)
BY DEF Turns, Behind

LEMMA TurnsBegin ==
  ASSUME NEW c, NEW N, NEW R, NEW C, NEW Q, NEW H, NEW O,
         Turns(c, N, R, C, Q, H, O), NEW n, NEW N1, NEW O1, N \subseteq N1,
         O1 \subseteq O \cup {n},
         \A m \in R \cup C \cup Q \cup H : Behind(c, m, n, N1)
  PROVE  Turns(c, N1, R, C, Q, H, O1)
<1>1. Turns(c, N1, R, C, Q, H, O)
  BY TurnsFewer
<1> QED BY <1>1 DEF Turns

LEMMA TurnsLook ==
  ASSUME NEW c, NEW N, NEW R, NEW C, NEW Q, NEW H, NEW O,
         Turns(c, N, R, C, Q, H, O), NEW n \in O, NEW H1, NEW O1,
         H1 \subseteq H \cup {n}, O1 \subseteq O,
         \A m \in O1 : Behind(c, n, m, N)
  PROVE  Turns(c, N, R, C, Q, H1, O1)
BY DEF Turns

LEMMA TurnsHand ==
  ASSUME NEW c, NEW N, NEW R, NEW C, NEW Q, NEW H, NEW O,
         Turns(c, N, R, C, Q, H, O), NEW n \in H, NEW C1, NEW Q1, NEW H1,
         NEW O1, H1 = {}, O1 \subseteq O,
         \/ C1 \subseteq C /\ Q1 \subseteq Q \cup {n}
         \/ C1 \subseteq C \cup {n} /\ Q1 = {}
  PROVE  Turns(c, N, R, C1, Q1, H1, O1)
BY DEF Turns

LEMMA TurnsRun ==
  ASSUME NEW c, NEW N, NEW R, NEW C, NEW Q, NEW H, NEW O,
         Turns(c, N, R, C, Q, H, O), NEW n \in Q, NEW C1, NEW Q1, NEW H1,
         NEW O1, C1 \subseteq C \cup {n}, Q1 \subseteq Q, H1 \subseteq H,
         O1 \subseteq O, \A m \in Q1 : Behind(c, n, m, N)
  PROVE  Turns(c, N, R, C1, Q1, H1, O1)
BY DEF Turns

LEMMA TurnsCall ==
  ASSUME NEW c, NEW N, NEW R, NEW C, NEW Q, NEW H, NEW O,
         Turns(c, N, R, C, Q, H, O), NEW n \in C, NEW R1, NEW C1, NEW Q1,
         NEW H1, NEW O1, R1 \subseteq R \cup {n}, C1 = {}, Q1 \subseteq Q,
         H1 \subseteq H, O1 \subseteq O
  PROVE  Turns(c, N, R1, C1, Q1, H1, O1)
BY DEF Turns

(* Where the emissions are after a step.                                   *)
LEMMA StageMoves ==
  ASSUME NEW t \in Loops, NEW F, StackStep(t, F), NEW c, NEW at
  PROVE  \A n \in Stage(at, c)' :
           n \in Stage(at, c) \/ \E f \in F : f.at = at /\ f.arg = c /\ f.id = n
BY DEF Stage, StackStep

LEMMA RoundMoves ==
  ASSUME NEW t \in Loops, NEW F, StackStep(t, F), NEW c
  PROVE  \A n \in Rounds(c)' :
           n \in Rounds(c) \/ \E f \in F : /\ f.at \in SignalLabels
                                           /\ c \in f.todo /\ f.id = n
BY DEF Rounds, StackStep

LEMMA PostMovesOn ==
  ASSUME NEW c
  PROVE  /\ UNCHANGED queue => Posts(c)' = Posts(c)
         /\ \A t \in Loops : Taken(t) => Posts(c)' \subseteq Posts(c)
         /\ \A l, e : Posted(l, e) =>
              \A n \in Posts(c)' : n \in Posts(c) \/ Bears(e, c, n)
BY DEF Posts, Posted, Taken

(* A connection that has not been made is in none of them.                 *)
LEMMA NoStages ==
  ASSUME Base, NEW c \in Conns, c \notin Known
  PROVE  /\ Stage("call", c) = {} /\ Stage("hand", c) = {}
         /\ Posts(c) = {} /\ Rounds(c) = {}
<1>1. /\ \A l \in Loops : \A f \in Range(stack[l]) : KnownCall(f, Known)
      /\ \A l \in Loops : \A e \in Range(queue[l]) : KnownTask(e, Known)
  BY DEF Base, KnownInv, KnownCalls
<1>2. "call" \in ConnLabels /\ "slot" \notin SignalLabels
  BY DEF ConnLabels, SignalLabels
<1>3. Stage("call", c) = {} /\ Stage("hand", c) = {} /\ Rounds(c) = {}
  BY <1>1, <1>2 DEF KnownCall, Stage, Rounds
<1>4. Posts(c) = {}
  BY <1>1, <1>2 DEF KnownTask, Posts, Bears
<1> QED BY <1>3, <1>4

(* The emissions c is not handed any further.                              *)
Behindhand(c) ==
  /\ ran'[c] \subseteq ran[c] /\ Stage("call", c)' \subseteq Stage("call", c)
  /\ Posts(c)' \subseteq Posts(c)
  /\ Stage("hand", c)' \subseteq Stage("hand", c)
  /\ Rounds(c)' \subseteq Rounds(c)

LEMMA TurnFewer ==
  ASSUME Base, TurnInv, moved \subseteq moved', nested \subseteq nested',
         NEW c \in Conns, c \in Known => receiverLoop'[c] = receiverLoop[c],
         Behindhand(c), Unmoved(c)'
  PROVE  InTurn(c)' /\ Direct(c)'
<1>1. Unmoved(c)
  BY DEF Unmoved
<1>2. CASE c \in Known
  <2>1. InTurn(c) /\ Direct(c) /\ Place(c)' = Place(c)
    BY <1>1, <1>2 DEF TurnInv, Place
  <2>2. InTurn(c)'
    BY <2>1, TurnsFewer DEF InTurn, Behindhand
  <2>3. Direct(c)'
    BY <2>1 DEF Direct, Behindhand
  <2> QED BY <2>2, <2>3
<1>3. CASE c \notin Known
  <2>1. /\ Stage("call", c)' = {} /\ Stage("hand", c)' = {}
        /\ Posts(c)' = {} /\ Rounds(c)' = {}
    BY <1>3, NoStages DEF Behindhand
  <2>2. InTurn(c)'
    BY <2>1 DEF InTurn, Turns
  <2> QED BY <2>1, <2>2 DEF Direct
<1> QED BY <1>2, <1>3

(* A step that adds to the calls of one thread.                            *)
LEMMA OrderStep ==
  ASSUME Base, OrderInv, moved \subseteq moved', nested \subseteq nested',
         emits' \in Nat, emits <= emits', Tuning,
         \A c \in Conns : \A m \in ran'[c] : m \in ran[c] \/ m <= emits',
         NEW t \in Loops, NEW F, StackStep(t, F), CallsOn(F), PostsOn(t),
         FallInv', TurnInv'
  PROVE  OrderInv'
<1>1. LineInv'
  <2>1. \/ UNCHANGED queue \/ Taken(t)
        \/ \E l, e : /\ Posted(l, e)
                     /\ \A d \in Range(queue[l]) : Sooner(d, e, moved', nested')
    BY DEF PostsOn
  <2> QED BY <2>1, LineKept DEF OrderInv
<1>2. IdsInv'
  BY IdsKept DEF OrderInv
<1>3. TunedInv'
  BY TunedKept DEF OrderInv
<1> QED BY <1>1, <1>2, <1>3 DEF OrderInv

(* A step in which no emission gets anywhere.                              *)
LEMMA OrderQuiet ==
  ASSUME Base, OrderInv, moved \subseteq moved',
         UNCHANGED <<ran, emits, nested>>, Tuning,
         \A c \in Known : receiverLoop'[c] = receiverLoop[c],
         NEW t \in Loops, NEW F, StackStep(t, F), \A f \in F : f.at \notin Carrying,
         \/ UNCHANGED queue \/ Taken(t)
         \/ \E l, e : Posted(l, e) /\ e.do # "slot"
  PROVE  OrderInv'
<1>1. CallsOn(F)
  BY DEF CallsOn, Carrying
<1>2. PostsOn(t)
  <2>1. ASSUME NEW l, NEW e, Posted(l, e), e.do # "slot" PROVE PostsOn(t)
    <3>1. \A d : Sooner(d, e, moved', nested')
      BY <2>1 DEF Sooner
    <3> QED BY <2>1, <3>1 DEF PostsOn
  <2> QED BY <2>1 DEF PostsOn
<1>3. FallInv'
  <2>1. \A g \in F : \A f \in Range(stack[t]) : Over(g, f, nested')
    BY DEF Over, Carrying
  <2> QED BY <2>1, FallsKept DEF OrderInv
<1>4. ASSUME NEW c \in Conns PROVE Behindhand(c)
  <2>1. /\ Stage("call", c)' \subseteq Stage("call", c)
        /\ Stage("hand", c)' \subseteq Stage("hand", c)
    BY StageMoves DEF Carrying
  <2>2. Rounds(c)' \subseteq Rounds(c)
    BY RoundMoves DEF Carrying
  <2>3. Posts(c)' \subseteq Posts(c)
    BY PostMovesOn DEF Bears
  <2> QED BY <2>1, <2>2, <2>3 DEF Behindhand
<1>5. TurnInv'
  <2>1. ASSUME NEW c \in Conns, Unmoved(c)' PROVE InTurn(c)' /\ Direct(c)'
    BY <1>4, <2>1, TurnFewer DEF OrderInv
  <2> QED BY <2>1 DEF TurnInv, Known
<1>6. emits' \in Nat /\ emits <= emits'
  BY DEF Base, TypeOK, LogOK
<1>7. \A c \in Conns : \A m \in ran'[c] : m \in ran[c] \/ m <= emits'
  OBVIOUS
<1> QED BY <1>1, <1>2, <1>3, <1>5, <1>6, <1>7, OrderStep

(* An emission begins, after all others.                                   *)
LEMMA OrderBegin ==
  ASSUME Base, OrderInv, NEW t \in Loops, NEW do \in SignalLabels,
         NEW s \in Signals, NEW below, BeginDispatch(t, do, s, below),
         NEW g, g = Frame(do, s, connects[s], emits + 1),
         NEW F, StackStep(t, F), \A f \in F : f = g \/ f.at \notin Carrying,
         \A f \in Range(stack[t]) : f \in Range(below),
         UNCHANGED queue \/ Taken(t),
         UNCHANGED <<moved, ran, signalLoop, connects, receiverLoop>>
  PROVE  OrderInv'
<1>1. /\ emits \in Nat /\ emits' = emits + 1 /\ nested \subseteq nested'
      /\ emits' \in Nat /\ emits <= emits'
      /\ (\E f \in Range(below) : f.at \in SignalLabels /\ f.arg = s)
           => s \in nested'
  BY DEF BeginDispatch, Base, TypeOK, LogOK, Range
<1>2. /\ g.at \in SignalLabels /\ g.arg = s /\ g.id = emits + 1
      /\ g.at \notin {"hand", "call"}
  BY FrameTypes DEF SignalLabels
<1>3. CallsOn(F)
  <2>1. ASSUME NEW f \in F, f.at \in Carrying PROVE f.id <= emits'
    BY <1>1, <1>2, <2>1
  <2>2. \A f \in F : f.at # "hand"
    BY <1>2 DEF Carrying
  <2> QED BY <2>1, <2>2 DEF CallsOn
<1>4. ASSUME NEW l \in Loops, NEW f \in Range(stack[l]), f.at \in Carrying
      PROVE  f.id \in Nat /\ f.id <= emits
  <2>1. stack[l] \in Seq(Frames)
    BY DEF Base, TypeOK
  <2>2. f \in Frames
    BY <2>1 DEF Range
  <2> QED BY <1>4, <2>2 DEF OrderInv, IdsInv, Frames
<1>5. FallInv'
  <2>1. ASSUME NEW f \in Range(stack[t]), f.at \in SignalLabels
        PROVE  f.id < g.id /\ (f.arg = g.arg => f.arg \in nested')
    <3>1. f.id \in Nat /\ f.id <= emits
      BY <1>4, <2>1 DEF Carrying
    <3>2. f.id < g.id
      BY <1>1, <1>2, <3>1
    <3> QED BY <1>1, <1>2, <2>1, <3>2
  <2>2. \A h \in F : \A f \in Range(stack[t]) : Over(h, f, nested')
    BY <2>1 DEF Over, Carrying
  <2> QED BY <1>1, <2>2, FallsKept DEF OrderInv
<1>6. ASSUME NEW c \in Conns
      PROVE  /\ Stage("call", c)' \subseteq Stage("call", c)
             /\ Stage("hand", c)' \subseteq Stage("hand", c)
             /\ Posts(c)' \subseteq Posts(c)
             /\ Rounds(c)' \subseteq Rounds(c) \cup {emits + 1}
             /\ c \notin g.todo => Rounds(c)' \subseteq Rounds(c)
  <2>1. /\ Stage("call", c)' \subseteq Stage("call", c)
        /\ Stage("hand", c)' \subseteq Stage("hand", c)
    BY <1>2, StageMoves DEF Carrying
  <2>2. /\ Rounds(c)' \subseteq Rounds(c) \cup {emits + 1}
        /\ c \notin g.todo => Rounds(c)' \subseteq Rounds(c)
    BY <1>2, RoundMoves DEF Carrying
  <2>3. Posts(c)' \subseteq Posts(c)
    BY PostMovesOn
  <2> QED BY <2>1, <2>2, <2>3
<1>7. ASSUME NEW c \in Known, Unmoved(c)' PROVE InTurn(c)' /\ Direct(c)'
  <2>1. c \in Conns /\ Unmoved(c) /\ Place(c)' = Place(c)
    BY <1>7 DEF Known, Unmoved, Place
  <2>2. InTurn(c) /\ Direct(c)
    BY <2>1 DEF OrderInv, TurnInv
  <2>3. \A m \in ran[c] \cup Stage("call", c) \cup Posts(c) \cup Stage("hand", c) :
          m \in Nat /\ m <= emits
    <3>1. \A m \in ran[c] : m \in Nat /\ m <= emits
      BY <2>1 DEF OrderInv, IdsInv, Base, TypeOK, LogOK
    <3>2. \A m \in Stage("call", c) \cup Stage("hand", c) : m \in Nat /\ m <= emits
      BY <1>4 DEF Stage, Carrying
    <3>3. \A m \in Posts(c) : m \in Nat /\ m <= emits
      BY DEF Posts, Bears, OrderInv, IdsInv
    <3> QED BY <3>1, <3>2, <3>3
  <2>4. \A m \in ran[c] \cup Stage("call", c) \cup Posts(c) \cup Stage("hand", c) :
          Behind(c, m, emits + 1, nested')
    <3>1. \A m \in Nat : m <= emits => m # emits + 1 /\ m < emits + 1
      BY <1>1
    <3> QED BY <2>3, <3>1 DEF Behind
  <2> DEFINE R == ran[c]
             C == Stage("call", c)
             Q == Posts(c)
             H == Stage("hand", c)
             O == Rounds(c)
  <2>5. Turns(c, nested, R, C, Q, H, O)
    BY <2>2 DEF InTurn
  <2>6. Rounds(c)' \subseteq O \cup {emits + 1}
    BY <1>6, <2>1
  <2>7. \A m \in R \cup C \cup Q \cup H : Behind(c, m, emits + 1, nested')
    BY <2>4
  <2>8. /\ ran'[c] \subseteq R /\ Stage("call", c)' \subseteq C
        /\ Posts(c)' \subseteq Q /\ Stage("hand", c)' \subseteq H
    BY <1>6, <2>1
  <2> HIDE DEF R, C, Q, H, O
  <2>9. Turns(c, nested', R, C, Q, H, Rounds(c)')
    BY <1>1, <2>5, <2>6, <2>7, TurnsBegin
  <2>10. InTurn(c)'
    BY <2>8, <2>9, TurnsFewer DEF InTurn
  <2>11. Direct(c)'
    BY <2>1, <2>2, <2>8 DEF Direct, Q
  <2> QED BY <2>10, <2>11
<1>8. TurnInv'
  <2>1. Known' = Known
    BY DEF Known
  <2> QED BY <1>7, <2>1 DEF TurnInv
<1>9. Tuning /\ PostsOn(t)
  BY DEF Tuning, PostsOn
<1>10. \A c \in Conns : \A m \in ran'[c] : m \in ran[c] \/ m <= emits'
  OBVIOUS
<1> QED BY <1>1, <1>3, <1>5, <1>8, <1>9, <1>10, OrderStep

LEMMA SameTuning == UNCHANGED sigVars => Tuning
BY DEF Tuning, sigVars

LEMMA RegisterTunes ==
  ASSUME Base, NEW c \in Conns, NEW r, Register(c, r)
  PROVE  Tuning
<1>1. SignalOf[c] \in Signals /\ loop[Sender(c)] # Nil
  BY PlaceTypes
<1>2. CASE Sender(c) \in alive
  <2>1. /\ signalLoop' = [signalLoop EXCEPT ![SignalOf[c]] = loop[Sender(c)]]
        /\ connects' = [connects EXCEPT ![SignalOf[c]] = @ \cup {c}]
    BY <1>2 DEF Register
  <2> QED BY <1>1, <2>1 DEF Tuning, Base, TypeOK, SignalsOK
<1>3. CASE Sender(c) \notin alive
  BY <1>3, SameTuning DEF Register
<1> QED BY <1>2, <1>3

LEMMA OrderUser ==
  ASSUME Base, OrderInv, NEW t \in Loops, UserCall(t)
  PROVE  OrderInv'
<1>1. ASSUME NEW c \in Conns, Connect(t, c) PROVE OrderInv'
  <2>1. /\ receiverLoop[c] = Nil /\ UNCHANGED <<moved, ran, emits, nested>>
        /\ receiverLoop' = [receiverLoop EXCEPT ![c] = t]
        /\ Register(c, t) \/ UNCHANGED sigVars
    BY <1>1 DEF Connect, emitVars
  <2>2. \A d \in Known : receiverLoop'[d] = receiverLoop[d]
    BY <2>1 DEF Known, Base, TypeOK, ConnsOK
  <2>3. Tuning
    BY <2>1, RegisterTunes, SameTuning
  <2>4. PICK g : g = Frame(IF ReceiverOf[c] = Nil THEN "wire" ELSE "enter",
                           c, {}, 0)
    OBVIOUS
  <2>5. g.at \in {"wire", "enter"}
    BY <2>4, FrameTypes
  <2>6. g.at \notin Carrying
    BY <2>5 DEF Carrying, SignalLabels
  <2>7. /\ StackStep(t, {g})
        /\ UNCHANGED queue \/ \E l, e : Posted(l, e) /\ e.do # "slot"
    <3>1. Task("register", c, 0, Nil).do # "slot"
      BY TaskTypes
    <3> QED BY <1>1, <2>4, <3>1, ConnectMoves
  <2> QED BY <2>1, <2>2, <2>3, <2>6, <2>7, OrderQuiet
<1>2. ASSUME NEW c \in Conns, Disconnect(t, c) PROVE OrderInv'
  <2>1. UNCHANGED <<moved, ran, emits, nested, receiverLoop, sigVars, queue>>
    BY <1>2 DEF Disconnect, objVars, connVars, emitVars
  <2>2. PICK g : g = Frame("test", c, {}, 0)
    OBVIOUS
  <2>3. StackStep(t, {g}) /\ g.at \notin Carrying
    BY <1>2, <2>2, DisconnectMoves, FrameTypes DEF Carrying, SignalLabels
  <2> QED BY <2>1, <2>3, SameTuning, OrderQuiet
<1>3. ASSUME NEW o \in Objects, Destroy(t, o) PROVE OrderInv'
  <2>1. UNCHANGED <<moved, ran, emits, nested, receiverLoop, sigVars, queue>>
    BY <1>3 DEF Destroy, connVars, emitVars
  <2>2. PICK g : g = Frame("each", o, asSender[o] \cup asReceiver[o], 0)
    OBVIOUS
  <2>3. StackStep(t, {g}) /\ g.at \notin Carrying
    BY <1>3, <2>2, DestroyMoves, FrameTypes DEF Carrying, SignalLabels
  <2> QED BY <2>1, <2>3, SameTuning, OrderQuiet
<1>4. ASSUME NEW o \in Objects, NEW l \in Loops, MoveToLoop(t, o, l)
      PROVE  OrderInv'
  <2>1. /\ UNCHANGED <<ran, emits, nested, receiverLoop, queue, stack, connects>>
        /\ moved \subseteq moved'
        /\ signalLoop' = [s \in Signals |->
             IF Container[s] = o /\ signalLoop[s] # Nil THEN l ELSE signalLoop[s]]
    BY <1>4 DEF MoveToLoop, loopVars, connVars, emitVars
  <2>2. Tuning
    BY <2>1, PlaceTypes DEF Tuning
  <2>3. StackStep(t, {})
    BY <2>1, SameStep DEF Base
  <2> QED BY <2>1, <2>2, <2>3, OrderQuiet
<1>5. ASSUME NEW s \in Signals, NEW sync \in BOOLEAN, Emit(t, s, sync)
      PROVE  OrderInv'
  <2>1. PICK do : do = IF sync THEN "dispatchSync" ELSE "dispatch"
    OBVIOUS
  <2>2. PICK g, w : /\ g = Frame(do, s, connects[s], emits + 1)
                    /\ w = Frame("wait", s, {}, 0)
    OBVIOUS
  <2>3. do \in SignalLabels /\ UNCHANGED <<moved, ran, receiverLoop, sigVars>>
    BY <1>5, <2>1 DEF Emit, SignalLabels, objVars, connVars
  <2>4. w.at \notin Carrying
    BY <2>2, FrameTypes DEF Carrying, SignalLabels
  <2>5. CASE /\ UNCHANGED <<emits, nested>>
             /\ StackStep(t, {}) \/ StackStep(t, {w})
             /\ UNCHANGED queue \/ \E l, e : Posted(l, e) /\ e.do # "slot"
    <3>1. PICK F : StackStep(t, F) /\ \A f \in F : f.at \notin Carrying
      BY <2>4, <2>5
    <3> QED BY <2>3, <2>5, <3>1, SameTuning, OrderQuiet
  <2>6. CASE signalLoop[s] = t /\ StackStep(t, {g}) /\ UNCHANGED queue
    <3>1. t # Nil
      BY PlaceTypes
    <3>2. BeginDispatch(t, do, s, stack[t])
      BY <1>5, <2>1, <2>6, <3>1 DEF Emit
    <3>3. UNCHANGED <<signalLoop, connects>>
      BY <2>3 DEF sigVars
    <3> QED BY <2>2, <2>3, <2>6, <3>2, <3>3, OrderBegin
  <2>7. \A u : Task(do, s, 0, u).do # "slot"
    BY <2>3, TaskTypes DEF SignalLabels
  <2>8. \/ /\ StackStep(t, {}) /\ UNCHANGED <<queue, emits, nested>>
        \/ signalLoop[s] = t /\ StackStep(t, {g}) /\ UNCHANGED queue
        \/ /\ StackStep(t, {w}) /\ UNCHANGED <<emits, nested>>
           /\ Posted(signalLoop[s], Task(do, s, 0, t))
        \/ /\ StackStep(t, {}) /\ UNCHANGED <<emits, nested>>
           /\ Posted(signalLoop[s], Task(do, s, 0, Nil))
    BY <1>5, <2>1, <2>2, EmitMoves
  <2> QED BY <2>5, <2>6, <2>7, <2>8
<1>6. ASSUME NEW call \in Calls, DisconnectQuery(t, call[3])
      PROVE  OrderInv'
  <2>1. PICK q : q = call[3]
    OBVIOUS
  <2>2. UNCHANGED <<moved, ran, emits, nested, receiverLoop, sigVars>>
    BY <1>6, <2>1 DEF DisconnectQuery, objVars, connVars, emitVars
  <2>3. PICK g : g = Frame("each", q.object, Chosen(q), 0)
    OBVIOUS
  <2>4. g.at \notin Carrying /\ Task("query", q, 0, Nil).do # "slot"
    BY <2>3, FrameTypes, TaskTypes DEF Carrying, SignalLabels
  <2>5. \/ StackStep(t, {g}) /\ UNCHANGED queue
        \/ StackStep(t, {}) /\ Posted(loop[q.object], Task("query", q, 0, Nil))
    BY <1>6, <2>1, <2>3, DisconnectQueryMoves
  <2> QED BY <2>2, <2>4, <2>5, SameTuning, OrderQuiet
<1> QED BY <1>1, <1>2, <1>3, <1>4, <1>5, <1>6 DEF UserCall

(* A round that goes on with connection c, and what it leaves on its       *)
(* thread.                                                                 *)
LooksOn(t, f, c, g, h) ==
  /\ c \in Conns /\ SignalOf[c] = f.arg
  /\ g.at = "hand" /\ g.arg = c /\ g.id = f.id
  /\ h.at = f.at /\ h.arg = f.arg /\ h.todo = f.todo \ {c} /\ h.id = f.id
  /\ StackStep(t, {g, h})
  /\ \/ /\ c \in connects[f.arg]
        /\ stack'[t] = <<g>> \o (<<h>> \o Tail(stack[t]))
     \/ stack'[t] = <<h>> \o Tail(stack[t]) /\ StackStep(t, {h})

LEMMA LookStack ==
  ASSUME Base, NEW t \in Loops, NEW do \in SignalLabels, Look(t, do),
         NEW f, f = Head(stack[t]), f.todo # {}, Container[f.arg] \in alive
  PROVE  \E c \in f.todo : \E g \in Frames : \E h \in Frames :
           LooksOn(t, f, c, g, h)
<1>1. /\ f \in Frames /\ f \in Range(stack[t]) /\ f.at = do
      /\ stack[t] # <<>> /\ At(t, do)
  BY TopIs DEF Look
<1>2. \A c \in f.todo : c \in Conns /\ SignalOf[c] = f.arg
  BY <1>1 DEF Frames
<1>3. PICK c \in f.todo :
        LET rest == [f EXCEPT !.todo = @ \ {c}] IN
        stack' = [stack EXCEPT ![t] =
          (IF c \in connects[f.arg] \cap connAlive
             THEN <<Frame("hand", c, {}, f.id), rest>> ELSE <<rest>>)
            \o Tail(@)]
  BY DEF Look
<1>4. PICK g, h : /\ g = Frame("hand", c, {}, f.id)
                  /\ h = [f EXCEPT !.todo = @ \ {c}]
  OBVIOUS
<1>5. g \in Frames /\ g.at = "hand" /\ g.arg = c /\ g.id = f.id
  <2>1. f.id \in Nat /\ c \in Conns
    BY <1>1, <1>2 DEF Frames
  <2> QED BY <1>4, <2>1, FrameTypes
<1>6. /\ h \in Frames /\ h.at = f.at /\ h.arg = f.arg /\ h.todo = f.todo \ {c}
      /\ h.id = f.id
  <2>1. h \in Frames
    BY <1>1, <1>4, RelabelTypes
  <2> QED BY <1>1, <1>4, <2>1, RelabelTypes
<1>7. /\ g.at # "task" /\ h.at \in SuspendedLabels \ {"task"} /\ h.at # "task"
      /\ g.at \notin SignalLabels
  BY <1>1, <1>5, <1>6 DEF SuspendedLabels, SignalLabels
<1>8. CASE c \in connects[f.arg] \cap connAlive
  <2>1. stack' = [stack EXCEPT ![t] = <<g, h>> \o Tail(@)]
    BY <1>3, <1>4, <1>8
  <2>2. /\ StackStep(t, {g, h})
        /\ stack'[t] = <<g>> \o (<<h>> \o Tail(stack[t]))
    BY <1>1, <1>5, <1>6, <1>7, <2>1, TwoMoves
  <2> QED BY <1>1, <1>2, <1>5, <1>6, <1>8, <2>2 DEF LooksOn
<1>9. CASE c \notin connects[f.arg] \cap connAlive
  <2>1. stack' = [stack EXCEPT ![t] = <<h>> \o Tail(@)]
    BY <1>3, <1>4, <1>9
  <2>2. StackStep(t, {h})
    BY <1>1, <1>6, <1>7, <2>1, ReplaceMoves DEF Base
  <2>3. stack'[t] = <<h>> \o Tail(stack[t])
    BY <1>1, <1>6, <1>7, <2>1, ReplaceStep DEF Base, Becomes
  <2>4. StackStep(t, {g, h})
    BY <2>2, <1>6 DEF StackStep, Grows
  <2> QED BY <1>1, <1>2, <1>5, <1>6, <2>2, <2>3, <2>4 DEF LooksOn
<1> QED BY <1>8, <1>9

(* A round hands its emission to a connection before those it is nested in.*)
LEMMA OrderLook ==
  ASSUME Base, HomeInv, OrderInv, NEW t \in Loops, NEW do \in SignalLabels,
         Look(t, do)
  PROVE  OrderInv'
<1>1. PICK f : f = Head(stack[t])
  OBVIOUS
<1>2. UNCHANGED <<moved, ran, emits, nested, receiverLoop, sigVars, queue>>
  BY DEF Look, objVars, connVars, logVars, emitVars
<1>3. CASE f.todo = {} \/ Container[f.arg] \notin alive
  <2>1. StackStep(t, {})
    BY <1>1, <1>3, LookMoves DEF LooksAt
  <2> QED BY <1>2, <2>1, SameTuning, OrderQuiet
<1>4. CASE ~(f.todo = {} \/ Container[f.arg] \notin alive)
  <2>1. PICK c \in f.todo, g \in Frames, h \in Frames :
           /\ g.at = "hand" /\ g.arg = c /\ g.id = f.id
           /\ h.at = f.at /\ h.arg = f.arg /\ h.todo = f.todo \ {c} /\ h.id = f.id
           /\ f \in Frames /\ f.at = do /\ stack[t] # <<>>
           /\ f \in Range(stack[t]) /\ SignalOf[c] = f.arg /\ c \in Conns
           /\ StackStep(t, {g, h})
           /\ \/ /\ c \in connects[f.arg]
                 /\ stack'[t] = <<g>> \o (<<h>> \o Tail(stack[t]))
              \/ stack'[t] = <<h>> \o Tail(stack[t]) /\ StackStep(t, {h})
    <3>1. f.todo # {} /\ Container[f.arg] \in alive
      BY <1>4
    <3>2. PICK c \in f.todo, g \in Frames, h \in Frames : LooksOn(t, f, c, g, h)
      BY <1>1, <3>1, LookStack
    <3>3. f \in Frames /\ f.at = do /\ stack[t] # <<>> /\ f \in Range(stack[t])
      BY <1>1, TopIs DEF Look
    <3> QED BY <3>2, <3>3 DEF LooksOn
  <2> DEFINE u == Tail(stack[t])
  <2>2. /\ u \in Seq(Frames) /\ Falls(u, nested)
        /\ \A d \in Range(u) : Over(f, d, nested)
    BY <1>1, <2>1, FallsTail DEF Base, TypeOK, OrderInv, FallInv
  <2>3. /\ <<h>> \o u \in Seq(Frames) /\ Range(<<h>> \o u) = {h} \cup Range(u)
        /\ Falls(<<h>> \o u, nested)
    <3>1. \A d \in Range(u) : Over(h, d, nested)
      BY <2>1, <2>2 DEF Over
    <3> HIDE DEF u
    <3> QED BY <2>1, <2>2, <3>1, FallsCons, ConsFacts
  <2> DEFINE v == <<h>> \o u
  <2>4. /\ Falls(<<g>> \o v, nested) /\ Range(<<g>> \o v) = {g} \cup Range(v)
    <3>1. \A d \in Range(v) : Over(g, d, nested)
      BY <2>1 DEF Over, SignalLabels
    <3>2. v \in Seq(Frames) /\ Falls(v, nested)
      BY <2>3
    <3> HIDE DEF v
    <3>3. Falls(<<g>> \o v, nested)
      BY <2>1, <3>1, <3>2, FallsCons
    <3>4. Range(<<g>> \o v) = {g} \cup Range(v)
      BY <3>2, ConsFacts
    <3> QED BY <3>3, <3>4
  <2>5. Falls(stack'[t], nested) /\ Range(stack'[t]) \subseteq {g, h} \cup Range(u)
    BY <2>1, <2>3, <2>4
  <2> HIDE DEF u, v
  <2>6. FallInv'
    <3>1. \A l \in Loops : Falls(stack'[l], nested)
      BY <2>1, <2>5 DEF OrderInv, FallInv, StackStep
    <3> QED BY <1>2, <3>1 DEF FallInv
  <2>7. f.at \in SignalLabels /\ f.at \in Carrying /\ f.at \notin {"hand", "call"}
        /\ f.id <= emits /\ f.id \in Nat
    <3>1. f.at \in Carrying
      BY <2>1 DEF Carrying
    <3>2. f.id <= emits
      BY <2>1, <3>1 DEF OrderInv, IdsInv
    <3> QED BY <2>1, <3>1, <3>2 DEF SignalLabels, Frames
  <2>8. PICK F \in SUBSET {g, h} :
          StackStep(t, F) /\ (g \in F => c \in connects[f.arg])
    <3>1. g # h
      BY <2>1, <2>7
    <3>2. CASE c \in connects[f.arg]
      BY <2>1, <3>2
    <3>3. CASE StackStep(t, {h})
      BY <3>1, <3>3
    <3> QED BY <2>1, <3>2, <3>3
  <2>9. CallsOn(F)
    <3>1. g \in F => signalLoop'[SignalOf[g.arg]] # Nil
      <4>1. f.arg \in Signals
        BY <2>1, PlaceTypes
      <4> QED BY <1>2, <2>1, <2>8, <4>1 DEF OrderInv, TunedInv, sigVars
    <3>2. f.id <= emits'
      BY <1>2, <2>7
    <3>3. \A x \in F : x.id = f.id /\ (x.at = "hand" => x = g)
      BY <2>1, <2>7
    <3> QED BY <2>1, <3>1, <3>2, <3>3 DEF CallsOn
  <2>10. ASSUME NEW d \in Conns
         PROVE  /\ ran'[d] = ran[d] /\ Posts(d)' = Posts(d)
                /\ Stage("call", d)' \subseteq Stage("call", d)
                /\ Stage("hand", d)' \subseteq Stage("hand", d) \cup {f.id}
                /\ d # c => Stage("hand", d)' \subseteq Stage("hand", d)
                /\ Rounds(d)' \subseteq Rounds(d)
    <3>1. Posts(d)' = Posts(d)
      BY <1>2, PostMovesOn
    <3>2. \A x \in F : /\ x.id = f.id /\ x.at # "call"
                       /\ x.at = "hand" => x = g
                       /\ x.at \in SignalLabels => x.todo \subseteq f.todo
      BY <2>1, <2>7 DEF SignalLabels
    <3>3. Stage("call", d)' \subseteq Stage("call", d)
      BY <2>8, <3>2, StageMoves
    <3>4. /\ Stage("hand", d)' \subseteq Stage("hand", d) \cup {f.id}
          /\ d # c => Stage("hand", d)' \subseteq Stage("hand", d)
      BY <2>1, <2>8, <3>2, StageMoves
    <3>5. d \in f.todo => f.id \in Rounds(d)
      BY <2>1, <2>7 DEF Rounds
    <3>6. Rounds(d)' \subseteq Rounds(d)
      BY <2>8, <3>2, <3>5, RoundMoves
    <3> QED BY <1>2, <3>1, <3>3, <3>4, <3>6
  <2>11. ASSUME NEW d \in Conns, Unmoved(d)', d # c
         PROVE  InTurn(d)' /\ Direct(d)'
    <3>1. Behindhand(d)
      BY <2>10, <2>11 DEF Behindhand
    <3> QED BY <1>2, <2>11, <3>1, TurnFewer DEF OrderInv
  <2>12. ASSUME Unmoved(c), c \in Known PROVE InTurn(c)' /\ Direct(c)'
    <3>1. InTurn(c) /\ Direct(c) /\ Place(c)' = Place(c)
      BY <1>2, <2>12 DEF OrderInv, TurnInv, Place
    <3>2. f.id \in Rounds(c)
      BY <2>1, <2>7 DEF Rounds
    <3>3. Sender(c) \notin moved /\ Container[SignalOf[c]] = Sender(c)
      BY <2>12 DEF Unmoved, Sender
    <3>4. t = Home[Sender(c)]
      BY <2>1, <2>7, <3>3 DEF HomeInv, CallsHome, CallHome
    <3>5. ASSUME NEW l \in Loops, NEW x \in Range(stack'[l]), x.at \in SignalLabels,
                 c \in x.todo
          PROVE  Behind(c, f.id, x.id, nested)
      <4>1. CASE l = t
        <5>1. x # g /\ x # h
          BY <2>1, <2>7, <3>5 DEF SignalLabels
        <5>2. x \in Range(u)
          BY <2>5, <3>5, <4>1, <5>1
        <5>3. x \in Frames
          BY <2>2, <5>2 DEF Range
        <5>4. x.arg = f.arg /\ x.id \in Nat
          BY <2>1, <3>5, <5>3 DEF Frames
        <5>5. x.id < f.id /\ f.arg \in nested
          BY <2>2, <2>7, <3>5, <5>2, <5>4 DEF Over
        <5> QED BY <2>1, <2>7, <5>4, <5>5 DEF Behind
      <4>2. CASE l # t
        <5>1. x \in Range(stack[l]) /\ stack[l] \in Seq(Frames)
          BY <3>5, <4>2, <2>8 DEF StackStep, Base, TypeOK
        <5>2. x \in Frames
          BY <5>1 DEF Range
        <5>3. Container[x.arg] = Sender(c)
          BY <3>3, <3>5, <5>2 DEF Frames
        <5>4. l = Home[Sender(c)]
          BY <3>3, <3>5, <5>1, <5>3 DEF HomeInv, CallsHome, CallHome
        <5> QED BY <3>4, <4>2, <5>4
      <4> QED BY <4>1, <4>2
    <3>6. \A m \in Rounds(c)' : Behind(c, f.id, m, nested)
      BY <3>5 DEF Rounds
    <3> DEFINE C == Stage("call", c)
               H == Stage("hand", c)
               O == Rounds(c)
               H1 == Stage("hand", c)'
               O1 == Rounds(c)'
    <3>7. /\ Turns(c, nested, ran[c], C, Posts(c), H, O)
          /\ H1 \subseteq H \cup {f.id} /\ O1 \subseteq O /\ f.id \in O
          /\ \A m \in O1 : Behind(c, f.id, m, nested)
          /\ Stage("call", c)' \subseteq C
          /\ ran'[c] = ran[c] /\ Posts(c)' = Posts(c)
      BY <2>1, <2>10, <3>1, <3>2, <3>6 DEF InTurn
    <3> HIDE DEF C, H, O, H1, O1
    <3>8. Turns(c, nested, ran[c], C, Posts(c), H1, O1)
      BY <3>7, TurnsLook
    <3>9. InTurn(c)'
      BY <1>2, <3>7, <3>8, TurnsFewer DEF InTurn, H1, O1
    <3> QED BY <3>1, <3>7, <3>9 DEF Direct
  <2>13. TurnInv'
    <3>1. Known' = Known /\ \A d : Unmoved(d)' => Unmoved(d)
      BY <1>2 DEF Known, Unmoved
    <3> QED BY <2>11, <2>12, <3>1 DEF TurnInv, Known
  <2>14. emits \in Nat /\ Tuning /\ PostsOn(t)
    BY <1>2, SameTuning DEF Base, TypeOK, LogOK, PostsOn
  <2>15. /\ moved \subseteq moved' /\ nested \subseteq nested'
         /\ emits' \in Nat /\ emits <= emits'
         /\ \A d \in Conns : \A m \in ran'[d] : m \in ran[d] \/ m <= emits'
    BY <1>2, <2>14
  <2> QED BY <2>6, <2>8, <2>9, <2>13, <2>14, <2>15, OrderStep
<1> QED BY <1>3, <1>4

(* Only the innermost call hands an emission on, or calls a slot.          *)
LEMMA TopGone ==
  ASSUME Base, NEW t \in Loops, NEW from \in {"hand", "call"}, At(t, from),
         NEW to \in {"call", "wait", "slot"}, to # from, Pop(t) \/ Goto(t, to)
  PROVE  \A f \in Range(stack'[t]) : f.at # from
<1>1. stack[t] # <<>> /\ StackInv /\ StackOK(stack[t])
  BY DEF At, Base, StackInv
<1>2. \A f \in Range(Tail(stack[t])) : f.at # from
  BY <1>1 DEF StackOK, SuspendedLabels, SignalLabels
<1>3. CASE Pop(t)
  BY <1>1, <1>2, <1>3, PopMoves
<1>4. CASE Goto(t, to)
  <2>1. PICK f, g : f = Head(stack[t]) /\ g = [f EXCEPT !.at = to]
    OBVIOUS
  <2>2. f \in Frames /\ f.at = from
    BY <2>1, TopIs
  <2>3. g \in Frames /\ g.at = to
    <3>1. f.at \in ConnLabels \cup {"hand"} /\ to \in ConnLabels \cup {"wait"}
          /\ to # "enter"
      BY <2>2 DEF ConnLabels
    <3> QED BY <2>1, <2>2, <3>1, RelabelTypes
  <2>4. Range(stack'[t]) = {g} \cup Range(Tail(stack[t]))
    <3>1. g = [Head(stack[t]) EXCEPT !.at = to] /\ g.at # "task"
      BY <2>1, <2>3
    <3> QED BY <1>1, <1>4, <2>3, <3>1, GotoMoves
  <2> QED BY <1>2, <2>3, <2>4
<1> QED BY <1>3, <1>4

LEMMA HandGone ==
  ASSUME Base, NEW t \in Loops, Hand(t)
  PROVE  \A f \in Range(stack'[t]) : f.at # "hand"
<1>1. At(t, "hand")
  BY DEF Hand
<1>2. Pop(t) \/ Goto(t, "call") \/ Goto(t, "wait")
  <2> DEFINE s == stack[t][2].at = "dispatchSync" \/ Head(stack[t]).arg \in SyncConns
  <2>1. \/ Pop(t) \/ Goto(t, "call")
        \/ IF s THEN Goto(t, "wait") ELSE Pop(t)
    BY DEF Hand
  <2> HIDE DEF s
  <2> QED BY <2>1
<1> QED BY <1>1, <1>2, TopGone

LEMMA CallGone ==
  ASSUME Base, NEW t \in Loops, CallSlot(t)
  PROVE  \A f \in Range(stack'[t]) : f.at # "call"
BY TopGone DEF CallSlot

(* The emissions a connection is handed in its sender's thread.            *)
LEMMA OrderHand ==
  ASSUME Base, HomeInv, OrderInv, NEW t \in Loops, Hand(t)
  PROVE  OrderInv'
<1>1. PICK f : f = Head(stack[t])
  OBVIOUS
<1>2. PICK c, r, l : /\ c = f.arg /\ r = ReceiverOf[c]
                     /\ l = IF r = Nil THEN receiverLoop[c] ELSE loop[r]
  OBVIOUS
<1>3. UNCHANGED <<moved, ran, emits, nested, receiverLoop, sigVars, alive>>
  BY DEF Hand, objVars, connVars, logVars, emitVars
<1>4. PICK g, w : g = [f EXCEPT !.at = "call"] /\ w = [f EXCEPT !.at = "wait"]
  OBVIOUS
<1>5. /\ f \in Frames /\ f \in Range(stack[t]) /\ f.at = "hand" /\ c \in Conns
      /\ \/ StackStep(t, {}) /\ UNCHANGED queue
         \/ /\ l = signalLoop[SignalOf[c]]
            /\ g.at = "call" /\ g.arg = c /\ g.id = f.id
            /\ StackStep(t, {g}) /\ UNCHANGED queue
         \/ /\ l # signalLoop[SignalOf[c]] /\ w.at = "wait"
            /\ StackStep(t, {w}) /\ Posted(l, Task("slot", c, f.id, t))
         \/ /\ l # signalLoop[SignalOf[c]]
            /\ StackStep(t, {}) /\ Posted(l, Task("slot", c, f.id, Nil))
  BY <1>1, <1>2, <1>4, HandMoves
<1>6. CASE StackStep(t, {}) /\ UNCHANGED queue
  BY <1>3, <1>6, SameTuning, OrderQuiet
<1>7. /\ f.id \in Nat /\ f.id <= emits /\ f.id \in Stage("hand", c)
      /\ signalLoop[SignalOf[c]] # Nil /\ c \in Known
  <2>1. f.at \in Carrying
    BY <1>5 DEF Carrying
  <2>2. f.id <= emits /\ signalLoop[SignalOf[c]] # Nil
    BY <1>2, <1>5, <2>1 DEF OrderInv, IdsInv, TunedInv
  <2>3. c \in Known
    BY <1>2, <1>5 DEF Base, KnownInv, KnownCalls, KnownCall
  <2> QED BY <1>2, <1>5, <2>2, <2>3 DEF Stage, Frames
<1>8. Unmoved(c) =>
        /\ t = Home[Sender(c)] /\ signalLoop[SignalOf[c]] = Home[Sender(c)]
        /\ l = Place(c)
        /\ InTurn(c) /\ Direct(c)
  <2> SUFFICES ASSUME Unmoved(c)
               PROVE  /\ t = Home[Sender(c)]
                      /\ signalLoop[SignalOf[c]] = Home[Sender(c)]
                      /\ l = Place(c) /\ InTurn(c) /\ Direct(c)
    OBVIOUS
  <2>1. Sender(c) \notin moved /\ Container[SignalOf[c]] = Sender(c)
        /\ SignalOf[c] \in Signals /\ (r # Nil => r \in Objects /\ r \notin moved)
    BY <1>2, <1>5, PlaceTypes DEF Unmoved, Sender
  <2>2. t = Home[Sender(c)]
    BY <1>2, <1>5, <2>1 DEF HomeInv, CallsHome, CallHome
  <2>3. signalLoop[SignalOf[c]] = Home[Sender(c)]
    BY <1>7, <2>1 DEF HomeInv, LoopsHome
  <2>4. l = Place(c)
    BY <1>2, <2>1 DEF HomeInv, LoopsHome, Place
  <2> QED BY <1>7, <2>2, <2>3, <2>4 DEF OrderInv, TurnInv
<1>9. Unmoved(c) => Stage("hand", c)' = {}
  <2>1. ASSUME Unmoved(c), NEW m \in Loops, NEW x \in Range(stack'[m]),
               x.at = "hand", x.arg = c
        PROVE  FALSE
    <3>1. m # t
      BY <2>1, HandGone
    <3>2. x \in Range(stack[m])
      BY <1>5, <2>1, <3>1 DEF StackStep
    <3>3. m = Home[Sender(c)]
      BY <2>1, <3>2 DEF HomeInv, CallsHome, CallHome, Unmoved
    <3> QED BY <1>8, <2>1, <3>1, <3>3
  <2> QED BY <2>1 DEF Stage
<1>10. ASSUME NEW F, StackStep(t, F), \A x \in F : x.at \notin Carrying \ {"call"},
              \A x \in F : x.at = "call" => x.arg = c /\ x.id = f.id,
              \/ UNCHANGED queue /\ l = signalLoop[SignalOf[c]]
              \/ /\ \A x \in F : x.at # "call"
                 /\ l # signalLoop[SignalOf[c]]
                 /\ \E u : Posted(l, Task("slot", c, f.id, u))
       PROVE  OrderInv'
  <2>1. CallsOn(F)
    <3>1. \A x \in F : x.at # "hand" /\ (x.at \in Carrying => x.id = f.id)
      BY <1>10 DEF Carrying
    <3> QED BY <1>3, <1>7, <3>1 DEF CallsOn
  <2>2. FallInv'
    <3>1. \A x \in F : x.at \notin SignalLabels
      BY <1>10 DEF Carrying, SignalLabels
    <3>2. \A x \in F : \A y \in Range(stack[t]) : Over(x, y, nested')
      BY <3>1 DEF Over
    <3> QED BY <1>3, <1>10, <3>2, FallsKept DEF OrderInv
  <2>3. ASSUME NEW d \in Conns
        PROVE  /\ ran'[d] = ran[d]
               /\ Stage("call", d)' \subseteq
                    Stage("call", d) \cup (IF d = c THEN {f.id} ELSE {})
               /\ (\A x \in F : x.at # "call")
                    => Stage("call", d)' \subseteq Stage("call", d)
               /\ Stage("hand", d)' \subseteq Stage("hand", d)
               /\ Rounds(d)' \subseteq Rounds(d)
               /\ Posts(d)' \subseteq
                    Posts(d) \cup (IF d = c THEN {f.id} ELSE {})
               /\ UNCHANGED queue => Posts(d)' = Posts(d)
    <3>1. /\ Stage("call", d)' \subseteq
               Stage("call", d) \cup (IF d = c THEN {f.id} ELSE {})
          /\ (\A x \in F : x.at # "call")
               => Stage("call", d)' \subseteq Stage("call", d)
      BY <1>10, StageMoves
    <3>2. \A x \in F : x.at # "hand" /\ x.at \notin SignalLabels
      BY <1>10 DEF Carrying, SignalLabels
    <3>3. Stage("hand", d)' \subseteq Stage("hand", d)
      BY <1>10, <3>2, StageMoves
    <3>4. Rounds(d)' \subseteq Rounds(d)
      BY <1>10, <3>2, RoundMoves
    <3>5. /\ Posts(d)' \subseteq Posts(d) \cup (IF d = c THEN {f.id} ELSE {})
          /\ UNCHANGED queue => Posts(d)' = Posts(d)
      <4>1. \A u : \A n : Bears(Task("slot", c, f.id, u), d, n)
                            => d = c /\ n = f.id
        BY TaskTypes DEF Bears
      <4> QED BY <1>10, <4>1, PostMovesOn
    <3> QED BY <1>3, <3>1, <3>3, <3>4, <3>5
  <2>4. ASSUME NEW d \in Conns, Unmoved(d)', d # c
        PROVE  InTurn(d)' /\ Direct(d)'
    <3>1. Behindhand(d)
      BY <2>3, <2>4 DEF Behindhand
    <3> QED BY <1>3, <2>4, <3>1, TurnFewer DEF OrderInv
  <2>5. ASSUME Unmoved(c) PROVE InTurn(c)' /\ Direct(c)'
    <3> DEFINE C == Stage("call", c)
               Q == Posts(c)
               H == Stage("hand", c)
               O == Rounds(c)
               C1 == Stage("call", c)'
               Q1 == Posts(c)'
               H1 == Stage("hand", c)'
               O1 == Rounds(c)'
    <3>1. Turns(c, nested, ran[c], C, Q, H, O) /\ f.id \in H
      BY <1>7, <1>8, <2>5 DEF InTurn
    <3>2. H1 = {} /\ O1 \subseteq O /\ ran'[c] = ran[c]
      BY <1>5, <1>9, <2>3, <2>5
    <3>3. \/ C1 \subseteq C /\ Q1 \subseteq Q \cup {f.id} /\ Direct(c)'
          \/ C1 \subseteq C \cup {f.id} /\ Q1 = {}
      <4>1. CASE UNCHANGED queue /\ l = signalLoop[SignalOf[c]]
        <5>1. Posts(c) = {}
          BY <1>8, <2>5, <4>1 DEF Direct
        <5> QED BY <1>5, <2>3, <4>1, <5>1
      <4>2. CASE /\ \A x \in F : x.at # "call"
                 /\ l # signalLoop[SignalOf[c]]
        <5>1. Place(c)' # Home[Sender(c)]
          BY <1>3, <1>8, <2>5, <4>2 DEF Place
        <5>2. Direct(c)'
          BY <5>1 DEF Direct
        <5> QED BY <1>5, <2>3, <4>2, <5>2
      <4> QED BY <1>10, <4>1, <4>2
    <3>4. Q1 = {} => Direct(c)'
      BY DEF Direct
    <3> HIDE DEF C, Q, H, O, C1, Q1, H1, O1
    <3>5. Turns(c, nested, ran[c], C1, Q1, H1, O1)
      BY <3>1, <3>2, <3>3, TurnsHand
    <3>6. InTurn(c)'
      BY <1>3, <3>2, <3>5 DEF InTurn, C1, Q1, H1, O1
    <3> QED BY <3>3, <3>4, <3>6
  <2>6. TurnInv'
    <3>1. Known' = Known /\ \A d : Unmoved(d)' => Unmoved(d)
      BY <1>3 DEF Known, Unmoved
    <3> QED BY <2>4, <2>5, <3>1 DEF TurnInv, Known
  <2>7. PostsOn(t)
    <3>1. ASSUME NEW u, Posted(l, Task("slot", c, f.id, u)),
                 l # signalLoop[SignalOf[c]]
          PROVE  PostsOn(t)
      <4>1. PICK e : e = Task("slot", c, f.id, u)
        OBVIOUS
      <4>2. e.arg = c /\ e.id = f.id /\ Posted(l, e) /\ l \in Loops
        BY <3>1, <4>1, TaskTypes DEF Posted
      <4>3. ASSUME NEW d \in Range(queue[l]), d.do = "slot", d.arg = c, Unmoved(c)
            PROVE  Behind(c, d.id, f.id, nested')
        <5>1. d.id \in Nat
          <6>1. queue[l] \in Seq(Tasks)
            BY <4>2 DEF Base, TypeOK
          <6>2. d \in Tasks
            BY <6>1 DEF Range
          <6> QED BY <6>2 DEF Tasks
        <5>2. d.id \in Posts(c)
          BY <4>2, <4>3, <5>1 DEF Posts, Bears
        <5> QED BY <1>3, <1>7, <1>8, <4>3, <5>2 DEF InTurn, Turns
      <4>4. \A d \in Range(queue[l]) : Sooner(d, e, moved', nested')
        BY <1>3, <4>2, <4>3 DEF Sooner, Unmoved
      <4>5. e.id <= emits'
        BY <1>3, <1>7, <4>2
      <4> QED BY <4>2, <4>4, <4>5 DEF PostsOn
    <3> QED BY <1>10, <3>1 DEF PostsOn
  <2>8. emits \in Nat /\ Tuning
    BY <1>3, SameTuning DEF Base, TypeOK, LogOK
  <2>9. /\ moved \subseteq moved' /\ nested \subseteq nested'
        /\ emits' \in Nat /\ emits <= emits'
        /\ \A d \in Conns : \A m \in ran'[d] : m \in ran[d] \/ m <= emits'
    BY <1>3, <2>8
  <2> QED BY <1>10, <2>1, <2>2, <2>6, <2>7, <2>8, <2>9, OrderStep
<1>11. CASE /\ l = signalLoop[SignalOf[c]]
            /\ g.at = "call" /\ g.arg = c /\ g.id = f.id
            /\ StackStep(t, {g}) /\ UNCHANGED queue
  BY <1>10, <1>11
<1>12. CASE /\ l # signalLoop[SignalOf[c]] /\ w.at = "wait"
            /\ StackStep(t, {w}) /\ Posted(l, Task("slot", c, f.id, t))
  <2>1. "wait" \notin Carrying
    BY DEF Carrying, SignalLabels
  <2> QED BY <1>10, <1>12, <2>1
<1>13. CASE /\ l # signalLoop[SignalOf[c]]
            /\ StackStep(t, {}) /\ Posted(l, Task("slot", c, f.id, Nil))
  BY <1>10, <1>13
<1> QED BY <1>5, <1>6, <1>11, <1>12, <1>13

(* A loop runs the slots posted to it in their order.                      *)
LEMMA OrderRunSlot ==
  ASSUME Base, HomeInv, OrderInv, NEW t \in Loops, RunSlot(t)
  PROVE  OrderInv'
<1>1. PICK e : e = NextTask(t)
  OBVIOUS
<1>2. PICK g, b, c : g = Frame("call", e.arg, {}, e.id) /\ b = Bottom(e) /\ c = e.arg
  OBVIOUS
<1>3. /\ Taken(t) /\ e.do = "slot" /\ c \in Conns /\ stack[t] = <<>>
      /\ StackStep(t, {g, b}) \/ StackStep(t, {b})
  BY <1>1, <1>2, RunSlotMoves
<1>4. UNCHANGED <<moved, ran, emits, nested, receiverLoop, sigVars>>
  BY DEF RunSlot, objVars, connVars, logVars, emitVars
<1>5. /\ e \in Tasks /\ queue[t] \in Seq(Tasks) /\ queue[t] # <<>>
      /\ e = Head(queue[t]) /\ queue'[t] = Tail(queue[t])
      /\ e \in Range(queue[t])
  BY <1>1, <1>3 DEF Taken, NextTask, Base, TypeOK
<1>6. e.id \in Nat /\ e.id <= emits /\ e.id \in Posts(c) /\ c \in Known
  <2>1. e.id \in Nat /\ e.id <= emits
    BY <1>3, <1>5 DEF Tasks, OrderInv, IdsInv
  <2>2. c \in Known
    BY <1>2, <1>3, <1>5 DEF Base, KnownInv, KnownCalls, KnownTask, SignalLabels
  <2> QED BY <1>2, <1>3, <1>5, <2>1, <2>2 DEF Posts, Bears
<1>7. /\ g.at = "call" /\ g.arg = c /\ g.id = e.id /\ b.at = "task"
  BY <1>2, <1>5, FrameTypes
<1>8. PICK F \in SUBSET {g, b} : StackStep(t, F)
  BY <1>3
<1>9. CallsOn(F)
  <2>1. \A x \in F : x.at # "hand" /\ (x.at \in Carrying => x.id = e.id)
    BY <1>7 DEF Carrying, SignalLabels
  <2> QED BY <1>4, <1>6, <2>1 DEF CallsOn
<1>10. FallInv'
  <2>1. \A x \in F : \A y \in Range(stack[t]) : Over(x, y, nested')
    BY <1>3 DEF Range
  <2> QED BY <1>4, <1>8, <2>1, FallsKept DEF OrderInv
<1>11. ASSUME NEW d \in Conns
       PROVE  /\ ran'[d] = ran[d] /\ Posts(d)' \subseteq Posts(d)
              /\ Stage("call", d)' \subseteq
                   Stage("call", d) \cup (IF d = c THEN {e.id} ELSE {})
              /\ Stage("hand", d)' \subseteq Stage("hand", d)
              /\ Rounds(d)' \subseteq Rounds(d)
  <2>1. Posts(d)' \subseteq Posts(d)
    BY <1>3, PostMovesOn
  <2>2. \A x \in F : x.at # "hand" /\ x.at \notin SignalLabels
    BY <1>7 DEF SignalLabels
  <2>3. /\ Stage("hand", d)' \subseteq Stage("hand", d)
        /\ Rounds(d)' \subseteq Rounds(d)
    BY <1>8, <2>2, StageMoves, RoundMoves
  <2>4. Stage("call", d)' \subseteq
          Stage("call", d) \cup (IF d = c THEN {e.id} ELSE {})
    BY <1>7, <1>8, StageMoves
  <2> QED BY <1>4, <2>1, <2>3, <2>4
<1>12. ASSUME NEW d \in Conns, Unmoved(d)', d # c
       PROVE  InTurn(d)' /\ Direct(d)'
  <2>1. Behindhand(d)
    BY <1>11, <1>12 DEF Behindhand
  <2> QED BY <1>4, <1>12, <2>1, TurnFewer DEF OrderInv
<1>13. ASSUME Unmoved(c) PROVE InTurn(c)' /\ Direct(c)'
  <2>1. InTurn(c) /\ Direct(c) /\ Place(c)' = Place(c)
    BY <1>4, <1>6, <1>13 DEF OrderInv, TurnInv, Place
  <2>2. t = Place(c)
    BY <1>2, <1>3, <1>5, <1>13 DEF HomeInv, CallsHome, TaskHome
  <2>3. ASSUME NEW m \in Loops, NEW x \in Range(queue'[m]), x.do = "slot",
               x.arg = c
        PROVE  Behind(c, e.id, x.id, nested)
    <3>1. CASE m = t
      <4>1. Sooner(e, x, moved, nested)
        BY <1>5, <2>3, <3>1, LineTail DEF OrderInv, LineInv
      <4> QED BY <1>2, <1>3, <1>13, <2>3, <4>1 DEF Sooner, Unmoved
    <3>2. CASE m # t
      <4>1. x \in Range(queue[m])
        BY <1>3, <2>3, <3>2 DEF Taken
      <4>2. m = Place(c)
        BY <1>13, <2>3, <4>1 DEF HomeInv, CallsHome, TaskHome
      <4> QED BY <2>2, <3>2, <4>2
    <3> QED BY <3>1, <3>2
  <2> DEFINE C == Stage("call", c)
             Q == Posts(c)
             H == Stage("hand", c)
             O == Rounds(c)
             C1 == Stage("call", c)'
             Q1 == Posts(c)'
             H1 == Stage("hand", c)'
             O1 == Rounds(c)'
  <2>4. Turns(c, nested, ran[c], C, Q, H, O) /\ e.id \in Q
    BY <1>6, <2>1 DEF InTurn
  <2>5. \A m \in Q1 : Behind(c, e.id, m, nested)
    BY <2>3 DEF Posts, Bears
  <2>6. /\ C1 \subseteq C \cup {e.id} /\ Q1 \subseteq Q /\ H1 \subseteq H
        /\ O1 \subseteq O /\ ran'[c] = ran[c]
    BY <1>3, <1>11
  <2> HIDE DEF C, Q, H, O, C1, Q1, H1, O1
  <2>7. Turns(c, nested, ran[c], C1, Q1, H1, O1)
    BY <2>4, <2>5, <2>6, TurnsRun
  <2>8. InTurn(c)'
    BY <1>4, <2>6, <2>7 DEF InTurn, C1, Q1, H1, O1
  <2>9. Direct(c)'
    BY <2>1, <2>6 DEF Direct, Q, Q1
  <2> QED BY <2>8, <2>9
<1>14. TurnInv'
  <2>1. Known' = Known /\ \A d : Unmoved(d)' => Unmoved(d)
    BY <1>4 DEF Known, Unmoved
  <2> QED BY <1>12, <1>13, <2>1 DEF TurnInv, Known
<1>15. emits \in Nat /\ Tuning /\ PostsOn(t)
  BY <1>3, <1>4, SameTuning DEF Base, TypeOK, LogOK, PostsOn
<1>16. /\ moved \subseteq moved' /\ nested \subseteq nested'
       /\ emits' \in Nat /\ emits <= emits'
       /\ \A d \in Conns : \A m \in ran'[d] : m \in ran[d] \/ m <= emits'
  BY <1>4, <1>15
<1> QED BY <1>8, <1>9, <1>10, <1>14, <1>15, <1>16, OrderStep

(* One slot of a connection is called at a time.                           *)
LEMMA OrderCallSlot ==
  ASSUME Base, HomeInv, OrderInv, NEW t \in Loops, CallSlot(t)
  PROVE  OrderInv'
<1>1. PICK f, c : f = Head(stack[t]) /\ c = f.arg
  OBVIOUS
<1>2. /\ f \in Frames /\ f \in Range(stack[t]) /\ f.at = "call" /\ c \in Conns
      /\ UNCHANGED queue /\ ran' = [ran EXCEPT ![c] = @ \cup {f.id}]
  BY <1>1, CallSlotMoves
<1>3. PICK g : g.at = "slot" /\ StackStep(t, {g})
  BY CallSlotMoves
<1>4. UNCHANGED <<moved, emits, nested, receiverLoop, sigVars>>
  BY DEF CallSlot, objVars, connVars
<1>5. f.id \in Nat /\ f.id <= emits /\ f.id \in Stage("call", c) /\ c \in Known
  <2>1. f.at \in Carrying /\ "call" \in ConnLabels
    BY <1>2 DEF Carrying, ConnLabels
  <2>2. f.id <= emits /\ f.id \in Nat
    BY <1>2, <2>1 DEF OrderInv, IdsInv, Frames
  <2>3. c \in Known
    BY <1>1, <1>2, <2>1 DEF Base, KnownInv, KnownCalls, KnownCall
  <2> QED BY <1>1, <1>2, <2>2, <2>3 DEF Stage
<1>6. CallsOn({g}) /\ g.at \notin SignalLabels
  BY <1>3 DEF CallsOn, Carrying, SignalLabels
<1>7. FallInv'
  <2>1. \A x \in {g} : \A y \in Range(stack[t]) : Over(x, y, nested')
    BY <1>6 DEF Over
  <2> QED BY <1>3, <1>4, <2>1, FallsKept DEF OrderInv
<1>8. ASSUME NEW d \in Conns
      PROVE  /\ ran'[d] \subseteq ran[d] \cup (IF d = c THEN {f.id} ELSE {})
             /\ Posts(d)' = Posts(d)
             /\ Stage("call", d)' \subseteq Stage("call", d)
             /\ Stage("hand", d)' \subseteq Stage("hand", d)
             /\ Rounds(d)' \subseteq Rounds(d)
  <2>1. Posts(d)' = Posts(d)
    BY <1>2, PostMovesOn
  <2>2. /\ Stage("call", d)' \subseteq Stage("call", d)
        /\ Stage("hand", d)' \subseteq Stage("hand", d)
        /\ Rounds(d)' \subseteq Rounds(d)
    BY <1>3, <1>6, StageMoves, RoundMoves
  <2>3. ran'[d] \subseteq ran[d] \cup (IF d = c THEN {f.id} ELSE {})
    BY <1>2 DEF Base, TypeOK, LogOK
  <2> QED BY <2>1, <2>2, <2>3
<1>9. ASSUME NEW d \in Conns, Unmoved(d)', d # c
      PROVE  InTurn(d)' /\ Direct(d)'
  <2>1. Behindhand(d)
    BY <1>8, <1>9 DEF Behindhand
  <2> QED BY <1>4, <1>9, <2>1, TurnFewer DEF OrderInv
<1>10. ASSUME Unmoved(c) PROVE InTurn(c)' /\ Direct(c)'
  <2>1. InTurn(c) /\ Direct(c) /\ Place(c)' = Place(c)
    BY <1>4, <1>5, <1>10 DEF OrderInv, TurnInv, Place
  <2>2. t = Place(c)
    BY <1>1, <1>2, <1>10 DEF HomeInv, CallsHome, CallHome
  <2>3. Stage("call", c)' = {}
    <3>1. ASSUME NEW m \in Loops, NEW x \in Range(stack'[m]), x.at = "call",
                 x.arg = c
          PROVE  FALSE
      <4>1. m # t
        BY <3>1, CallGone
      <4>2. x \in Range(stack[m])
        BY <1>3, <3>1, <4>1 DEF StackStep
      <4>3. m = Place(c)
        BY <1>10, <3>1, <4>2 DEF HomeInv, CallsHome, CallHome
      <4> QED BY <2>2, <4>1, <4>3
    <3> QED BY <3>1 DEF Stage
  <2> DEFINE C == Stage("call", c)
             Q == Posts(c)
             H == Stage("hand", c)
             O == Rounds(c)
             C1 == Stage("call", c)'
             Q1 == Posts(c)'
             H1 == Stage("hand", c)'
             O1 == Rounds(c)'
  <2>4. Turns(c, nested, ran[c], C, Q, H, O) /\ f.id \in C
    BY <1>5, <2>1 DEF InTurn
  <2>5. /\ ran'[c] \subseteq ran[c] \cup {f.id} /\ C1 = {} /\ Q1 \subseteq Q
        /\ H1 \subseteq H /\ O1 \subseteq O
    BY <1>2, <1>8, <2>3
  <2> HIDE DEF C, Q, H, O, C1, Q1, H1, O1
  <2>6. Turns(c, nested, ran'[c], C1, Q1, H1, O1)
    BY <2>4, <2>5, TurnsCall
  <2>7. InTurn(c)'
    BY <1>4, <2>6 DEF InTurn, C1, Q1, H1, O1
  <2>8. Direct(c)'
    BY <2>1, <2>5 DEF Direct, Q, Q1
  <2> QED BY <2>7, <2>8
<1>11. TurnInv'
  <2>1. Known' = Known /\ \A d : Unmoved(d)' => Unmoved(d)
    BY <1>4 DEF Known, Unmoved
  <2> QED BY <1>9, <1>10, <2>1 DEF TurnInv, Known
<1>12. emits \in Nat /\ Tuning /\ PostsOn(t)
  BY <1>2, <1>4, SameTuning DEF Base, TypeOK, LogOK, PostsOn
<1>13. \A d \in Conns : \A m \in ran'[d] : m \in ran[d] \/ m <= emits'
  <2>1. f.id <= emits'
    BY <1>4, <1>5
  <2> QED BY <1>8, <2>1
<1>14. /\ moved \subseteq moved' /\ nested \subseteq nested'
       /\ emits' \in Nat /\ emits <= emits'
  BY <1>4, <1>12
<1> QED BY <1>3, <1>6, <1>7, <1>11, <1>12, <1>13, <1>14, OrderStep

(* Return takes the outermost call of a thread and the wait of another.    *)
LEMMA OrderReturn ==
  ASSUME Base, OrderInv, NEW t \in Loops, Return(t)
  PROVE  OrderInv'
<1>1. UNCHANGED <<moved, ran, emits, nested, receiverLoop, sigVars, queue>>
  BY DEF Return, objVars, connVars, logVars, emitVars
<1>2. /\ \A l \in Loops : Range(stack'[l]) \subseteq Range(stack[l])
      /\ \A l \in Loops : \/ stack'[l] = stack[l]
                          \/ stack[l] # <<>> /\ stack'[l] = Tail(stack[l])
  BY ReturnMoves
<1>3. FallInv'
  <2>1. ASSUME NEW l \in Loops PROVE Falls(stack'[l], nested)
    <3>1. stack[l] \in Seq(Frames) /\ Falls(stack[l], nested)
      BY DEF Base, TypeOK, OrderInv, FallInv
    <3> QED BY <1>2, <3>1, FallsTail
  <2> QED BY <1>1, <2>1 DEF FallInv
<1>4. LineInv'
  BY <1>1, LineKept DEF OrderInv
<1>5. IdsInv' /\ TunedInv'
  BY <1>1, <1>2 DEF OrderInv, IdsInv, TunedInv, sigVars
<1>6. ASSUME NEW c \in Conns PROVE Behindhand(c)
  BY <1>1, <1>2 DEF Behindhand, Stage, Rounds, Posts
<1>7. TurnInv'
  <2>1. ASSUME NEW c \in Conns, Unmoved(c)' PROVE InTurn(c)' /\ Direct(c)'
    BY <1>1, <1>6, <2>1, TurnFewer DEF OrderInv
  <2> QED BY <2>1 DEF TurnInv, Known
<1> QED BY <1>3, <1>4, <1>5, <1>7 DEF OrderInv

LEMMA OrderDispatch ==
  ASSUME Base, OrderInv, NEW t \in Loops, NEW do \in SignalLabels,
         RunDispatch(t, do)
  PROVE  OrderInv'
<1>1. PICK e : e = NextTask(t)
  OBVIOUS
<1>2. PICK g, b : /\ g = Frame(do, e.arg, connects[e.arg], emits + 1)
                  /\ b = Bottom(e)
  OBVIOUS
<1>3. /\ Taken(t) /\ e.arg \in Signals /\ stack[t] = <<>> /\ e \in Tasks
      /\ \/ Container[e.arg] \in alive /\ StackStep(t, {g, b})
         \/ StackStep(t, {b}) /\ UNCHANGED <<emits, nested>>
  BY <1>1, <1>2, RunDispatchMoves DEF Taken
<1>4. UNCHANGED <<moved, ran, receiverLoop, sigVars>>
  BY DEF RunDispatch, objVars, connVars
<1>5. b.at \notin Carrying
  BY <1>2, <1>3, FrameTypes DEF Carrying, SignalLabels
<1>6. CASE Container[e.arg] \in alive /\ StackStep(t, {g, b})
  <2>1. BeginDispatch(t, do, e.arg, <<b>>)
    BY <1>1, <1>2, <1>6 DEF RunDispatch
  <2>2. \A f \in Range(stack[t]) : f \in Range(<<b>>)
    BY <1>3 DEF Range
  <2>3. UNCHANGED <<signalLoop, connects>> /\ \A f \in {g, b} : f = g \/ f.at \notin Carrying
    BY <1>4, <1>5 DEF sigVars
  <2> QED BY <1>2, <1>3, <1>4, <1>6, <2>1, <2>2, <2>3, OrderBegin
<1>7. CASE StackStep(t, {b}) /\ UNCHANGED <<emits, nested>>
  BY <1>3, <1>4, <1>5, <1>7, SameTuning, OrderQuiet
<1> QED BY <1>3, <1>6, <1>7

LEMMA OrderThread ==
  ASSUME Base, HomeInv, OrderInv, NEW t \in Loops, ThreadStep(t)
  PROVE  OrderInv'
<1> DEFINE Still == /\ UNCHANGED <<moved, ran, emits, nested, receiverLoop>>
                    /\ Tuning
           Other == \/ UNCHANGED queue \/ Taken(t)
                    \/ \E l, e : Posted(l, e) /\ e.do # "slot"
           Moves == \E F : StackStep(t, F) /\ \A f \in F : f.at \notin Carrying
<1>0. Still /\ Moves /\ Other => OrderInv'
  BY OrderQuiet
<1>1. ASSUME StackStep(t, {}) PROVE Moves
  BY <1>1
<1>2. ASSUME NEW g, StackStep(t, {g}),
             g.at \in {"each", "wire", "sender", "receiver", "task"}
      PROVE  Moves
  BY <1>2 DEF Carrying, SignalLabels
<1>3. ASSUME NEW do, NextIs(t, do), Take(t) PROVE Other
  BY <1>3, TakeMoves
<1>4. CASE RunRegister(t)
  <2>1. NextIs(t, "register") /\ Take(t) /\ UNCHANGED stack
        /\ UNCHANGED <<moved, ran, emits, nested, receiverLoop>>
    BY <1>4 DEF RunRegister, logVars, emitVars
  <2>2. NextTask(t).arg \in Conns
    <3>1. NextTask(t) \in Tasks /\ NextTask(t).do = "register"
      BY <2>1, TakeMoves DEF Taken
    <3> QED BY <3>1 DEF Tasks, SignalLabels
  <2>3. Tuning
    BY <1>4, <2>2, RegisterTunes DEF RunRegister
  <2>4. StackStep(t, {})
    BY <2>1, SameStep DEF Base
  <2> QED BY <1>0, <1>1, <1>3, <2>1, <2>3, <2>4
<1>5. CASE RunEnter(t)
  <2>1. NextIs(t, "enter") /\ Take(t) /\ UNCHANGED stack /\ Still
    BY <1>5, SameTuning DEF RunEnter, connVars, logVars, emitVars
  <2>2. StackStep(t, {})
    BY <2>1, SameStep DEF Base
  <2> QED BY <1>0, <1>1, <1>3, <2>1, <2>2
<1>6. CASE RunUnregister(t)
  <2>1. /\ NextIs(t, "unregister") /\ Take(t) /\ UNCHANGED <<stack, signalLoop>>
        /\ UNCHANGED <<moved, ran, emits, nested, receiverLoop>>
        /\ \/ UNCHANGED connects
           \/ \E c : connects' = [connects EXCEPT ![SignalOf[c]] = @ \ {c}]
    BY <1>6 DEF RunUnregister, connVars, logVars, emitVars
  <2>2. Tuning
    BY <2>1 DEF Tuning, Base, TypeOK, SignalsOK
  <2>3. StackStep(t, {})
    BY <2>1, SameStep DEF Base
  <2> QED BY <1>0, <1>1, <1>3, <2>1, <2>2, <2>3
<1>7. CASE RunLeave(t)
  <2>1. NextIs(t, "leave") /\ Take(t) /\ UNCHANGED stack /\ Still
    BY <1>7, SameTuning DEF RunLeave, connVars, logVars, emitVars
  <2>2. StackStep(t, {})
    BY <2>1, SameStep DEF Base
  <2> QED BY <1>0, <1>1, <1>3, <2>1, <2>2
<1>8. CASE RunQuery(t)
  <2>1. NextIs(t, "query") /\ Take(t) /\ Still
    BY <1>8, SameTuning DEF RunQuery, objVars, connVars, logVars, emitVars
  <2>2. PICK q, g : q = NextTask(t).arg /\ g = Frame("each", q.object, Chosen(q), 0)
    OBVIOUS
  <2>3. g.at = "each" /\ (StackStep(t, {g}) \/ StackStep(t, {}))
    BY <1>8, <2>2, RunQueryMoves, FrameTypes
  <2> QED BY <1>0, <1>1, <1>2, <1>3, <2>1, <2>3
<1>9. CASE Enter(t)
  <2>1. Still
    BY <1>9, SameTuning DEF Enter, connVars, logVars, emitVars
  <2>2. Moves
    BY <1>2, <1>9, EnterMoves
  <2>3. \A c : Task("enter", c, 0, Nil).do # "slot"
    BY TaskTypes
  <2>4. Other
    BY <1>9, <2>3, EnterMoves
  <2> QED BY <1>0, <2>1, <2>2, <2>4
<1>10. CASE Wire(t)
  <2>1. Still
    BY <1>10, SameTuning DEF Wire, objVars, logVars, emitVars
  <2>2. StackStep(t, {}) /\ UNCHANGED queue
    BY <1>10, WireMoves
  <2> QED BY <1>0, <1>1, <2>1, <2>2
<1>11. CASE Test(t)
  <2>1. Still /\ UNCHANGED queue
    BY <1>11, SameTuning DEF Test, objVars, connVars, logVars, emitVars
  <2>2. Moves
    BY <1>1, <1>2, <1>11, TestMoves
  <2> QED BY <1>0, <2>1, <2>2
<1>12. CASE LeaveSender(t)
  <2>1. Still
    BY <1>12, SameTuning DEF LeaveSender, objVars, logVars, emitVars
  <2>2. Moves
    BY <1>2, <1>12, LeaveSenderMoves
  <2>3. \A c : Task("unregister", c, 0, Nil).do # "slot"
    BY TaskTypes
  <2>4. Other
    BY <1>12, <2>3, LeaveSenderMoves
  <2> QED BY <1>0, <2>1, <2>2, <2>4
<1>13. CASE LeaveReceiver(t)
  <2>1. Still
    BY <1>13, SameTuning DEF LeaveReceiver, objVars, logVars, emitVars
  <2>2. Moves
    BY <1>1, <1>13, LeaveReceiverMoves
  <2>3. \A c : Task("leave", c, 0, Nil).do # "slot"
    BY TaskTypes
  <2>4. Other
    BY <1>13, <2>3, LeaveReceiverMoves
  <2> QED BY <1>0, <2>1, <2>2, <2>4
<1>14. CASE Each(t)
  <2>1. Still /\ UNCHANGED queue
    BY <1>14, SameTuning DEF Each, objVars, connVars, logVars, emitVars
  <2>2. PICK f : f = Head(stack[t])
    OBVIOUS
  <2>3. Moves
    <3>1. ASSUME NEW g, NEW h, g.at = "test", h.at = "each", StackStep(t, {g, h})
          PROVE  Moves
      BY <3>1 DEF Carrying, SignalLabels
    <3>2. \A c : Frame("test", c, {}, 0).at = "test"
      BY FrameTypes
    <3>3. \/ StackStep(t, {})
          \/ \E c, h : h.at = "each" /\ StackStep(t, {Frame("test", c, {}, 0), h})
      BY <1>14, EachMoves
    <3> QED BY <1>1, <3>1, <3>2, <3>3
  <2> QED BY <1>0, <2>1, <2>3
<1>15. CASE EndSlot(t)
  <2>1. Still
    BY <1>15, SameTuning DEF EndSlot, objVars, connVars, logVars, emitVars
  <2>2. StackStep(t, {}) /\ UNCHANGED queue
    BY <1>15, EndSlotMoves
  <2> QED BY <1>0, <1>1, <2>1, <2>2
<1> HIDE DEF Still, Other, Moves
<1>16. ASSUME NEW do \in SignalLabels, RunDispatch(t, do) \/ Look(t, do)
       PROVE  OrderInv'
  BY <1>16, OrderDispatch, OrderLook
<1>17. CASE RunSlot(t) \/ Return(t) \/ Hand(t) \/ CallSlot(t)
  BY <1>17, OrderRunSlot, OrderReturn, OrderHand, OrderCallSlot
<1> QED BY <1>4, <1>5, <1>6, <1>7, <1>8, <1>9, <1>10, <1>11, <1>12, <1>13,
           <1>14, <1>15, <1>16, <1>17 DEF ThreadStep

LEMMA OrderInit == Init => OrderInv
<1> SUFFICES ASSUME Init PROVE OrderInv
  OBVIOUS
<1>1. /\ \A l \in Loops : queue[l] = <<>> /\ stack[l] = <<>>
      /\ \A c \in Conns : receiverLoop[c] = Nil /\ ran[c] = {}
      /\ \A s \in Signals : connects[s] = {}
  BY DEF Init
<1>2. \A l \in Loops : Range(stack[l]) = {} /\ Range(queue[l]) = {}
  BY <1>1 DEF Range
<1>3. FallInv /\ LineInv
  BY <1>1 DEF FallInv, LineInv, Falls, Line
<1>4. IdsInv /\ TunedInv
  BY <1>1, <1>2 DEF IdsInv, TunedInv
<1>5. TurnInv
  BY <1>1 DEF TurnInv, Known
<1> QED BY <1>3, <1>4, <1>5 DEF OrderInv

LEMMA OrderInvariant == Spec => []OrderInv
<1>1. Base /\ HomeInv /\ OrderInv /\ [Next]_vars => OrderInv'
  <2> SUFFICES ASSUME Base, HomeInv, OrderInv, [Next]_vars PROVE OrderInv'
    OBVIOUS
  <2>1. CASE UNCHANGED vars
    <3>1. /\ UNCHANGED <<queue, stack, moved, ran, emits, nested, receiverLoop,
                         signalLoop, connects>>
      BY <2>1 DEF vars, loopVars, objVars, sigVars, connVars, logVars, emitVars
    <3>2. FallInv' /\ LineInv'
      BY <3>1 DEF OrderInv, FallInv, LineInv
    <3>3. IdsInv' /\ TunedInv'
      BY <3>1 DEF OrderInv, IdsInv, TunedInv
    <3>4. ASSUME NEW c \in Conns PROVE Behindhand(c)
      BY <3>1 DEF Behindhand, Stage, Rounds, Posts
    <3>5. TurnInv'
      <4>1. ASSUME NEW c \in Conns, Unmoved(c)' PROVE InTurn(c)' /\ Direct(c)'
        BY <3>1, <3>4, <4>1, TurnFewer DEF OrderInv
      <4> QED BY <4>1 DEF TurnInv, Known
    <3> QED BY <3>2, <3>3, <3>5 DEF OrderInv
  <2>2. CASE Next
    BY <2>2, OrderUser, OrderThread DEF Next
  <2> QED BY <2>1, <2>2
<1> QED BY <1>1, OrderInit, BaseInvariant, HomeInvariant, PTL DEF Spec

(* A slot is called once for an emission and in the order of the           *)
(* emissions, whether it is called at once or posted, as long as no slot   *)
(* emits the signal it is connected to; and even then once.                *)
THEOREM SlotsKeepOrder == Spec => []SlotsInOrder
<1>1. Base /\ OrderInv => SlotsInOrder
  <2> SUFFICES ASSUME Base, OrderInv, NEW t \in Loops, At(t, "call"),
                      Unmoved(Arg(t))
               PROVE  LET c == Arg(t)
                          n == Head(stack[t]).id IN
                      /\ n \notin ran[c]
                      /\ SignalOf[c] \notin nested => \A i \in ran[c] : i < n
    BY DEF SlotsInOrder
  <2>1. PICK f, c : f = Head(stack[t]) /\ c = f.arg
    OBVIOUS
  <2>2. f \in Frames /\ f \in Range(stack[t]) /\ f.at = "call" /\ Arg(t) = c
    BY <2>1, TopIs
  <2>3. f.id \in Nat /\ c \in Known
    BY <2>1, <2>2 DEF Frames, Base, KnownInv, KnownCalls, KnownCall, ConnLabels
  <2>4. f.id \in Stage("call", c)
    BY <2>1, <2>2, <2>3 DEF Stage
  <2>5. \A m \in ran[c] : Behind(c, m, f.id, nested)
    BY <2>2, <2>3, <2>4 DEF OrderInv, TurnInv, InTurn, Turns
  <2> QED BY <2>1, <2>2, <2>5 DEF Behind
<1> QED BY <1>1, BaseInvariant, OrderInvariant, PTL
=============================================================================
