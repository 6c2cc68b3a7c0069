--------------------------- MODULE LoopExecProofs ---------------------------
(***************************************************************************)
(* The loops implement Executor, for any number of loops, threads,         *)
(* functions and priorities, when users are Disciplined.                   *)
(*                                                                         *)
(* Executor's queues and running functions are what Kept leaves of the     *)
(* tasks and of the frames.  The first part says what Kept does to         *)
(* sequences that are built or taken apart.  Kept is recursive, and the    *)
(* induction theorems of the library take an operator the provers cannot   *)
(* instantiate: the proofs argue with a least counterexample instead, for  *)
(* a set of numbers that is not empty has a least element (LeastNumber).   *)
(*                                                                         *)
(* The step proof rests on three invariants: OnceInv (LoopProofs), a       *)
(* function is in one place; OrderInv, the high priority queue holds       *)
(* priority 0 and the other one is sorted; DelInv, the null function of    *)
(* deleteLater is nobody's.  A step is then one of Executor's (a function  *)
(* enters a queue, starts, is run at once, returns) or Unseen.             *)
(***************************************************************************)
EXTENDS LoopProofs, WellFoundedInduction

(* A set of numbers has a least one.                                       *)
LEMMA LeastNumber ==
  ASSUME NEW S \in SUBSET Nat, S # {}
  PROVE  \E n \in S : \A m \in S : n <= m
<1>1. PICK n \in S : \A m \in S : ~(<<m, n>> \in OpToRel(<, Nat))
  BY NatLessThanWellFounded, WFMin
<1>2. \A m \in S : ~(m < n)
  BY <1>1 DEF OpToRel
<1> QED BY <1>2

(* k[i] is what is kept of the first i elements of s, for i up to n.       *)
KeptUpTo(k, s, T, n) ==
  k = [i \in 0 .. n |-> IF i = 0 THEN <<>>
                        ELSE IF s[i] \in T THEN Append(k[i - 1], s[i])
                        ELSE k[i - 1]]

(* There is such a k, so that the definition of Kept defines something.    *)
LEMMA KeptExists ==
  ASSUME NEW s, NEW T, NEW n \in Nat
  PROVE  \E k : KeptUpTo(k, s, T, n)
<1> DEFINE Bad == {m \in Nat : ~\E k : KeptUpTo(k, s, T, m)}
<1>1. SUFFICES Bad = {}
  OBVIOUS
<1>2. SUFFICES ASSUME Bad # {} PROVE FALSE
  OBVIOUS
<1>3. PICK m \in Bad : \A i \in Bad : m <= i
  BY <1>2, LeastNumber
<1>4. CASE m = 0
  <2>1. KeptUpTo([i \in 0 .. 0 |-> <<>>], s, T, 0)
    BY DEF KeptUpTo
  <2> QED BY <1>4, <2>1
<1>5. CASE m # 0
  <2>1. m - 1 \in Nat /\ m - 1 \notin Bad
    BY <1>3, <1>5
  <2>2. PICK k : KeptUpTo(k, s, T, m - 1)
    BY <2>1
  <2> DEFINE g == [i \in 0 .. m |->
                     IF i = m THEN IF s[i] \in T THEN Append(k[i - 1], s[i]) ELSE k[i - 1]
                     ELSE k[i]]
  <2>3. \A i \in 0 .. m - 1 : g[i] = k[i]
    BY <2>1
  <2>4. \A i \in 0 .. m - 1 : k[i] = IF i = 0 THEN <<>>
                        ELSE IF s[i] \in T THEN Append(k[i - 1], s[i])
                        ELSE k[i - 1]
    BY <2>2 DEF KeptUpTo
  <2>5. \A i \in 0 .. m : g[i] = IF i = 0 THEN <<>>
                        ELSE IF s[i] \in T THEN Append(g[i - 1], s[i])
                        ELSE g[i - 1]
    <3>1. TAKE i \in 0 .. m
    <3>2. CASE i = m
      <4>1. g[i - 1] = k[i - 1] /\ i # 0
        BY <1>5, <2>1, <2>3, <3>2
      <4> HIDE DEF g
      <4>2. g[i] = IF s[i] \in T THEN Append(k[i - 1], s[i]) ELSE k[i - 1]
        BY <3>2, <2>1 DEF g
      <4> QED BY <4>1, <4>2
    <3>3. CASE i # m /\ i # 0
      <4>1. i \in 0 .. m - 1 /\ i - 1 \in 0 .. m - 1
        BY <3>3, <2>1
      <4> HIDE DEF g
      <4> QED BY <4>1, <2>3, <2>4, <3>3
    <3>4. CASE i = 0
      <4>1. i \in 0 .. m - 1
        BY <3>4, <2>1
      <4> HIDE DEF g
      <4> QED BY <4>1, <2>3, <2>4, <3>4
    <3> QED BY <3>2, <3>3, <3>4
  <2>6. g = [i \in 0 .. m |-> g[i]]
    OBVIOUS
  <2> HIDE DEF g
  <2>7. KeptUpTo(g, s, T, m)
    BY <2>5, <2>6 DEF KeptUpTo
  <2> QED BY <2>7
<1> QED BY <1>4, <1>5

(* Kept is its last value.                                                 *)
LEMMA KeptDef ==
  ASSUME NEW S, NEW s \in Seq(S), NEW T
  PROVE  \E k : KeptUpTo(k, s, T, Len(s)) /\ Kept(s, T) = k[Len(s)]
<1> DEFINE kept == CHOOSE k : KeptUpTo(k, s, T, Len(s))
<1>1. KeptUpTo(kept, s, T, Len(s))
  BY KeptExists, LenProperties
<1>2. Kept(s, T) = kept[Len(s)]
  BY DEF Kept, KeptUpTo
<1> QED BY <1>1, <1>2

(* What a prefix contributes depends on the prefix alone.                  *)
LEMMA KeptAgree ==
  ASSUME NEW s, NEW u, NEW T, NEW n \in Nat, NEW m \in Nat, n <= m,
         \A i \in 1 .. n : s[i] = u[i],
         NEW k, KeptUpTo(k, s, T, n), NEW g, KeptUpTo(g, u, T, m)
  PROVE  \A i \in 0 .. n : k[i] = g[i]
<1> DEFINE Bad == {i \in 0 .. n : k[i] # g[i]}
<1>1. SUFFICES ASSUME Bad # {} PROVE FALSE
  OBVIOUS
<1>2. PICK i \in Bad : \A j \in Bad : i <= j
  <2>1. Bad \in SUBSET Nat
    OBVIOUS
  <2> HIDE DEF Bad
  <2> QED BY <1>1, <2>1, LeastNumber
<1>3. i \in 0 .. n /\ i \in 0 .. m /\ k[i] # g[i]
  BY <1>2
<1>4. /\ k[i] = IF i = 0 THEN <<>> ELSE IF s[i] \in T THEN Append(k[i - 1], s[i])
                                        ELSE k[i - 1]
      /\ g[i] = IF i = 0 THEN <<>> ELSE IF u[i] \in T THEN Append(g[i - 1], u[i])
                                        ELSE g[i - 1]
  BY <1>3 DEF KeptUpTo
<1>5. CASE i = 0
  BY <1>3, <1>4, <1>5
<1>6. CASE i # 0
  <2>1. i \in 1 .. n /\ i - 1 \in 0 .. n /\ ~(i <= i - 1)
    BY <1>3, <1>6
  <2>2. k[i - 1] = g[i - 1]
    BY <1>2, <2>1
  <2>3. s[i] = u[i]
    BY <2>1
  <2> HIDE DEF Bad
  <2> QED BY <1>3, <1>4, <1>6, <2>2, <2>3
<1> QED BY <1>5, <1>6

(* Nothing is kept of nothing; a last element is kept if it is in T.       *)
LEMMA KeptEmpty ==
  ASSUME NEW T
  PROVE  Kept(<<>>, T) = <<>>
<1>1. <<>> \in Seq({}) /\ Len(<<>>) = 0
  BY EmptySeq
<1>2. PICK k : KeptUpTo(k, <<>>, T, 0) /\ Kept(<<>>, T) = k[0]
  BY <1>1, KeptDef
<1> QED BY <1>2 DEF KeptUpTo

LEMMA KeptAppend ==
  ASSUME NEW S, NEW s \in Seq(S), NEW e \in S, NEW T
  PROVE  Kept(Append(s, e), T) = IF e \in T THEN Append(Kept(s, T), e)
                                 ELSE Kept(s, T)
<1>1. PICK u : u = Append(s, e)
  OBVIOUS
<1>2. PICK n \in Nat : n = Len(s)
  BY LenProperties
<1>3. /\ u \in Seq(S) /\ Len(u) = n + 1 /\ u[n + 1] = e
      /\ \A i \in 1 .. n : s[i] = u[i]
  BY <1>1, <1>2, AppendProperties
<1>4. PICK k : KeptUpTo(k, s, T, n) /\ Kept(s, T) = k[n]
  BY <1>2, KeptDef
<1>5. PICK g : KeptUpTo(g, u, T, n + 1) /\ Kept(u, T) = g[n + 1]
  BY <1>3, KeptDef
<1>6. k[n] = g[n]
  <2>1. PICK m \in Nat : m = n + 1
    OBVIOUS
  <2>2. n <= m /\ n \in 0 .. n /\ KeptUpTo(g, u, T, m)
    BY <1>5, <2>1
  <2>3. \A i \in 0 .. n : k[i] = g[i]
    BY <1>3, <1>4, <2>2, KeptAgree
  <2> QED BY <2>2, <2>3
<1>7. g[n + 1] = IF u[n + 1] \in T THEN Append(g[n], u[n + 1]) ELSE g[n]
  <2>1. n + 1 \in 0 .. n + 1 /\ n + 1 # 0 /\ (n + 1) - 1 = n
    OBVIOUS
  <2> QED BY <1>5, <2>1 DEF KeptUpTo
<1> QED BY <1>1, <1>3, <1>4, <1>5, <1>6, <1>7

(* The elements of the result are elements of s and of T.                  *)
LEMMA KeptType ==
  ASSUME NEW S, NEW s \in Seq(S), NEW T
  PROVE  Kept(s, T) \in Seq(S \cap T)
<1>1. PICK n \in Nat : n = Len(s)
  BY LenProperties
<1>2. PICK k : KeptUpTo(k, s, T, n) /\ Kept(s, T) = k[n]
  BY <1>1, KeptDef
<1> DEFINE Bad == {i \in 0 .. n : k[i] \notin Seq(S \cap T)}
<1>3. ASSUME Bad # {} PROVE FALSE
  <2>1. PICK i \in Bad : \A j \in Bad : i <= j
    <3>1. Bad \in SUBSET Nat
      OBVIOUS
    <3> HIDE DEF Bad
    <3> QED BY <1>3, <3>1, LeastNumber
  <2>2. k[i] = IF i = 0 THEN <<>> ELSE IF s[i] \in T THEN Append(k[i - 1], s[i])
                                       ELSE k[i - 1]
    BY <1>2 DEF KeptUpTo
  <2>3. i # 0
    BY <2>2, EmptySeq
  <2>4. k[i - 1] \in Seq(S \cap T)
    <3>1. i - 1 \in 0 .. n /\ ~(i <= i - 1)
      BY <2>3
    <3> QED BY <2>1, <3>1
  <2>5. s[i] \in S
    BY <1>1, <2>3, ElementOfSeq
  <2>6. k[i] \in Seq(S \cap T)
    BY <2>2, <2>3, <2>4, <2>5, AppendProperties
  <2> QED BY <2>1, <2>6
<1> QED BY <1>2, <1>3

(* Append and concatenation under names the provers do not look into.      *)
Add(s, e) == Append(s, e)
Cat(s, u) == s \o u

(* What the proof of KeptConcat needs of them.                             *)
LEMMA CatAdd ==
  ASSUME NEW K, NEW x \in Seq(K), NEW y \in Seq(K), NEW e \in K
  PROVE  /\ Add(x, e) \in Seq(K) /\ Cat(x, y) \in Seq(K)
         /\ Add(Cat(x, y), e) = Cat(x, Add(y, e))
BY DEF Add, Cat

LEMMA KeptAdd ==
  ASSUME NEW S, NEW s \in Seq(S), NEW e \in S, NEW T
  PROVE  Kept(Add(s, e), T) = IF e \in T THEN Add(Kept(s, T), e) ELSE Kept(s, T)
BY KeptAppend DEF Add

LEMMA KeptCatAdd ==
  ASSUME NEW S, NEW s \in Seq(S), NEW a \in Seq(S), NEW e \in S, NEW T,
         Kept(Cat(s, a), T) = Cat(Kept(s, T), Kept(a, T))
  PROVE  Kept(Cat(s, Add(a, e)), T) = Cat(Kept(s, T), Kept(Add(a, e), T))
<1>1. PICK x : x = Kept(s, T)
  OBVIOUS
<1>2. PICK y : y = Kept(a, T)
  OBVIOUS
<1>3. x \in Seq(S \cap T) /\ y \in Seq(S \cap T)
  BY <1>1, <1>2, KeptType
<1>4. e \in T => Add(Cat(x, y), e) = Cat(x, Add(y, e))
  BY <1>3, CatAdd
<1>5. Cat(s, Add(a, e)) = Add(Cat(s, a), e) /\ Cat(s, a) \in Seq(S)
  BY CatAdd
<1>6. Kept(Add(Cat(s, a), e), T)
        = IF e \in T THEN Add(Kept(Cat(s, a), T), e) ELSE Kept(Cat(s, a), T)
  BY <1>5, KeptAdd
<1>7. Kept(Add(a, e), T) = IF e \in T THEN Add(y, e) ELSE y
  BY <1>2, KeptAdd
<1> QED BY <1>1, <1>2, <1>4, <1>5, <1>6, <1>7

(* Filtering distributes over concatenation.                               *)
LEMMA KeptConcat ==
  ASSUME NEW S, NEW s \in Seq(S), NEW u \in Seq(S), NEW T
  PROVE  Kept(s \o u, T) = Kept(s, T) \o Kept(u, T)
<1> DEFINE Good(v) == Kept(Cat(s, v), T) = Cat(Kept(s, T), Kept(v, T))
           Bad == {n \in Nat : \E v \in Seq(S) : Len(v) = n /\ ~Good(v)}
<1>1. Good(<<>>)
  <2>1. Kept(s, T) \in Seq(S \cap T)
    BY KeptType
  <2> QED BY <2>1, KeptEmpty, ConcatEmptySeq DEF Cat
<1>2. ASSUME NEW a \in Seq(S), NEW e \in S, Good(a) PROVE Good(Add(a, e))
  BY <1>2, KeptCatAdd
<1> HIDE DEF Good
<1>3. ASSUME Bad # {} PROVE FALSE
  <2>1. PICK n \in Bad : \A j \in Bad : n <= j
    BY <1>3, LeastNumber
  <2>2. PICK v \in Seq(S) : Len(v) = n /\ ~Good(v)
    BY <2>1
  <2>3. PICK a \in Seq(S), e \in S : v = Append(a, e)
    BY <1>1, <2>2, SequenceEmptyOrAppend
  <2>4. Len(a) \in Nat /\ n = Len(a) + 1
    BY <2>2, <2>3, AppendProperties, LenProperties
  <2>5. ~Good(a)
    BY <1>2, <2>2, <2>3 DEF Add
  <2>6. Len(a) \in Bad
    BY <2>3, <2>4, <2>5
  <2> QED BY <2>1, <2>4, <2>6
<1>4. Good(u)
  <2>1. Len(u) \in Nat
    BY LenProperties
  <2> QED BY <1>3, <2>1
<1> QED BY <1>4 DEF Good, Cat

(* Nothing is kept of a sequence without elements of T.                    *)
LEMMA KeptNothing ==
  ASSUME NEW S, NEW s \in Seq(S), NEW T, \A i \in 1 .. Len(s) : s[i] \notin T
  PROVE  Kept(s, T) = <<>>
<1>1. PICK R : R = {s[i] : i \in 1 .. Len(s)}
  OBVIOUS
<1>2. s \in Seq(R)
  <2>1. Len(s) \in Nat /\ s = [i \in 1 .. Len(s) |-> s[i]]
    BY LenProperties
  <2>2. s \in [1 .. Len(s) -> R]
    BY <1>1, <2>1
  <2> QED BY <2>1, <2>2, SeqDef
<1>3. R \cap T = {}
  BY <1>1
<1>4. Kept(s, T) \in Seq({})
  BY <1>2, <1>3, KeptType
<1>5. ASSUME Kept(s, T) # <<>> PROVE FALSE
  <2>1. Head(Kept(s, T)) \in {}
    BY <1>4, <1>5, HeadTailProperties
  <2> QED BY <2>1
<1> QED BY <1>5

(* What is kept occurs in s.                                               *)
LEMMA KeptElements ==
  ASSUME NEW S, NEW s \in Seq(S), NEW T, NEW i \in 1 .. Len(Kept(s, T))
  PROVE  \E j \in 1 .. Len(s) : s[j] = Kept(s, T)[i] /\ s[j] \in T
<1>1. PICK R : R = {s[j] : j \in 1 .. Len(s)}
  OBVIOUS
<1>2. s \in Seq(R)
  <2>1. Len(s) \in Nat /\ s = [j \in 1 .. Len(s) |-> s[j]]
    BY LenProperties
  <2>2. s \in [1 .. Len(s) -> R]
    BY <1>1, <2>1
  <2> QED BY <2>1, <2>2, SeqDef
<1>3. Kept(s, T)[i] \in R \cap T
  BY <1>2, KeptType, ElementOfSeq
<1> QED BY <1>1, <1>3

(* What is kept of a sequence starts with its first element, if that is    *)
(* in T.                                                                   *)
LEMMA KeptHead ==
  ASSUME NEW S, NEW s \in Seq(S), NEW T, s # <<>>
  PROVE  Kept(s, T) = IF Head(s) \in T THEN <<Head(s)>> \o Kept(Tail(s), T)
                      ELSE Kept(Tail(s), T)
<1>1. PICK e : e = Head(s)
  OBVIOUS
<1>2. PICK u : u = Tail(s)
  OBVIOUS
<1>3. e \in S /\ u \in Seq(S) /\ <<e>> \in Seq(S)
  BY <1>1, <1>2, HeadTailProperties
<1>4. s = <<e>> \o u
  <2>1. Len(s) \in Nat \ {0}
    BY EmptySeq
  <2>2. s = SubSeq(s, 1, Len(s)) /\ u = SubSeq(s, 2, Len(s)) /\ 1 \in 1 .. Len(s)
    BY <1>2, <2>1, SubSeqFull, TailIsSubSeq
  <2>3. e = s[1]
    BY <1>1
  <2>4. 1 \in 1 .. Len(s) /\ Len(s) \in 1 .. Len(s)
    BY <2>1
  <2>5. SubSeq(s, 1, Len(s)) = <<s[1]>> \o SubSeq(s, 1 + 1, Len(s))
    BY <2>4, SubSeqRecursiveFirst
  <2> QED BY <2>2, <2>3, <2>5
<1>5. Kept(s, T) = Kept(<<e>>, T) \o Kept(u, T)
  <2>1. PICK h : h = <<e>>
    OBVIOUS
  <2>2. h \in Seq(S) /\ s = h \o u
    BY <1>3, <1>4, <2>1
  <2>3. Kept(h \o u, T) = Kept(h, T) \o Kept(u, T)
    BY <1>3, <2>2, KeptConcat
  <2> QED BY <2>1, <2>2, <2>3
<1>6. Kept(<<e>>, T) = IF e \in T THEN <<e>> ELSE <<>>
  <2>1. <<e>> = Append(<<>>, e) /\ <<>> \in Seq(S)
    BY <1>3
  <2>2. Kept(<<e>>, T) = IF e \in T THEN Append(Kept(<<>>, T), e) ELSE Kept(<<>>, T)
    BY <1>3, <2>1, KeptAppend
  <2> QED BY <2>1, <2>2, KeptEmpty
<1>7. <<>> \o Kept(u, T) = Kept(u, T)
  <2>1. Kept(u, T) \in Seq(S \cap T)
    BY <1>3, KeptType
  <2> QED BY <2>1, ConcatEmptySeq
<1> QED BY <1>1, <1>2, <1>5, <1>6, <1>7
-----------------------------------------------------------------------------
(* The loops implement Executor.                                           *)

(* The functions of a sequence of tasks, or of frames.                     *)
Ids(q) == [i \in DOMAIN q |-> q[i].id]
ArgIds(s) == [i \in DOMAIN s |-> s[i].arg.id]

LEMMA IdsAppend ==
  ASSUME NEW S, NEW q \in Seq(S), NEW e \in S
  PROVE  Ids(Append(q, e)) = Append(Ids(q), e.id)
<1>1. PICK n \in Nat : n = Len(q) /\ DOMAIN q = 1 .. n
  BY LenProperties
<1>2. PICK u : u = Append(q, e)
  OBVIOUS
<1>3. /\ DOMAIN u = 1 .. n + 1 /\ u[n + 1] = e
      /\ \A i \in 1 .. n : u[i] = q[i]
  BY <1>1, <1>2, AppendProperties, LenProperties
<1>4. PICK X : X = {q[i].id : i \in 1 .. n} \cup {e.id}
  OBVIOUS
<1>5. Ids(q) \in Seq(X) /\ Len(Ids(q)) = n /\ \A i \in 1 .. n : Ids(q)[i] = q[i].id
  BY <1>1, <1>4 DEF Ids
<1>6. Ids(u) \in Seq(X) /\ Len(Ids(u)) = n + 1
      /\ \A i \in 1 .. n + 1 : Ids(u)[i] = u[i].id
  BY <1>3, <1>4 DEF Ids
<1>7. PICK v : v = Append(Ids(q), e.id)
  OBVIOUS
<1>8. /\ v \in Seq(X) /\ Len(v) = n + 1 /\ v[n + 1] = e.id
      /\ \A i \in 1 .. n : v[i] = q[i].id
  BY <1>4, <1>5, <1>7, AppendProperties
<1>9. \A i \in 1 .. n + 1 : Ids(u)[i] = v[i]
  BY <1>3, <1>6, <1>8
<1>10. Ids(u) = v
  BY <1>6, <1>8, <1>9, SeqEqual
<1> QED BY <1>2, <1>7, <1>10

LEMMA IdsType ==
  ASSUME NEW S, NEW q \in Seq(S), NEW X, \A e \in S : e.id \in X
  PROVE  /\ Ids(q) \in Seq(X) /\ DOMAIN Ids(q) = DOMAIN q
         /\ \A i \in DOMAIN q : Ids(q)[i] = q[i].id
<1>1. Len(q) \in Nat /\ DOMAIN q = 1 .. Len(q)
  BY LenProperties
<1>2. \A i \in 1 .. Len(q) : q[i] \in S
  BY ElementOfSeq
<1> QED BY <1>1, <1>2 DEF Ids

LEMMA ArgIdsAppend ==
  ASSUME NEW S, NEW q \in Seq(S), NEW e \in S
  PROVE  ArgIds(Append(q, e)) = Append(ArgIds(q), e.arg.id)
<1>1. PICK n \in Nat : n = Len(q) /\ DOMAIN q = 1 .. n
  BY LenProperties
<1>2. PICK u : u = Append(q, e)
  OBVIOUS
<1>3. /\ DOMAIN u = 1 .. n + 1 /\ u[n + 1] = e
      /\ \A i \in 1 .. n : u[i] = q[i]
  BY <1>1, <1>2, AppendProperties, LenProperties
<1>4. PICK X : X = {q[i].arg.id : i \in 1 .. n} \cup {e.arg.id}
  OBVIOUS
<1>5. ArgIds(q) \in Seq(X) /\ Len(ArgIds(q)) = n
      /\ \A i \in 1 .. n : ArgIds(q)[i] = q[i].arg.id
  BY <1>1, <1>4 DEF ArgIds
<1>6. ArgIds(u) \in Seq(X) /\ Len(ArgIds(u)) = n + 1
      /\ \A i \in 1 .. n + 1 : ArgIds(u)[i] = u[i].arg.id
  BY <1>3, <1>4 DEF ArgIds
<1>7. PICK v : v = Append(ArgIds(q), e.arg.id)
  OBVIOUS
<1>8. /\ v \in Seq(X) /\ Len(v) = n + 1 /\ v[n + 1] = e.arg.id
      /\ \A i \in 1 .. n : v[i] = q[i].arg.id
  BY <1>4, <1>5, <1>7, AppendProperties
<1>9. \A i \in 1 .. n + 1 : ArgIds(u)[i] = v[i]
  BY <1>3, <1>6, <1>8
<1>10. ArgIds(u) = v
  BY <1>6, <1>8, <1>9, SeqEqual
<1> QED BY <1>2, <1>7, <1>10

(* The functions that queues with the tasks h and v, and that threads with *)
(* the frames s, show to Executor; those that are in hand in s.            *)
Shown(h, v, p) == Ids(Kept(h \o v, WorksOf[p]))
Run(s) == ArgIds(Kept(s, WorkFrames))

HandLabels == {"push", "process", "begin", "exec", "body"}
Holds(f, w) == f.arg.id = w /\ f.at \in HandLabels
Hand(s) == {w \in Works : \E i \in DOMAIN s : Holds(s[i], w)}
HandOf(f) == {w \in Works : Holds(f, w)}

(* A frame on top.                                                         *)
LEMMA RunAppend ==
  ASSUME NEW s \in Seq(Frame), NEW f \in Frame
  PROVE  /\ Run(Append(s, f)) = IF f \in WorkFrames THEN Append(Run(s), f.arg.id)
                                ELSE Run(s)
         /\ Hand(Append(s, f)) = Hand(s) \cup HandOf(f)
         /\ Run(s) \in Seq(Works)
<1>1. Kept(Append(s, f), WorkFrames)
        = IF f \in WorkFrames THEN Append(Kept(s, WorkFrames), f)
          ELSE Kept(s, WorkFrames)
  BY KeptAppend
<1>2. PICK q : q = Kept(s, WorkFrames)
  OBVIOUS
<1>3. q \in Seq(WorkFrames)
  <2>1. Frame \cap WorkFrames = WorkFrames
    BY DEF WorkFrames
  <2> QED BY <1>2, <2>1, KeptType
<1>4. f \in WorkFrames => ArgIds(Append(q, f)) = Append(ArgIds(q), f.arg.id)
  BY <1>3, ArgIdsAppend
<1>5. Hand(Append(s, f)) = Hand(s) \cup HandOf(f)
  <2>1. PICK n \in Nat : n = Len(s) /\ DOMAIN s = 1 .. n
    BY LenProperties
  <2>2. PICK u : u = Append(s, f)
    OBVIOUS
  <2>3. /\ DOMAIN u = 1 .. n + 1 /\ u[n + 1] = f
        /\ \A i \in 1 .. n : u[i] = s[i]
    BY <2>1, <2>2, AppendProperties, LenProperties
  <2>4. ASSUME NEW w
        PROVE  (\E i \in 1 .. n + 1 : Holds(u[i], w))
                 <=> (\E i \in 1 .. n : Holds(s[i], w)) \/ Holds(f, w)
    <3>1. \A i \in 1 .. n + 1 : i \in 1 .. n \/ i = n + 1
      OBVIOUS
    <3>2. \A i \in 1 .. n : i \in 1 .. n + 1
      OBVIOUS
    <3>3. n + 1 \in 1 .. n + 1
      OBVIOUS
    <3> QED BY <2>3, <3>1, <3>2, <3>3
  <2> QED BY <2>1, <2>2, <2>3, <2>4 DEF Hand, HandOf
<1>6. ArgIds(q) \in Seq(Works)
  <2>1. Len(q) \in Nat /\ DOMAIN q = 1 .. Len(q)
    BY <1>3, LenProperties
  <2>2. \A i \in 1 .. Len(q) : q[i] \in WorkFrames
    BY <1>3, ElementOfSeq
  <2>3. \A i \in 1 .. Len(q) : q[i].arg.id \in Works
    BY <2>2 DEF WorkFrames
  <2> QED BY <2>1, <2>3 DEF ArgIds
<1> QED BY <1>1, <1>2, <1>4, <1>5, <1>6 DEF Run

(* How the functions that wait change with the queues.                     *)
LEMMA ShownTypes ==
  ASSUME NEW h \in Seq(Task), NEW v \in Seq(Task), NEW p \in Priorities
  PROVE  /\ Kept(h, WorksOf[p]) \in Seq(WorksOf[p])
         /\ Kept(v, WorksOf[p]) \in Seq(WorksOf[p])
         /\ Kept(h \o v, WorksOf[p]) = Kept(h, WorksOf[p]) \o Kept(v, WorksOf[p])
         /\ Kept(h \o v, WorksOf[p]) \in Seq(WorksOf[p])
         /\ Shown(h, v, p) \in Seq(Works)
<1>0. WorksOf[p] = {e \in Task : e.pri = p /\ e.id \in Works}
  BY DEF WorksOf
<1>1. PICK T : T = WorksOf[p] /\ T \subseteq Task /\ \A e \in T : e.id \in Works
  BY <1>0
<1>2. Task \cap T = T
  BY <1>1
<1>3. h \o v \in Seq(Task)
  BY ConcatProperties
<1>4. Kept(h, T) \in Seq(T) /\ Kept(v, T) \in Seq(T) /\ Kept(h \o v, T) \in Seq(T)
  BY <1>2, <1>3, KeptType
<1>5. Kept(h \o v, T) = Kept(h, T) \o Kept(v, T)
  BY KeptConcat
<1>6. Ids(Kept(h \o v, T)) \in Seq(Works)
  BY <1>1, <1>4, IdsType
<1> QED BY <1>1, <1>4, <1>5, <1>6 DEF Shown

(* A function waits in a queue.                                            *)
LEMMA ShownElements ==
  ASSUME NEW h \in Seq(Task), NEW v \in Seq(Task), NEW p \in Priorities,
         NEW i \in DOMAIN Shown(h, v, p)
  PROVE  \/ \E j \in DOMAIN h : h[j].id = Shown(h, v, p)[i]
         \/ \E j \in DOMAIN v : v[j].id = Shown(h, v, p)[i]
<1>1. PICK T : T = WorksOf[p]
  OBVIOUS
<1>2. PICK q : q = Kept(h \o v, T)
  OBVIOUS
<1>3. q \in Seq(T) /\ Shown(h, v, p) = Ids(q)
  BY <1>1, <1>2, ShownTypes DEF Shown
<1>4. DOMAIN q = 1 .. Len(q) /\ DOMAIN Ids(q) = DOMAIN q /\ Ids(q)[i] = q[i].id
  BY <1>3, LenProperties DEF Ids
<1>5. i \in 1 .. Len(q)
  BY <1>3, <1>4
<1>6. h \o v \in Seq(Task)
  BY ConcatProperties
<1>7. PICK j \in 1 .. Len(h \o v) : (h \o v)[j] = q[i]
  BY <1>2, <1>5, <1>6, KeptElements
<1>8. /\ Len(h) \in Nat /\ Len(v) \in Nat /\ Len(h \o v) = Len(h) + Len(v)
      /\ DOMAIN h = 1 .. Len(h) /\ DOMAIN v = 1 .. Len(v)
      /\ (h \o v)[j] = IF j <= Len(h) THEN h[j] ELSE v[j - Len(h)]
  BY <1>7, ConcatProperties, LenProperties
<1>9. CASE j <= Len(h)
  BY <1>3, <1>4, <1>7, <1>8, <1>9
<1>10. CASE ~(j <= Len(h))
  <2>1. j - Len(h) \in DOMAIN v
    BY <1>7, <1>8, <1>10
  <2> QED BY <1>3, <1>4, <1>7, <1>8, <1>10, <2>1
<1> QED BY <1>9, <1>10

(* Nothing of a priority waits in a queue without tasks of that priority.  *)
LEMMA KeptNone ==
  ASSUME NEW h \in Seq(Task), NEW p \in Priorities,
         \A i \in DOMAIN h : h[i].pri # p
  PROVE  Kept(h, WorksOf[p]) = <<>>
<1>1. \A i \in 1 .. Len(h) : h[i] \notin WorksOf[p]
  BY LenProperties DEF WorksOf
<1> QED BY <1>1, KeptNothing

(* A task comes to the end of the high priority queue;                     *)
LEMMA ShownPutHigh ==
  ASSUME NEW h \in Seq(Task), NEW v \in Seq(Task), NEW p \in Priorities,
         NEW e \in Task, \A i \in DOMAIN v : v[i].pri # e.pri
  PROVE  Shown(Append(h, e), v, p)
           = IF e \in WorksOf[p] THEN Append(Shown(h, v, p), e.id)
             ELSE Shown(h, v, p)
<1>1. PICK T : T = WorksOf[p]
  OBVIOUS
<1>2. PICK x : x = Kept(h, T)
  OBVIOUS
<1>3. PICK y : y = Kept(v, T)
  OBVIOUS
<1>4. PICK u \in Seq(Task) : u = Append(h, e)
  BY AppendProperties
<1>5. Kept(u, T) = IF e \in T THEN Append(x, e) ELSE x
  BY <1>2, <1>4, KeptAppend
<1>6. x \in Seq(T) /\ y \in Seq(T)
  BY <1>1, <1>2, <1>3, ShownTypes
<1>7. Kept(h \o v, T) = x \o y /\ Kept(u \o v, T) = Kept(u, T) \o y
  BY <1>1, <1>2, <1>3, <1>4, ShownTypes
<1>8. CASE e \in T
  <2>1. e.pri = p
    BY <1>1, <1>8 DEF WorksOf
  <2>2. y = <<>>
    BY <1>1, <1>3, <2>1, KeptNone
  <2>3. Append(x, e) \in Seq(T)
    BY <1>6, <1>8, AppendProperties
  <2>4. x \o <<>> = x /\ Append(x, e) \o <<>> = Append(x, e)
    BY <1>6, <2>3, ConcatEmptySeq
  <2>5. Kept(u \o v, T) = Append(x, e) /\ Kept(h \o v, T) = x
    BY <1>5, <1>7, <1>8, <2>2, <2>4
  <2>6. Ids(Append(x, e)) = Append(Ids(x), e.id)
    BY <1>6, <1>8, IdsAppend
  <2> QED BY <1>1, <1>4, <1>8, <2>5, <2>6 DEF Shown
<1>9. CASE e \notin T
  <2>1. Kept(u \o v, T) = Kept(h \o v, T)
    BY <1>5, <1>7, <1>9
  <2> QED BY <1>1, <1>4, <1>9, <2>1 DEF Shown
<1> QED BY <1>8, <1>9

(* a task comes behind the others of its priority.                         *)
LEMMA ShownPutLow ==
  ASSUME NEW h \in Seq(Task), NEW v \in Seq(Task), NEW p \in Priorities,
         NEW e \in Task, NEW k \in 0 .. Len(v),
         \A i \in k + 1 .. Len(v) : v[i].pri # e.pri
  PROVE  Shown(h, Emplace(v, k, e), p)
           = IF e \in WorksOf[p] THEN Append(Shown(h, v, p), e.id)
             ELSE Shown(h, v, p)
<1>1. PICK T : T = WorksOf[p]
  OBVIOUS
<1>2. PICK n \in Nat : n = Len(v)
  BY LenProperties
<1>3. \A i \in 1 .. n : v[i] \in Task
  BY <1>2, ElementOfSeq
<1>4. PICK a \in Seq(Task) : a = SubSeq(v, 1, k)
  <2>1. 1 \in Int /\ k \in Int /\ \A i \in 1 .. k : v[i] \in Task
    BY <1>2, <1>3
  <2>2. SubSeq(v, 1, k) \in Seq(Task)
    BY <2>1, SubSeqProperties
  <2> QED BY <2>2
<1>5. PICK b \in Seq(Task) : /\ b = SubSeq(v, k + 1, n)
                             /\ \A i \in DOMAIN b : b[i].pri # e.pri
  <2>1. PICK b : b = SubSeq(v, k + 1, n)
    OBVIOUS
  <2>2. k + 1 \in Int /\ n \in Int /\ \A i \in k + 1 .. n : v[i] \in Task
    BY <1>2, <1>3
  <2>3. /\ b \in Seq(Task) /\ Len(b) = IF k + 1 <= n THEN n - (k + 1) + 1 ELSE 0
        /\ \A i \in 1 .. n - (k + 1) + 1 : b[i] = v[(k + 1) + i - 1]
    BY <2>1, <2>2, SubSeqProperties
  <2>4. Len(b) = n - k
    BY <1>2, <2>3
  <2>5. DOMAIN b = 1 .. n - k
    BY <2>3, <2>4, LenProperties
  <2>6. ASSUME NEW i \in 1 .. n - k PROVE b[i].pri # e.pri
    <3>1. b[i] = v[k + i] /\ k + i \in k + 1 .. Len(v)
      BY <1>2, <2>3
    <3> QED BY <3>1
  <2> QED BY <2>1, <2>3, <2>5, <2>6
<1>6. v = a \o b
  <2>1. 1 \in 1 .. Len(v) + 1 /\ k \in 1 - 1 .. Len(v) /\ n \in k .. Len(v)
    BY <1>2
  <2>2. SubSeq(v, 1, k) \o SubSeq(v, k + 1, n) = SubSeq(v, 1, n)
    BY <2>1, ConcatAdjacentSubSeq
  <2>3. SubSeq(v, 1, n) = v
    BY <1>2, SubSeqFull
  <2> QED BY <1>4, <1>5, <2>2, <2>3
<1>7. PICK c \in Seq(Task) : c = Append(a, e)
  BY AppendProperties
<1>8. Emplace(v, k, e) = c \o b
  BY <1>2, <1>4, <1>5, <1>7, AppendIsConcat DEF Emplace
<1>9. PICK x : x = Kept(h, T)
  OBVIOUS
<1>10. PICK y : y = Kept(a, T)
  OBVIOUS
<1>11. PICK z : z = Kept(b, T)
  OBVIOUS
<1>12. x \in Seq(T) /\ y \in Seq(T) /\ z \in Seq(T)
  BY <1>1, <1>9, <1>10, <1>11, ShownTypes
<1>13. Kept(c, T) = IF e \in T THEN Append(y, e) ELSE y
  BY <1>7, <1>10, KeptAppend
<1>14. Kept(c \o b, T) = Kept(c, T) \o z /\ Kept(a \o b, T) = y \o z
  BY <1>1, <1>10, <1>11, ShownTypes
<1>15. /\ Kept(h \o v, T) = x \o (y \o z)
       /\ Kept(h \o Emplace(v, k, e), T) = x \o (Kept(c, T) \o z)
  <2>1. c \o b \in Seq(Task)
    BY ConcatProperties
  <2>2. Kept(h \o v, T) = x \o Kept(v, T)
    BY <1>1, <1>9, ShownTypes
  <2>3. Kept(h \o (c \o b), T) = x \o Kept(c \o b, T)
    BY <1>1, <1>9, <2>1, ShownTypes
  <2> QED BY <1>6, <1>8, <1>14, <2>2, <2>3
<1>16. CASE e \in T
  <2>1. e.pri = p
    BY <1>1, <1>16 DEF WorksOf
  <2>2. z = <<>>
    BY <1>1, <1>5, <1>11, <2>1, KeptNone
  <2>3. Append(y, e) \in Seq(T)
    BY <1>12, <1>16, AppendProperties
  <2>4. y \o <<>> = y /\ Append(y, e) \o <<>> = Append(y, e)
    BY <1>12, <2>3, ConcatEmptySeq
  <2>5. x \o Append(y, e) = Append(x \o y, e)
    <3>1. Add(Cat(x, y), e) = Cat(x, Add(y, e))
      BY <1>12, <1>16, CatAdd
    <3> QED BY <3>1 DEF Cat, Add
  <2>6. Kept(h \o Emplace(v, k, e), T) = Append(x \o y, e) /\ Kept(h \o v, T) = x \o y
    BY <1>13, <1>15, <1>16, <2>2, <2>4, <2>5
  <2>7. x \o y \in Seq(T)
    BY <1>12, ConcatProperties
  <2>8. Ids(Append(x \o y, e)) = Append(Ids(x \o y), e.id)
    BY <1>16, <2>7, IdsAppend
  <2> QED BY <1>1, <1>16, <2>6, <2>8 DEF Shown
<1>17. CASE e \notin T
  <2>1. Kept(h \o Emplace(v, k, e), T) = Kept(h \o v, T)
    BY <1>13, <1>15, <1>17
  <2> QED BY <1>1, <1>17, <2>1 DEF Shown
<1> QED BY <1>16, <1>17

(* The first element of a sequence.                                        *)
LEMMA ConsFacts ==
  ASSUME NEW S, NEW e \in S, NEW q \in Seq(S)
  PROVE  /\ <<e>> \o q \in Seq(S) /\ <<e>> \o q # <<>>
         /\ Head(<<e>> \o q) = e /\ Tail(<<e>> \o q) = q
<1>1. PICK u : u = <<e>> \o q
  OBVIOUS
<1>2. /\ <<e>> \in Seq(S) /\ Len(<<e>>) = 1 /\ Len(q) \in Nat
  BY LenProperties
<1>3. /\ u \in Seq(S) /\ Len(u) = 1 + Len(q)
      /\ \A i \in 1 .. 1 + Len(q) : u[i] = IF i <= 1 THEN <<e>>[i] ELSE q[i - 1]
  BY <1>1, <1>2, ConcatProperties
<1>4. u # <<>> /\ u[1] = e
  BY <1>2, <1>3, EmptySeq
<1>5. /\ Tail(u) \in Seq(S) /\ Len(Tail(u)) = Len(u) - 1
      /\ \A i \in 1 .. Len(Tail(u)) : Tail(u)[i] = u[i + 1]
  BY <1>3, <1>4, HeadTailProperties
<1>6. Len(Tail(u)) = Len(q)
  BY <1>2, <1>3, <1>5
<1>7. \A i \in 1 .. Len(q) : Tail(u)[i] = q[i]
  <2>1. TAKE i \in 1 .. Len(q)
  <2>2. i + 1 \in 1 .. 1 + Len(q) /\ ~(i + 1 <= 1) /\ (i + 1) - 1 = i
    BY <1>2
  <2> QED BY <1>3, <1>5, <1>6, <2>2
<1>8. Tail(u) = q
  BY <1>5, <1>6, <1>7, SeqEqual
<1> QED BY <1>1, <1>3, <1>4, <1>8

LEMMA IdsCons ==
  ASSUME NEW S, NEW q \in Seq(S), NEW e \in S
  PROVE  Ids(<<e>> \o q) = <<e.id>> \o Ids(q)
<1>1. PICK n \in Nat : n = Len(q) /\ DOMAIN q = 1 .. n
  BY LenProperties
<1>2. PICK u : u = <<e>> \o q
  OBVIOUS
<1>3. /\ <<e>> \in Seq(S) /\ Len(<<e>>) = 1
  OBVIOUS
<1>4. /\ DOMAIN u = 1 .. n + 1
      /\ \A i \in 1 .. n + 1 : u[i] = IF i = 1 THEN e ELSE q[i - 1]
  <2>1. /\ u \in Seq(S) /\ Len(u) = n + 1
        /\ \A i \in 1 .. 1 + n : u[i] = IF i <= 1 THEN <<e>>[i] ELSE q[i - 1]
    BY <1>1, <1>2, <1>3, ConcatProperties
  <2>2. \A i \in 1 .. n + 1 : (i <= 1 <=> i = 1) /\ i \in 1 .. 1 + n
    OBVIOUS
  <2>3. <<e>>[1] = e
    OBVIOUS
  <2> QED BY <2>1, <2>2, <2>3, LenProperties
<1>5. PICK X : X = {q[i].id : i \in 1 .. n} \cup {e.id}
  OBVIOUS
<1>6. Ids(q) \in Seq(X) /\ Len(Ids(q)) = n /\ \A i \in 1 .. n : Ids(q)[i] = q[i].id
  BY <1>1, <1>5 DEF Ids
<1>7. /\ Ids(u) = [i \in 1 .. n + 1 |-> u[i].id]
      /\ \A i \in 1 .. n + 1 : i # 1 => i - 1 \in 1 .. n
  BY <1>4 DEF Ids
<1>8. \A i \in 1 .. n + 1 : u[i].id \in X
  BY <1>4, <1>5, <1>7
<1>9. Ids(u) \in Seq(X) /\ Len(Ids(u)) = n + 1
  BY <1>7, <1>8
<1>10. PICK f \in X : f = e.id
  BY <1>5
<1>11. PICK v : v = <<f>> \o Ids(q)
  OBVIOUS
<1>12. /\ v \in Seq(X) /\ Len(v) = 1 + n
       /\ \A i \in 1 .. 1 + n : v[i] = IF i <= 1 THEN <<f>>[i] ELSE Ids(q)[i - 1]
  <2>1. <<f>> \in Seq(X) /\ Len(<<f>>) = 1
    BY <1>10
  <2> QED BY <1>6, <1>11, <2>1, ConcatProperties
<1>13. \A i \in 1 .. n + 1 : Ids(u)[i] = v[i]
  <2>1. TAKE i \in 1 .. n + 1
  <2>2. CASE i = 1
    BY <1>4, <1>7, <1>10, <1>12, <2>2
  <2>3. CASE i # 1
    <3>1. i - 1 \in 1 .. n /\ ~(i <= 1) /\ i \in 1 .. 1 + n
      BY <2>3
    <3>2. Ids(u)[i] = u[i].id /\ u[i] = q[i - 1]
      BY <1>4, <1>7, <2>3
    <3>3. Ids(q)[i - 1] = q[i - 1].id
      BY <1>6, <3>1
    <3>4. v[i] = Ids(q)[i - 1]
      BY <1>12, <3>1
    <3> QED BY <3>2, <3>3, <3>4
  <2> QED BY <2>2, <2>3
<1>14. Ids(u) = v
  BY <1>9, <1>12, <1>13, SeqEqual
<1> QED BY <1>2, <1>10, <1>11, <1>14

(* The first task leaves the high priority queue;                          *)
LEMMA ShownTakeHigh ==
  ASSUME NEW h \in Seq(Task), NEW v \in Seq(Task), NEW p \in Priorities, h # <<>>
  PROVE  Shown(h, v, p)
           = IF Head(h) \in WorksOf[p] THEN <<Head(h).id>> \o Shown(Tail(h), v, p)
             ELSE Shown(Tail(h), v, p)
<1>1. PICK T : T = WorksOf[p]
  OBVIOUS
<1>2. PICK e \in Task : e = Head(h)
  BY HeadTailProperties
<1>3. PICK u \in Seq(Task) : u = Tail(h)
  BY HeadTailProperties
<1>4. PICK x : x = Kept(u, T)
  OBVIOUS
<1>5. PICK y : y = Kept(v, T)
  OBVIOUS
<1>6. x \in Seq(T) /\ y \in Seq(T)
  BY <1>1, <1>3, <1>4, <1>5, ShownTypes
<1>7. Kept(h, T) = IF e \in T THEN <<e>> \o x ELSE x
  BY <1>2, <1>3, <1>4, KeptHead
<1>8. Kept(h \o v, T) = Kept(h, T) \o y /\ Kept(u \o v, T) = x \o y
  BY <1>1, <1>3, <1>4, <1>5, ShownTypes
<1>9. CASE e \in T
  <2>1. ASSUME NEW f \in T PROVE (<<f>> \o x) \o y = <<f>> \o (x \o y) /\ x \o y \in Seq(T)
    <3>1. <<f>> \in Seq(T)
      OBVIOUS
    <3> QED BY <1>6, <3>1, ConcatAssociative, ConcatProperties
  <2>2. Kept(h \o v, T) = <<e>> \o (x \o y) /\ x \o y \in Seq(T)
    BY <1>7, <1>8, <1>9, <2>1
  <2>3. Ids(<<e>> \o (x \o y)) = <<e.id>> \o Ids(x \o y)
    BY <1>9, <2>2, IdsCons
  <2> QED BY <1>1, <1>2, <1>3, <1>8, <1>9, <2>2, <2>3 DEF Shown
<1>10. CASE e \notin T
  BY <1>1, <1>2, <1>3, <1>7, <1>8, <1>10 DEF Shown
<1> QED BY <1>9, <1>10

(* the other one, when none of its priority is in the first.               *)
LEMMA ShownTakeLow ==
  ASSUME NEW h \in Seq(Task), NEW v \in Seq(Task), NEW p \in Priorities, v # <<>>,
         \A i \in DOMAIN h : h[i].pri # Head(v).pri
  PROVE  Shown(h, v, p)
           = IF Head(v) \in WorksOf[p] THEN <<Head(v).id>> \o Shown(h, Tail(v), p)
             ELSE Shown(h, Tail(v), p)
<1>1. PICK T : T = WorksOf[p]
  OBVIOUS
<1>2. PICK e \in Task : e = Head(v)
  BY HeadTailProperties
<1>3. PICK u \in Seq(Task) : u = Tail(v)
  BY HeadTailProperties
<1>4. PICK x : x = Kept(h, T)
  OBVIOUS
<1>5. PICK y : y = Kept(u, T)
  OBVIOUS
<1>6. x \in Seq(T) /\ y \in Seq(T)
  BY <1>1, <1>3, <1>4, <1>5, ShownTypes
<1>7. Kept(v, T) = IF e \in T THEN <<e>> \o y ELSE y
  BY <1>2, <1>3, <1>5, KeptHead
<1>8. Kept(h \o v, T) = x \o Kept(v, T) /\ Kept(h \o u, T) = x \o y
  BY <1>1, <1>3, <1>4, <1>5, ShownTypes
<1>9. CASE e \in T
  <2>1. x = <<>>
    <3>1. e.pri = p
      BY <1>1, <1>9 DEF WorksOf
    <3> QED BY <1>1, <1>2, <1>4, <3>1, KeptNone
  <2>2. <<e>> \o y \in Seq(T)
    BY <1>6, <1>9, ConsFacts
  <2>3. <<>> \o y = y /\ <<>> \o (<<e>> \o y) = <<e>> \o y
    BY <1>6, <2>2, ConcatEmptySeq
  <2>4. Kept(h \o v, T) = <<e>> \o y /\ Kept(h \o u, T) = y
    BY <1>7, <1>8, <1>9, <2>1, <2>3
  <2>5. Ids(<<e>> \o y) = <<e.id>> \o Ids(y)
    BY <1>6, <1>9, IdsCons
  <2> QED BY <1>1, <1>2, <1>3, <1>9, <2>4, <2>5 DEF Shown
<1>10. CASE e \notin T
  BY <1>1, <1>2, <1>3, <1>7, <1>8, <1>10 DEF Shown
<1> QED BY <1>9, <1>10

-----------------------------------------------------------------------------
(* The queues stay in order; deleteLater carries no function of a user.    *)

Sorted(v) == \A i, j \in DOMAIN v : i <= j => v[i].pri <= v[j].pri

QueueOrder(h, v) ==
  /\ \A i \in DOMAIN h : h[i].pri = HighPriority
  /\ \A i \in DOMAIN v : v[i].pri # HighPriority
  /\ Sorted(v)

OrderInv == \A l \in Loops : QueueOrder(highPri[l], events[l])

(* A queue without its first task.                                         *)
LEMMA OrderTail ==
  ASSUME NEW s \in Seq(Task), s # <<>>
  PROVE  /\ \A h : QueueOrder(h, s) => QueueOrder(h, Tail(s))
         /\ \A v : QueueOrder(s, v) => QueueOrder(Tail(s), v)
<1>1. PICK n \in Nat : n = Len(s) /\ DOMAIN s = 1 .. n
  BY LenProperties
<1>2. PICK u : u = Tail(s)
  OBVIOUS
<1>3. DOMAIN u = 1 .. n - 1 /\ \A i \in 1 .. n - 1 : u[i] = s[i + 1]
  <2>1. /\ u \in Seq(Task) /\ Len(u) = n - 1
        /\ \A i \in 1 .. Len(u) : u[i] = s[i + 1]
    BY <1>1, <1>2, HeadTailProperties
  <2> QED BY <2>1, LenProperties
<1>4. \A i \in 1 .. n - 1 : i + 1 \in 1 .. n
  BY <1>1
<1>5. ASSUME Sorted(s) PROVE Sorted(u)
  <2> SUFFICES ASSUME NEW i \in 1 .. n - 1, NEW j \in 1 .. n - 1, i <= j
               PROVE  u[i].pri <= u[j].pri
    BY <1>3 DEF Sorted
  <2>1. i + 1 \in DOMAIN s /\ j + 1 \in DOMAIN s /\ i + 1 <= j + 1
    BY <1>1, <1>4
  <2>2. s[i + 1].pri <= s[j + 1].pri
    BY <1>5, <2>1 DEF Sorted
  <2> QED BY <1>3, <2>2
<1>6. ASSUME NEW p, \A i \in DOMAIN s : s[i].pri = p
      PROVE  \A i \in DOMAIN u : u[i].pri = p
  BY <1>1, <1>3, <1>4, <1>6
<1>7. ASSUME \A i \in DOMAIN s : s[i].pri # HighPriority
      PROVE  \A i \in DOMAIN u : u[i].pri # HighPriority
  BY <1>1, <1>3, <1>4, <1>7
<1> QED BY <1>2, <1>5, <1>6, <1>7 DEF QueueOrder

(* A task comes in.                                                        *)
LEMMA OrderPutHigh ==
  ASSUME NEW h \in Seq(Task), NEW v, NEW e \in Task, e.pri = HighPriority,
         QueueOrder(h, v)
  PROVE  QueueOrder(Append(h, e), v)
<1>1. PICK n \in Nat : n = Len(h) /\ DOMAIN h = 1 .. n
  BY LenProperties
<1>2. PICK u : u = Append(h, e)
  OBVIOUS
<1>3. /\ DOMAIN u = 1 .. n + 1 /\ u[n + 1] = e
      /\ \A i \in 1 .. n : u[i] = h[i]
  BY <1>1, <1>2, AppendProperties, LenProperties
<1>4. \A i \in 1 .. n + 1 : i \in 1 .. n \/ i = n + 1
  OBVIOUS
<1> QED BY <1>1, <1>2, <1>3, <1>4 DEF QueueOrder

LEMMA OrderPutLow ==
  ASSUME NEW h, NEW v \in Seq(Task), NEW e \in Task, e.pri # HighPriority,
         NEW k \in 0 .. Len(v), IsUpperBound(v, k, e.pri), QueueOrder(h, v)
  PROVE  QueueOrder(h, Emplace(v, k, e))
<1>1. PICK n \in Nat : n = Len(v) /\ DOMAIN v = 1 .. n
  BY LenProperties
<1>2. PICK u : u = Emplace(v, k, e)
  OBVIOUS
<1>3. DOMAIN u = 1 .. n + 1
  BY <1>1, <1>2, EmplaceType, LenProperties
<1>4. \A i \in 1 .. n + 1 : u[i] = IF i <= k THEN v[i]
                                   ELSE IF i = k + 1 THEN e ELSE v[i - 1]
  BY <1>1, <1>2, EmplaceElements
<1>5. /\ \A i \in 1 .. k : v[i].pri <= e.pri
      /\ \A i \in k + 1 .. n : v[i].pri > e.pri
  BY <1>1 DEF IsUpperBound
<1>6. /\ \A i \in 1 .. n : v[i].pri \in Nat /\ v[i].pri # HighPriority
      /\ e.pri \in Nat
  <2>1. \A i \in 1 .. n : v[i] \in Task
    BY <1>1, ElementOfSeq
  <2> QED BY <1>1, <2>1, LoopAssumption DEF QueueOrder, Task
<1>7. \A i \in 1 .. n, j \in 1 .. n : i <= j => v[i].pri <= v[j].pri
  BY <1>1 DEF QueueOrder, Sorted
<1>8. k \in 0 .. n
  BY <1>1
<1>9. \A i \in 1 .. n + 1 :
        \/ i \in 1 .. k /\ i \in 1 .. n /\ u[i] = v[i]
        \/ i = k + 1 /\ u[i] = e
        \/ i - 1 \in k + 1 .. n /\ i - 1 \in 1 .. n /\ u[i] = v[i - 1] /\ ~(i <= k + 1)
  BY <1>4, <1>8
<1>10. ASSUME NEW i \in 1 .. n + 1, NEW j \in 1 .. n + 1, i <= j
       PROVE  u[i].pri <= u[j].pri
  <2>1. CASE i \in 1 .. k /\ i \in 1 .. n /\ u[i] = v[i]
    <3>1. CASE j \in 1 .. k /\ j \in 1 .. n /\ u[j] = v[j]
      BY <1>7, <1>10, <2>1, <3>1
    <3>2. CASE j = k + 1 /\ u[j] = e
      BY <1>5, <2>1, <3>2
    <3>3. CASE j - 1 \in k + 1 .. n /\ j - 1 \in 1 .. n /\ u[j] = v[j - 1]
      <4>1. i <= j - 1
        BY <1>8, <2>1, <3>3
      <4> QED BY <1>7, <2>1, <3>3, <4>1
    <3> QED BY <1>9, <3>1, <3>2, <3>3
  <2>2. CASE i = k + 1 /\ u[i] = e
    <3>1. CASE j \in 1 .. k /\ j \in 1 .. n /\ u[j] = v[j]
      BY <1>8, <1>10, <2>2, <3>1
    <3>2. CASE j = k + 1 /\ u[j] = e
      BY <1>6, <2>2, <3>2
    <3>3. CASE j - 1 \in k + 1 .. n /\ j - 1 \in 1 .. n /\ u[j] = v[j - 1]
      <4>1. v[j - 1].pri > e.pri /\ v[j - 1].pri \in Nat
        BY <1>5, <1>6, <3>3
      <4> QED BY <1>6, <2>2, <3>3, <4>1
    <3> QED BY <1>9, <3>1, <3>2, <3>3
  <2>3. CASE i - 1 \in k + 1 .. n /\ i - 1 \in 1 .. n /\ u[i] = v[i - 1] /\ ~(i <= k + 1)
    <3>1. j - 1 \in k + 1 .. n /\ j - 1 \in 1 .. n /\ u[j] = v[j - 1]
      BY <1>8, <1>9, <1>10, <2>3
    <3>2. i - 1 <= j - 1
      BY <1>10
    <3> QED BY <1>7, <2>3, <3>1, <3>2
  <2> QED BY <1>9, <2>1, <2>2, <2>3
<1>11. Sorted(u)
  BY <1>3, <1>10 DEF Sorted
<1>12. \A i \in DOMAIN u : u[i].pri # HighPriority
  BY <1>3, <1>6, <1>9
<1> QED BY <1>2, <1>11, <1>12 DEF QueueOrder

(* OrderInv is inductive.                                                  *)
LEMMA OrderNext ==
  ASSUME TypeOK, CallInv, OrderInv, [Next]_vars
  PROVE  OrderInv'
<1> USE LoopAssumption DEF queueVars
<1>0. /\ highPri \in [Loops -> Seq(Task)] /\ events \in [Loops -> Seq(Task)]
      /\ \A l \in Loops : highPri[l] \in Seq(Task) /\ events[l] \in Seq(Task)
  BY DEF TypeOK, DataOK
<1>1. ASSUME UNCHANGED <<highPri, events>> PROVE OrderInv'
  BY <1>1 DEF OrderInv, QueueOrder, Sorted
<1>2. ASSUME NEW l \in Loops, NEW h, NEW v, QueueOrder(h, v),
             highPri' = [highPri EXCEPT ![l] = h],
             events' = [events EXCEPT ![l] = v]
      PROVE  OrderInv'
  <2>1. ASSUME NEW m \in Loops PROVE QueueOrder(highPri'[m], events'[m])
    BY <1>0, <1>2 DEF OrderInv
  <2> QED BY <2>1 DEF OrderInv, QueueOrder, Sorted
<1>3. ASSUME NEW l \in Loops PROVE QueueOrder(highPri[l], events[l])
  BY DEF OrderInv
<1>4. \A l \in Loops : /\ highPri = [highPri EXCEPT ![l] = highPri[l]]
                       /\ events = [events EXCEPT ![l] = events[l]]
  BY <1>0
<1>5. ASSUME NEW t \in Threads, PopHigh(t) PROVE OrderInv'
  <2>1. PICK l \in Loops : l = On(t)
    BY FrameFacts
  <2>2. CASE highPri[l] # <<>>
    <3>1. highPri' = [highPri EXCEPT ![l] = Tail(highPri[l])] /\ events' = events
      BY <1>5, <2>1, <2>2 DEF PopHigh
    <3>2. QueueOrder(Tail(highPri[l]), events[l])
      BY <1>0, <1>3, <2>2, OrderTail
    <3> QED BY <1>2, <1>4, <3>1, <3>2
  <2>3. CASE ~(highPri[l] # <<>>)
    BY <1>1, <1>5, <2>1, <2>3 DEF PopHigh
  <2> QED BY <2>2, <2>3
<1>6. ASSUME NEW t \in Threads, PopLow(t) PROVE OrderInv'
  <2>1. PICK l \in Loops : l = On(t)
    BY FrameFacts
  <2>2. CASE events[l] # <<>>
    <3>1. events' = [events EXCEPT ![l] = Tail(events[l])] /\ highPri' = highPri
      BY <1>6, <2>1, <2>2 DEF PopLow
    <3>2. QueueOrder(highPri[l], Tail(events[l]))
      BY <1>0, <1>3, <2>2, OrderTail
    <3> QED BY <1>2, <1>4, <3>1, <3>2
  <2>3. CASE ~(events[l] # <<>>)
    BY <1>1, <1>6, <2>1, <2>3 DEF PopLow
  <2> QED BY <2>2, <2>3
<1>7. ASSUME NEW t \in Threads, Push(t) PROVE OrderInv'
  <2>1. PICK l \in Loops : l = On(t)
    BY FrameFacts
  <2>2. PICK e \in Task : e = Arg(t)
    BY FrameFacts
  <2>3. CASE PushHigh(l, e)
    <3>1. QueueOrder(Append(highPri[l], e), events[l])
      BY <1>0, <1>3, <2>3, OrderPutHigh DEF PushHigh
    <3>2. highPri' = [highPri EXCEPT ![l] = Append(highPri[l], e)] /\ events' = events
      BY <2>3 DEF PushHigh
    <3> QED BY <1>2, <1>4, <3>1, <3>2
  <2>4. CASE PushLow(l, e)
    <3>1. PICK k \in 0 .. Len(events[l]) :
            /\ IsUpperBound(events[l], k, e.pri)
            /\ events' = [events EXCEPT ![l] = Emplace(events[l], k, e)]
      BY <2>4 DEF PushLow
    <3>2. e.pri # HighPriority /\ highPri' = highPri
      BY <2>4 DEF PushLow
    <3>3. QueueOrder(highPri[l], Emplace(events[l], k, e))
      BY <1>0, <1>3, <3>1, <3>2, OrderPutLow
    <3> QED BY <1>2, <1>4, <3>1, <3>2, <3>3
  <2> QED BY <1>7, <2>1, <2>2, <2>3, <2>4 DEF Push
<1>8. ASSUME NEW l \in Loops, RunStep(l) PROVE OrderInv'
  BY <1>1, <1>8 DEF RunStep, Check, Wait, Reap
<1>9. ASSUME NEW t \in Threads,
             \/ Finish(t) \/ Pause(t) \/ NextEvent(t) \/ Post(t) \/ Ack(t)
             \/ ProcessFirst(t) \/ BeginBody(t) \/ EndBody(t) \/ ManualWake(t)
             \/ Register(t) \/ AddSharedConnectBase(t)
             \/ Unbind(t) \/ RemoveSharedConnectBase(t)
      PROVE  OrderInv'
  BY <1>1, <1>9
     DEF Finish, Pause, NextEvent, Post, Ack, ProcessFirst, BeginBody, EndBody,
         ManualWake, Register, AddSharedConnectBase, Unbind,
         RemoveSharedConnectBase
<1>10. ASSUME NEW t \in Threads,
              \/ DelLock(t) \/ DelConnects(t) \/ DelAlive(t) \/ DelTerminate(t)
              \/ DelRun(t)
       PROVE  OrderInv'
  BY <1>1, <1>10 DEF DelLock, DelConnects, DelAlive, DelTerminate, DelRun
<1>11. ASSUME NEW t \in Threads, UserCall(t) PROVE OrderInv'
  BY <1>1, <1>11
     DEF UserCall, Work, WorkSync, WorkSyncOwn, SetRunFalse, SetRunTrue,
         Process, DeleteLater, ManualWait, Hold, Drop, Connect, Disconnect,
         Submit
<1>12. CASE UNCHANGED vars
  BY <1>1, <1>12 DEF vars
<1> QED
  BY <1>5, <1>6, <1>7, <1>8, <1>9, <1>10, <1>11, <1>12 DEF Next, ThreadStep

LEMMA OrderInvariant == Spec => []OrderInv
<1>1. Init => OrderInv
  BY DEF Init, OrderInv, QueueOrder, Sorted
<1>2. TypeOK /\ CallInv /\ OrderInv /\ [Next]_vars => OrderInv'
  BY OrderNext
<1> QED BY <1>1, <1>2, TypeCorrect, PTL DEF Spec

(* A frame of deleteLater carries no function of a user.                   *)
DelFrames == {f \in Frame : f.at \in DeleteLabels => f.arg.id \notin Works}

DelInv ==
  /\ frame \in [Threads -> DelFrames]
  /\ stack \in [Threads -> Seq(DelFrames)]

(* A thread moves on, takes up a function, calls.                          *)
LEMMA DelGoto ==
  ASSUME CallInv, CallInv', DelInv, NEW t \in Threads, NEW label,
         label \in DeleteLabels => frame[t].at \in DeleteLabels,
         Goto(t, label), UNCHANGED stack
  PROVE  DelInv'
<1> DEFINE f == [frame[t] EXCEPT !.at = label]
<1>1. /\ frame' = [frame EXCEPT ![t] = f] /\ f.at = label /\ f = frame'[t]
      /\ f.arg = frame[t].arg
  BY FrameFacts DEF Goto, CallInv, Frame
<1>2. f \in Frame
  BY <1>1 DEF CallInv
<1> HIDE DEF f
<1>3. f \in DelFrames
  BY <1>1, <1>2 DEF DelFrames, DelInv
<1> QED BY <1>1, <1>3 DEF DelInv

LEMMA DelExecute ==
  ASSUME CallInv, CallInv', DelInv, NEW t \in Threads, NEW e,
         Execute(t, e), UNCHANGED stack
  PROVE  DelInv'
<1> DEFINE f == [frame[t] EXCEPT !.at = "exec", !.arg = e]
<1>1. frame' = [frame EXCEPT ![t] = f] /\ f.at = "exec" /\ f = frame'[t]
  BY FrameFacts DEF Execute, CallInv, Frame
<1>2. f \in Frame
  BY <1>1 DEF CallInv
<1> HIDE DEF f
<1>3. f \in DelFrames
  BY <1>1, <1>2 DEF DelFrames, DeleteLabels
<1> QED BY <1>1, <1>3 DEF DelInv

LEMMA DelCall ==
  ASSUME CallInv, DelInv, NEW t \in Threads, NEW f \in DelFrames,
         NEW g \in DelFrames, CallOver(t, <<g>>, f)
  PROVE  DelInv'
<1>1. <<g>> \in Seq(DelFrames)
  OBVIOUS
<1> QED BY <1>1, CallIn DEF DelInv

LEMMA DelReturn ==
  ASSUME DelInv, NEW t \in Threads, stack[t] # <<>>, Return(t)
  PROVE  DelInv'
BY ReturnIn DEF DelInv

LEMMA PlainDel ==
  ASSUME NEW f \in Frame, f.at \notin DeleteLabels
  PROVE  f \in DelFrames
BY DEF DelFrames

LEMMA DelDisconnect ==
  ASSUME CallInv, DelInv, NEW t \in Threads, NEW l \in Loops,
         NEW r \in Connects, DisconnectFun(t, l, r)
  PROVE  DelInv'
<1> DEFINE g == FrameOf("remove", l, TaskOf(r, "unbind"))
<1>1. PICK s \in Loops :
        CallOver(t, <<frame[t], g>>, FrameOf("push", s, TaskOf(r, "unbind")))
  BY DEF DisconnectFun
<1>2. g \in DelFrames
  <2>1. TaskOf(r, "unbind") \in Task /\ TaskOf(r, "unbind").kind = "unbind"
    BY TaskFacts
  <2> QED BY <2>1 DEF FrameOf, Frame, Labels, DelFrames, DeleteLabels
<1>3. FrameOf("push", s, TaskOf(r, "unbind")) \in DelFrames
  BY TaskFacts DEF FrameOf, Frame, Labels, DelFrames, DeleteLabels
<1>4. frame[t] \in DelFrames
  BY DEF DelInv
<1>5. <<frame[t], g>> \in Seq(DelFrames)
  <2> HIDE DEF g
  <2> QED BY <1>2, <1>4
<1> HIDE DEF g
<1> QED BY <1>1, <1>3, <1>5, CallIn DEF DelInv

(* DelInv is inductive.                                                    *)
LEMMA DelNext ==
  ASSUME TypeOK, CallInv, CallInv', DelInv, [Next]_vars
  PROVE  DelInv'
<1> USE LoopAssumption
<1>1. ASSUME NEW l \in Loops, RunStep(l) PROVE DelInv'
  <2>1. l \in Threads
    BY DEF Threads
  <2>2. ASSUME Wait(l) PROVE DelInv'
    <3> DEFINE g == [frame[l] EXCEPT !.at = "check"]
    <3>1. CallOver(l, <<g>>, Pump(l))
      BY <2>2 DEF Wait
    <3>2. g \in Frame /\ g.at = "check" /\ Pump(l) \in Frame /\ Pump(l).at = "pop"
      BY <2>1, TaskFacts, FrameFacts DEF Frame, Labels, PumpLabels, Pump, FrameOf
    <3> HIDE DEF g
    <3>3. g \in DelFrames /\ Pump(l) \in DelFrames
      BY <3>2, PlainDel DEF DeleteLabels
    <3> QED BY <2>1, <3>1, <3>3, DelCall
  <2> QED BY <1>1, <2>1, <2>2, DelGoto DEF RunStep, Check, Reap, DeleteLabels
<1>2. ASSUME NEW t \in Threads, PopHigh(t) PROVE DelInv'
  BY <1>2, DelGoto, DelExecute DEF PopHigh, DeleteLabels
<1>3. ASSUME NEW t \in Threads, PopLow(t) PROVE DelInv'
  BY <1>3, FrameFacts, DelExecute, DelReturn DEF PopLow, At, BaseLabels
<1>4. ASSUME NEW t \in Threads,
             Finish(t) \/ Pause(t) \/ Unbind(t) \/ Push(t) \/ BeginBody(t)
      PROVE  DelInv'
  BY <1>4, DelGoto DEF Finish, Pause, Unbind, Push, BeginBody, DeleteLabels
<1>5. ASSUME NEW t \in Threads, NextEvent(t) \/ Post(t) \/ ManualWake(t)
      PROVE  DelInv'
  BY <1>5, FrameFacts, DelGoto, DelReturn
     DEF NextEvent, Post, ManualWake, At, BaseLabels, DeleteLabels
<1>6. ASSUME NEW t \in Threads,
             \/ Ack(t) \/ EndBody(t) \/ AddSharedConnectBase(t)
             \/ RemoveSharedConnectBase(t)
      PROVE  DelInv'
  BY <1>6, FrameFacts, DelReturn
     DEF Ack, EndBody, AddSharedConnectBase, RemoveSharedConnectBase, At, BaseLabels
<1>7. ASSUME NEW t \in Threads, ProcessFirst(t) PROVE DelInv'
  <2> DEFINE g == [frame[t] EXCEPT !.at = "begin"]
             l == On(t)
  <2>1. \/ CallOver(t, <<g>>, Pump(l))
        \/ Goto(t, "begin") /\ stack' = stack
    BY <1>7 DEF ProcessFirst
  <2>2. g \in Frame /\ g.at = "begin" /\ Pump(l) \in Frame /\ Pump(l).at = "pop"
    BY TaskFacts, FrameFacts DEF Frame, Labels, PumpLabels, Pump, FrameOf
  <2> HIDE DEF g, l
  <2>3. g \in DelFrames /\ Pump(l) \in DelFrames
    BY <2>2, PlainDel DEF DeleteLabels
  <2> QED BY <2>1, <2>3, DelCall, DelGoto DEF DeleteLabels
<1>8. ASSUME NEW t \in Threads, Register(t) PROVE DelInv'
  <2> DEFINE g == [frame[t] EXCEPT !.at = "next"]
  <2>1. PICK l \in Loops : CallOver(t, <<g>>, FrameOf("add", l, Arg(t)))
    BY <1>8 DEF Register
  <2>2. g \in Frame /\ g.at = "next" /\ Arg(t) \in Task /\ Arg(t).kind = "register"
    BY <1>8, FrameFacts DEF Frame, Labels, PumpLabels, Register
  <2>3. FrameOf("add", l, Arg(t)) \in DelFrames
    BY <2>2 DEF FrameOf, Frame, Labels, DelFrames, DeleteLabels
  <2> HIDE DEF g
  <2> QED BY <2>1, <2>2, <2>3, PlainDel, DelCall DEF DeleteLabels
<1>9. ASSUME NEW t \in Threads,
             DelLock(t) \/ DelAlive(t) \/ DelTerminate(t) \/ DelRun(t)
      PROVE  DelInv'
  BY <1>9, DelGoto DEF DelLock, DelAlive, DelTerminate, DelRun, At, DeleteLabels
<1>10. ASSUME NEW t \in Threads, DelConnects(t) PROVE DelInv'
  <2>1. On(t) \in Loops /\ connects \in [Loops -> SUBSET Connects]
    BY FrameFacts DEF TypeOK, DataOK
  <2>2. CASE connects[On(t)] \cap connAlive # {}
    BY <1>10, <2>1, <2>2, DelDisconnect DEF DelConnects
  <2>3. CASE ~(connects[On(t)] \cap connAlive # {})
    BY <1>10, <2>3, DelGoto DEF DelConnects, At, DeleteLabels
  <2> QED BY <2>2, <2>3
<1>11. ASSUME NEW t \in Threads, UserCall(t) PROVE DelInv'
  <2>1. ASSUME NEW f \in DelFrames, Call(t, f) PROVE DelInv'
    BY <2>1, DelCall DEF Call, DelInv
  <2>2. ASSUME NEW label \in Labels \ ({"add", "remove"} \cup DeleteLabels),
               NEW l \in Loops, NEW e \in Task, Call(t, FrameOf(label, l, e))
        PROVE  DelInv'
    <3>1. FrameOf(label, l, e) \in DelFrames
      BY PlainDel DEF FrameOf, Frame
    <3> QED BY <2>1, <2>2, <3>1
  <2>3. ASSUME NEW l \in Loops, NEW w \in Works, NEW p \in Priorities,
               Work(t, l, w, p) \/ WorkSync(t, l, w, p)
        PROVE  DelInv'
    BY <2>2, <2>3, TaskFacts DEF Work, WorkSync, Submit, Labels, DeleteLabels
  <2>4. ASSUME NEW l \in Loops, NEW w \in Works,
               WorkSyncOwn(t, l, w) \/ SetRunFalse(t, l, w)
        PROVE  DelInv'
    BY <2>2, <2>4, TaskFacts
       DEF WorkSyncOwn, SetRunFalse, Submit, Labels, DeleteLabels
  <2>5. ASSUME NEW l \in Loops, Process(t, l) PROVE DelInv'
    BY <2>2, <2>5, TaskFacts DEF Process, Pump, Labels, PumpLabels, DeleteLabels
  <2>6. ASSUME NEW l \in Loops, DeleteLater(t, l) PROVE DelInv'
    <3>1. FrameOf("delLock", l, NullTask) \in DelFrames
      BY TaskFacts
         DEF FrameOf, Frame, Labels, DeleteLabels, DelFrames, NullTask, TaskOf
    <3> QED BY <2>1, <2>6, <3>1 DEF DeleteLater
  <2>7. ASSUME NEW l \in Loops, NEW op \in {"waitProcess", "waitEvent"},
               ManualWait(t, l, op)
        PROVE  DelInv'
    BY <2>2, <2>7, TaskFacts DEF ManualWait, Labels, DeleteLabels
  <2>8. ASSUME UNCHANGED <<frame, stack>> PROVE DelInv'
    BY <2>8 DEF DelInv
  <2>9. ASSUME NEW r \in Connects, Connect(t, r) PROVE DelInv'
    <3>1. TaskOf(r, "register") \in Task /\ TaskOf(r, "register").kind = "register"
      BY TaskFacts
    <3>2. FrameOf("add", CurrentLoop(t), TaskOf(r, "register")) \in DelFrames
      BY <3>1
         DEF FrameOf, Frame, Labels, DelFrames, DeleteLabels, CurrentLoop
    <3>3. \A s \in Loops : FrameOf("push", s, TaskOf(r, "register")) \in DelFrames
      BY <3>1 DEF FrameOf, Frame, Labels, DelFrames, DeleteLabels
    <3> QED BY <2>1, <2>9, <3>2, <3>3 DEF Connect
  <2>10. ASSUME NEW l \in Loops, NEW r \in Connects, Disconnect(t, l, r)
         PROVE  DelInv'
    BY <2>10, DelDisconnect DEF Disconnect
  <2> QED BY <1>11, <2>3, <2>4, <2>5, <2>6, <2>7, <2>8, <2>9, <2>10
       DEF UserCall, SetRunTrue, Hold, Drop, callVars
<1>12. CASE UNCHANGED vars
  BY <1>12 DEF vars, callVars, DelInv
<1> QED
  BY <1>1, <1>2, <1>3, <1>4, <1>5, <1>6, <1>7, <1>8, <1>9, <1>10, <1>11, <1>12
     DEF Next, ThreadStep

LEMMA DelInvariant == Spec => []DelInv
<1>1. Init => DelInv
  <2>1. HAVE Init
  <2>2. TypeOK
    BY <2>1, InitOK
  <2>3. \A t \in Threads : stack[t] = <<>> /\ frame[t].at \notin DeleteLabels
    BY <2>1 DEF Init, FrameOf, DeleteLabels
  <2> QED BY <2>2, <2>3, PlainDel, EmptySeq DEF TypeOK, DelInv
<1>2. TypeOK /\ CallInv /\ CallInv' /\ DelInv /\ [Next]_vars => DelInv'
  BY DelNext
<1> QED BY <1>1, <1>2, TypeCorrect, PTL DEF Spec

-----------------------------------------------------------------------------
(* What a step does to the frames of a thread.                             *)

(* t's frames become s, the other threads keep theirs.                     *)
FramesBecome(t, s) ==
  Frames(t)' = s /\ \A x \in Threads \ {t} : Frames(x)' = Frames(x)

LEMMA GotoFrames ==
  ASSUME CallInv, NEW t \in Threads, NEW f,
         frame' = [frame EXCEPT ![t] = f], stack' = stack
  PROVE  FramesBecome(t, Append(stack[t], f))
BY DEF FramesBecome, Frames, CallInv

LEMMA CallFrames ==
  ASSUME CallInv, NEW t \in Threads, NEW f, NEW below, CallOver(t, below, f)
  PROVE  FramesBecome(t, Append(stack[t] \o below, f))
<1>1. PICK s : s = stack[t] \o below
  OBVIOUS
<1>2. frame' = [frame EXCEPT ![t] = f] /\ stack' = [stack EXCEPT ![t] = s]
  BY <1>1 DEF CallOver
<1>3. frame'[t] = f /\ stack'[t] = s
  BY <1>2 DEF CallInv
<1>4. \A x \in Threads \ {t} : frame'[x] = frame[x] /\ stack'[x] = stack[x]
  BY <1>2 DEF CallInv
<1> QED BY <1>1, <1>3, <1>4 DEF FramesBecome, Frames

(* The last element of a sequence.                                         *)
LEMMA LastFacts ==
  ASSUME NEW S, NEW s \in Seq(S)
  PROVE  /\ s # <<>> => Append(SubSeq(s, 1, Len(s) - 1), s[Len(s)]) = s
         /\ \A e \in S : /\ Len(Append(s, e)) > 0
                         /\ Append(s, e)[Len(Append(s, e))] = e
                         /\ SubSeq(Append(s, e), 1, Len(Append(s, e)) - 1) = s
<1>1. ASSUME NEW u \in Seq(S), u # <<>>
      PROVE  Append(SubSeq(u, 1, Len(u) - 1), u[Len(u)]) = u
  <2>1. PICK n \in Nat \ {0} : n = Len(u)
    BY <1>1, EmptySeq, LenProperties
  <2>2. \A i \in 1 .. n : u[i] \in S
    BY <2>1, ElementOfSeq
  <2>3. PICK v : v = SubSeq(u, 1, n - 1)
    OBVIOUS
  <2>4. /\ v \in Seq(S) /\ Len(v) = n - 1 /\ \A i \in 1 .. n - 1 : v[i] = u[i]
    <3>1. 1 \in Int /\ n - 1 \in Int /\ \A i \in 1 .. n - 1 : u[i] \in S
      BY <2>1, <2>2
    <3>2. /\ v \in Seq(S) /\ Len(v) = IF 1 <= n - 1 THEN (n - 1) - 1 + 1 ELSE 0
          /\ \A i \in 1 .. (n - 1) - 1 + 1 : v[i] = u[1 + i - 1]
      BY <2>3, <3>1, SubSeqProperties
    <3> QED BY <2>1, <3>2
  <2>5. PICK x \in S : x = u[n]
    BY <2>2
  <2>6. PICK y : y = Append(v, x)
    OBVIOUS
  <2>7. /\ y \in Seq(S) /\ Len(y) = n /\ y[n] = x
        /\ \A i \in 1 .. n - 1 : y[i] = v[i]
    BY <2>4, <2>6, AppendProperties
  <2>8. \A i \in 1 .. n : y[i] = u[i]
    <3>1. \A i \in 1 .. n : i \in 1 .. n - 1 \/ i = n
      BY <2>1
    <3> QED BY <2>4, <2>5, <2>7, <3>1
  <2>9. y = u
    BY <2>1, <2>7, <2>8, SeqEqual
  <2> QED BY <2>1, <2>3, <2>5, <2>6, <2>9
<1>2. ASSUME NEW e \in S
      PROVE  /\ Len(Append(s, e)) > 0
             /\ Append(s, e)[Len(Append(s, e))] = e
             /\ SubSeq(Append(s, e), 1, Len(Append(s, e)) - 1) = s
  <2>1. PICK u : u = Append(s, e)
    OBVIOUS
  <2>2. PICK n \in Nat : n = Len(s)
    BY LenProperties
  <2>3. u \in Seq(S) /\ Len(u) = n + 1 /\ u[n + 1] = e /\ u # <<>>
    BY <2>1, <2>2, AppendProperties
  <2>4. PICK v : v = SubSeq(u, 1, n)
    OBVIOUS
  <2>5. v \in Seq(S) /\ Append(v, e) = u
    <3>1. /\ 1 \in Int /\ n \in Int /\ (n + 1) - 1 = n
          /\ \A i \in 1 .. n : i \in 1 .. n + 1
      OBVIOUS
    <3>2. \A i \in 1 .. n : u[i] \in S
      BY <2>3, <3>1, ElementOfSeq
    <3>3. v \in Seq(S)
      BY <2>4, <3>1, <3>2, SubSeqProperties
    <3>4. Append(SubSeq(u, 1, Len(u) - 1), u[Len(u)]) = u
      BY <1>1, <2>3
    <3> QED BY <2>3, <2>4, <3>1, <3>3, <3>4
  <2>6. v = s
    BY <2>1, <2>5, AppendInjective
  <2>7. (n + 1) - 1 = n /\ n + 1 > 0
    OBVIOUS
  <2> QED BY <2>1, <2>3, <2>4, <2>6, <2>7
<1> QED BY <1>1, <1>2

LEMMA ReturnFrames ==
  ASSUME CallInv, NEW t \in Threads, stack[t] # <<>>, Return(t)
  PROVE  FramesBecome(t, stack[t])
<1>1. PICK s \in Seq(Frame) : s = stack[t]
  BY StackFacts
<1>2. PICK u : u = SubSeq(s, 1, Len(s) - 1)
  OBVIOUS
<1>3. PICK f : f = s[Len(s)]
  OBVIOUS
<1>4. Append(u, f) = s
  BY <1>1, <1>2, <1>3, LastFacts
<1>5. frame' = [frame EXCEPT ![t] = f] /\ stack' = [stack EXCEPT ![t] = u]
  BY <1>1, <1>2, <1>3 DEF Return
<1>6. frame'[t] = f /\ stack'[t] = u
  BY <1>5 DEF CallInv
<1>7. \A x \in Threads \ {t} : frame'[x] = frame[x] /\ stack'[x] = stack[x]
  BY <1>5 DEF CallInv
<1> QED BY <1>1, <1>4, <1>6, <1>7 DEF FramesBecome, Frames

(* The elements of a sequence.                                             *)
Elems(q) == {q[i] : i \in DOMAIN q}

LEMMA ElemsGrow ==
  ASSUME NEW S, NEW q \in Seq(S), NEW e \in S
  PROVE  \A x : /\ x \in Elems(Append(q, e)) <=> x \in Elems(q) \/ x = e
                /\ x \in Elems(<<e>> \o q) <=> x \in Elems(q) \/ x = e
<1>1. PICK n \in Nat : n = Len(q) /\ DOMAIN q = 1 .. n
  BY LenProperties
<1>2. PICK u : u = Append(q, e)
  OBVIOUS
<1>3. /\ DOMAIN u = 1 .. n + 1 /\ u[n + 1] = e
      /\ \A i \in 1 .. n : u[i] = q[i]
  BY <1>1, <1>2, AppendProperties, LenProperties
<1>4. /\ \A i \in 1 .. n + 1 : i \in 1 .. n \/ i = n + 1
      /\ \A i \in 1 .. n : i \in 1 .. n + 1 /\ i + 1 \in 1 .. n + 1
      /\ n + 1 \in 1 .. n + 1
  OBVIOUS
<1>5. \A x : x \in Elems(u) <=> x \in Elems(q) \/ x = e
  BY <1>1, <1>3, <1>4 DEF Elems
<1>6. PICK v : v = <<e>> \o q
  OBVIOUS
<1>7. v \in Seq(S) /\ v # <<>> /\ Head(v) = e /\ Tail(v) = q
  BY <1>6, ConsFacts
<1>8. Len(q) = Len(v) - 1 /\ \A i \in 1 .. Len(q) : q[i] = v[i + 1]
  BY <1>7, HeadTailProperties
<1>9. DOMAIN v = 1 .. n + 1 /\ v[1] = e
  <2>1. Len(v) \in Nat /\ DOMAIN v = 1 .. Len(v) /\ Len(v) = n + 1
    BY <1>1, <1>7, <1>8, LenProperties
  <2> QED BY <1>7, <2>1
<1>10. \A i \in 1 .. n : v[i + 1] = q[i]
  BY <1>1, <1>8
<1>11. /\ \A i \in 1 .. n + 1 : i = 1 \/ (i - 1 \in 1 .. n /\ (i - 1) + 1 = i)
       /\ 1 \in 1 .. n + 1
  OBVIOUS
<1>12. \A x : x \in Elems(v) <=> x \in Elems(q) \/ x = e
  <2>1. Elems(v) = {v[i] : i \in 1 .. n + 1} /\ Elems(q) = {q[i] : i \in 1 .. n}
    BY <1>1, <1>9 DEF Elems
  <2>2. ASSUME NEW i \in 1 .. n + 1 PROVE v[i] \in Elems(q) \cup {e}
    <3>1. CASE i = 1
      BY <1>9, <3>1
    <3>2. CASE i - 1 \in 1 .. n /\ (i - 1) + 1 = i
      <4>1. v[i] = q[i - 1]
        BY <1>10, <3>2
      <4> QED BY <2>1, <3>2, <4>1
    <3> QED BY <1>11, <3>1, <3>2
  <2>3. e \in Elems(v)
    BY <1>9, <1>11, <2>1
  <2>4. ASSUME NEW i \in 1 .. n PROVE q[i] \in Elems(v)
    BY <1>4, <1>10, <2>1
  <2> QED BY <2>1, <2>2, <2>3, <2>4
<1> QED BY <1>2, <1>5, <1>6, <1>12

LEMMA ElemsHead ==
  ASSUME NEW S, NEW q \in Seq(S), q # <<>>
  PROVE  /\ Head(q) \in S /\ Tail(q) \in Seq(S)
         /\ q = <<Head(q)>> \o Tail(q)
         /\ \A x : x \in Elems(q) <=> x \in Elems(Tail(q)) \/ x = Head(q)
<1>1. Head(q) \in S /\ Tail(q) \in Seq(S)
  BY HeadTailProperties
<1>2. q = <<Head(q)>> \o Tail(q)
  BY HeadTailProperties
<1>3. PICK e \in S : e = Head(q)
  BY <1>1
<1>4. PICK u \in Seq(S) : u = Tail(q)
  BY <1>1
<1>5. \A x : x \in Elems(<<e>> \o u) <=> x \in Elems(u) \/ x = e
  BY ElemsGrow
<1> QED BY <1>1, <1>2, <1>3, <1>4, <1>5

-----------------------------------------------------------------------------
(* The state of Executor, and how it changes.                              *)

Queues == [l \in Loops |-> [p \in Priorities |-> Waiting(l, p)]]
Runnings == [l \in Loops |-> Executing(l)]
HandSet == UNION {Hand(Frames(t)) : t \in Threads}
WaitSet ==
  {w \in Works : \E l \in Loops, p \in Priorities : w \in Elems(Queues[l][p])}

QueueBecomes(l, p, q) == Queues' = [Queues EXCEPT ![l][p] = q]
RunBecomes(l, r) == Runnings' = [Runnings EXCEPT ![l] = r]

LEMMA Views ==
  /\ \A l \in Loops, p \in Priorities :
       /\ Queues[l][p] = Shown(highPri[l], events[l], p)
       /\ Queues'[l][p] = Shown(highPri'[l], events'[l], p)
  /\ \A l \in Loops : /\ Runnings[l] = Run(Frames(l))
                      /\ Runnings'[l] = Run(Frames(l)')
BY DEF Queues, Runnings, Waiting, Shown, Ids, Executing, Run, ArgIds

(* What has returned is what was handed over, is in no thread's hand and   *)
(* waits nowhere.                                                          *)
LEMMA ReturnedIs ==
  /\ Returned = ((used \cap Works) \ HandSet) \ WaitSet
  /\ Returned' = ((used' \cap Works) \ HandSet') \ WaitSet'
<1>1. \A w \in Works : InHand(w) <=> w \in HandSet
  BY DEF InHand, HandSet, Hand, Holds, HandLabels
<1>2. \A w \in Works : InHand(w)' <=> w \in HandSet'
  BY DEF InHand, HandSet, Hand, Holds, HandLabels
<1>3. ASSUME NEW w \in Works PROVE Pending(w) <=> w \in WaitSet
  BY DEF Pending, WaitSet, Queues, Elems
<1>4. ASSUME NEW w \in Works PROVE Pending(w)' <=> w \in WaitSet'
  BY DEF Pending, WaitSet, Queues, Elems
<1>5. Returned = ((used \cap Works) \ HandSet) \ WaitSet
  BY <1>1, <1>3 DEF Returned
<1>6. Returned' = ((used' \cap Works) \ HandSet') \ WaitSet'
  BY <1>2, <1>4 DEF Returned
<1> QED BY <1>5, <1>6

(* t's frames become s.                                                    *)
LEMMA HandsMove ==
  ASSUME NEW t \in Threads, NEW s, FramesBecome(t, s)
  PROVE  /\ Hand(s) = Hand(Frames(t)) => HandSet' = HandSet
         /\ \A w : /\ Hand(s) = Hand(Frames(t)) \cup {w} => HandSet' = HandSet \cup {w}
                   /\ /\ Hand(Frames(t)) = Hand(s) \cup {w} /\ w \notin Hand(s)
                      /\ \A x \in Threads \ {t} : w \notin Hand(Frames(x))
                      => HandSet = HandSet' \cup {w} /\ w \notin HandSet'
<1> DEFINE Others == UNION {Hand(Frames(x)) : x \in Threads \ {t}}
<1>1. HandSet = Hand(Frames(t)) \cup Others
  BY DEF HandSet
<1>2. HandSet' = Hand(s) \cup Others
  <2>1. HandSet' = UNION {Hand(Frames(x)') : x \in Threads}
    BY DEF HandSet, Hand
  <2>2. Frames(t)' = s /\ \A x \in Threads \ {t} : Frames(x)' = Frames(x)
    BY DEF FramesBecome
  <2> QED BY <2>1, <2>2
<1> HIDE DEF Others
<1>3. \A w : (\A x \in Threads \ {t} : w \notin Hand(Frames(x))) => w \notin Others
  BY DEF Others
<1> QED BY <1>1, <1>2, <1>3

LEMMA RunsMove ==
  ASSUME NEW t \in Threads, NEW s, FramesBecome(t, s)
  PROVE  /\ Run(s) = Run(Frames(t)) => Runnings' = Runnings
         /\ t \in Loops => RunBecomes(t, Run(s))
<1>1. \A l \in Loops : l \in Threads
  BY DEF Threads
<1>2. \A l \in Loops \ {t} : Runnings'[l] = Runnings[l]
  BY <1>1, Views DEF FramesBecome
<1>3. t \in Loops => Runnings'[t] = Run(s) /\ Runnings[t] = Run(Frames(t))
  BY Views DEF FramesBecome
<1>4. /\ Runnings = [l \in Loops |-> Runnings[l]]
      /\ Runnings' = [l \in Loops |-> Runnings'[l]]
  BY DEF Runnings
<1> QED BY <1>2, <1>3, <1>4 DEF RunBecomes

(* One queue changes.                                                      *)
OneShown(l, p, q) ==
  /\ \A m \in Loops \ {l} : highPri'[m] = highPri[m] /\ events'[m] = events[m]
  /\ \A r \in Priorities :
       Shown(highPri'[l], events'[l], r)
         = IF r = p THEN q ELSE Shown(highPri[l], events[l], r)

LEMMA QueueMoves ==
  ASSUME NEW l \in Loops, NEW p \in Priorities, NEW q, OneShown(l, p, q)
  PROVE  /\ QueueBecomes(l, p, q)
         /\ \A w \in Works :
              /\ (\A x : x \in Elems(q) <=> x \in Elems(Queues[l][p]) \/ x = w)
                   => WaitSet' = WaitSet \cup {w}
              /\ (\A x : x \in Elems(Queues[l][p]) <=> x \in Elems(q) \/ x = w)
                   => WaitSet = WaitSet' \cup {w}
<1>1. \A m \in Loops, r \in Priorities :
        Queues'[m][r] = IF m = l /\ r = p THEN q ELSE Queues[m][r]
  BY Views DEF OneShown
<1>2. /\ Queues = [m \in Loops |-> [r \in Priorities |-> Queues[m][r]]]
      /\ Queues' = [m \in Loops |-> [r \in Priorities |-> Queues'[m][r]]]
  BY DEF Queues
<1>3. QueueBecomes(l, p, q)
  <2>1. PICK A : A = Queues
    OBVIOUS
  <2>2. A = [m \in Loops |-> A[m]] /\ A[l] = [r \in Priorities |-> A[l][r]]
    BY <2>1 DEF Queues
  <2>3. \A m \in Loops \ {l} : Queues'[m] = A[m]
    BY <1>1, <2>1 DEF Queues
  <2>4. Queues'[l] = [A[l] EXCEPT ![p] = q]
    <3>1. \A r \in Priorities : Queues'[l][r] = IF r = p THEN q ELSE A[l][r]
      BY <1>1, <2>1
    <3>2. Queues'[l] = [r \in Priorities |-> Queues'[l][r]]
      BY DEF Queues
    <3> QED BY <2>2, <3>1, <3>2
  <2>5. Queues' = [m \in Loops |-> Queues'[m]]
    BY DEF Queues
  <2>6. Queues' = [A EXCEPT ![l] = [A[l] EXCEPT ![p] = q]]
    BY <2>2, <2>3, <2>4, <2>5
  <2> QED BY <2>1, <2>6 DEF QueueBecomes
<1>4. \A x \in Works :
        /\ x \in WaitSet <=>
             \E m \in Loops, r \in Priorities : x \in Elems(Queues[m][r])
        /\ x \in WaitSet' <=>
             \E m \in Loops, r \in Priorities : x \in Elems(Queues'[m][r])
  BY DEF WaitSet, Elems
<1> DEFINE Other(x, m, r) == ~(m = l /\ r = p) /\ x \in Elems(Queues[m][r])
<1>5. ASSUME NEW x \in Works
      PROVE  x \in WaitSet' <=> x \in Elems(q) \/ \E m \in Loops, r \in Priorities : Other(x, m, r)
  <2>1. Queues'[l][p] = q
    BY <1>1
  <2>2. ASSUME NEW m \in Loops, NEW r \in Priorities, ~(m = l /\ r = p)
        PROVE  Queues'[m][r] = Queues[m][r]
    BY <1>1, <2>2
  <2>3. ASSUME NEW m \in Loops, NEW r \in Priorities
        PROVE  x \in Elems(Queues'[m][r]) => x \in Elems(q) \/ Other(x, m, r)
    <3>1. CASE m = l /\ r = p
      BY <2>1, <3>1
    <3>2. CASE ~(m = l /\ r = p)
      BY <2>2, <3>2
    <3> QED BY <3>1, <3>2
  <2>4. ASSUME NEW m \in Loops, NEW r \in Priorities, Other(x, m, r)
        PROVE  x \in Elems(Queues'[m][r])
    BY <2>2, <2>4
  <2>5. x \in Elems(q) => x \in Elems(Queues'[l][p])
    BY <2>1
  <2> HIDE DEF Other
  <2> QED BY <1>4, <2>3, <2>4, <2>5
<1>6. ASSUME NEW x \in Works
      PROVE  x \in WaitSet <=> \/ x \in Elems(Queues[l][p])
                               \/ \E m \in Loops, r \in Priorities : Other(x, m, r)
  <2>1. ASSUME NEW m \in Loops, NEW r \in Priorities
        PROVE  /\ x \in Elems(Queues[m][r]) => x \in Elems(Queues[l][p]) \/ Other(x, m, r)
               /\ Other(x, m, r) => x \in Elems(Queues[m][r])
    <3>1. CASE m = l /\ r = p
      BY <3>1
    <3>2. CASE ~(m = l /\ r = p)
      BY <3>2
    <3> QED BY <3>1, <3>2
  <2> HIDE DEF Other
  <2> QED BY <1>4, <2>1
<1> HIDE DEF Other
<1>7. ASSUME NEW w \in Works,
             \A x : x \in Elems(q) <=> x \in Elems(Queues[l][p]) \/ x = w
      PROVE  WaitSet' = WaitSet \cup {w}
  BY <1>5, <1>6, <1>7 DEF WaitSet
<1>8. ASSUME NEW w \in Works,
             \A x : x \in Elems(Queues[l][p]) <=> x \in Elems(q) \/ x = w
      PROVE  WaitSet = WaitSet' \cup {w}
  BY <1>5, <1>6, <1>8 DEF WaitSet
<1> QED BY <1>3, <1>7, <1>8

LEMMA QueuesStay ==
  ASSUME \A l \in Loops, p \in Priorities :
           Shown(highPri'[l], events'[l], p) = Shown(highPri[l], events[l], p)
  PROVE  Queues' = Queues /\ WaitSet' = WaitSet
<1>1. \A l \in Loops, p \in Priorities : Queues'[l][p] = Queues[l][p]
  BY Views
<1>2. Queues' = Queues
  BY <1>1 DEF Queues
<1>3. WaitSet' = WaitSet
  BY <1>2 DEF WaitSet, Elems
<1> QED BY <1>2, <1>3

-----------------------------------------------------------------------------
(* Where a function is, OnceInv says.                                      *)

(* It waits in a queue.                                                    *)
LEMMA WaitPlace ==
  ASSUME TypeOK, NEW loc \in [Works -> Places], Located(loc), NEW w \in WaitSet
  PROVE  \E l \in Loops : loc[w] = <<"high", l, 0>> \/ loc[w] = <<"low", l, 0>>
<1>1. w \in Works
  BY DEF WaitSet
<1>2. PICK l \in Loops, p \in Priorities : w \in Elems(Queues[l][p])
  BY DEF WaitSet
<1>3. PICK h \in Seq(Task) : h = highPri[l]
  BY DEF TypeOK, DataOK
<1>4. PICK v \in Seq(Task) : v = events[l]
  BY DEF TypeOK, DataOK
<1>5. PICK i \in DOMAIN Shown(h, v, p) : Shown(h, v, p)[i] = w
  BY <1>2, <1>3, <1>4, Views DEF Elems
<1>6. /\ h \in Seq(TasksAt(loc, <<"high", l, 0>>))
      /\ v \in Seq(TasksAt(loc, <<"low", l, 0>>))
  BY <1>3, <1>4 DEF Located, QueuesAt
<1>7. ASSUME NEW S, NEW s \in Seq(S), NEW j \in DOMAIN s PROVE s[j] \in S
  BY LenProperties, ElementOfSeq
<1>8. CASE \E j \in DOMAIN h : h[j].id = w
  BY <1>1, <1>6, <1>7, <1>8 DEF TasksAt
<1>9. CASE \E j \in DOMAIN v : v[j].id = w
  BY <1>1, <1>6, <1>7, <1>9 DEF TasksAt
<1> QED BY <1>5, <1>8, <1>9, ShownElements

(* It is in the hand of a thread.                                          *)
LEMMA HandPlace ==
  ASSUME CallInv, NEW loc \in [Works -> Places], Located(loc),
         NEW t \in Threads, NEW w \in Works
  PROVE  /\ w \in HandOf(frame[t]) => loc[w] = <<"frame", t, Len(stack[t]) + 1>>
         /\ w \in Hand(stack[t]) =>
              \E i \in 1 .. Len(stack[t]) : loc[w] = <<"frame", t, i>>
         /\ Hand(Frames(t)) = Hand(stack[t]) \cup HandOf(frame[t])
<1>1. \A l \in HandLabels : l \in PlaceLabels
  BY DEF HandLabels, PlaceLabels
<1>2. w \in HandOf(frame[t]) => loc[w] = <<"frame", t, Len(stack[t]) + 1>>
  BY <1>1 DEF HandOf, Holds, Located, FramesAt, FrameAt
<1>3. w \in Hand(stack[t]) => \E i \in 1 .. Len(stack[t]) : loc[w] = <<"frame", t, i>>
  BY <1>1, StackFacts DEF Hand, Holds, Located, FramesAt, FrameAt
<1>4. Hand(Frames(t)) = Hand(stack[t]) \cup HandOf(frame[t])
  BY FrameFacts, StackFacts, RunAppend DEF Frames
<1> QED BY <1>2, <1>3, <1>4

(* A function in a thread's hand is in no other place.                     *)
LEMMA HeldOnce ==
  ASSUME TypeOK, CallInv, OnceInv, NEW t \in Threads, NEW w \in HandOf(frame[t])
  PROVE  /\ w \in used \cap Works /\ w \notin WaitSet /\ w \notin Hand(stack[t])
         /\ \A x \in Threads \ {t} : w \notin Hand(Frames(x))
<1>1. PICK loc \in [Works -> Places] : Located(loc)
  BY DEF OnceInv
<1>2. w \in Works
  BY DEF HandOf
<1>3. PICK n \in Nat : n = Len(stack[t])
  BY StackFacts
<1>4. loc[w] = <<"frame", t, n + 1>>
  BY <1>1, <1>2, <1>3, HandPlace
<1>5. w \in used
  BY <1>1, <1>2, <1>4, PlaceFacts DEF Located, UnseenAt
<1>6. w \notin WaitSet
  BY <1>1, <1>4, WaitPlace, PlaceFacts
<1>7. w \notin Hand(stack[t])
  <2>1. \A i \in 1 .. n : i # n + 1
    OBVIOUS
  <2> QED BY <1>1, <1>2, <1>3, <1>4, <2>1, HandPlace, PlaceFacts
<1>8. ASSUME NEW x \in Threads \ {t} PROVE w \notin Hand(Frames(x))
  BY <1>1, <1>2, <1>4, HandPlace, PlaceFacts
<1> QED BY <1>2, <1>5, <1>6, <1>7, <1>8

(* A function that has not been handed over is nowhere.                    *)
LEMMA UnusedNowhere ==
  ASSUME TypeOK, CallInv, OnceInv, NEW w \in Works \ used
  PROVE  w \notin WaitSet /\ w \notin HandSet
<1>1. PICK loc \in [Works -> Places] : Located(loc)
  BY DEF OnceInv
<1>2. loc[w] = Nowhere
  BY <1>1 DEF Located, UnseenAt
<1>3. w \notin WaitSet
  BY <1>1, <1>2, WaitPlace, PlaceFacts
<1>4. ASSUME NEW t \in Threads PROVE w \notin Hand(Frames(t))
  <2>1. \A i : loc[w] # <<"frame", t, i>>
    BY <1>2 DEF Nowhere
  <2> QED BY <1>1, <2>1, HandPlace
<1>5. w \notin HandSet
  BY <1>4 DEF HandSet
<1> QED BY <1>3, <1>5

(* What a loop is executing is in the hand of its thread.                  *)
LEMMA RunInHand ==
  ASSUME NEW s \in Seq(Frame), NEW w \in Elems(Run(s))
  PROVE  w \in Hand(s)
<1>1. PICK q : q = Kept(s, WorkFrames)
  OBVIOUS
<1>2. q \in Seq(WorkFrames)
  <2>1. Frame \cap WorkFrames = WorkFrames
    BY DEF WorkFrames
  <2> QED BY <1>1, <2>1, KeptType
<1>3. PICK i \in 1 .. Len(q) : q[i].arg.id = w
  BY <1>1, <1>2, LenProperties DEF Elems, Run, ArgIds
<1>4. q[i] \in WorkFrames
  BY <1>2, <1>3, ElementOfSeq
<1>5. PICK j \in 1 .. Len(s) : s[j] = q[i]
  BY <1>1, <1>3, KeptElements
<1>6. j \in DOMAIN s
  BY <1>5, LenProperties
<1> QED BY <1>3, <1>4, <1>5, <1>6 DEF Hand, Holds, HandLabels, WorkFrames

-----------------------------------------------------------------------------
(* Steps that Executor does not see.                                       *)

(* A frame without a function in it; frames that hold the same one.        *)
Idle(f) == f.at \in HandLabels => f.arg.id \notin Works
Alike(f, g) ==
  /\ HandOf(f) = HandOf(g)
  /\ f \in WorkFrames <=> g \in WorkFrames
  /\ f \in WorkFrames => f.arg.id = g.arg.id

Unseen == UNCHANGED <<Queues, Runnings, Returned>>

LEMMA RunFrames ==
  ASSUME NEW s \in Seq(Frame), NEW f \in Frame
  PROVE  /\ Idle(f) => Run(Append(s, f)) = Run(s) /\ Hand(Append(s, f)) = Hand(s)
         /\ \A g \in Frame : Alike(f, g) =>
              /\ Run(Append(s, f)) = Run(Append(s, g))
              /\ Hand(Append(s, f)) = Hand(Append(s, g))
<1>1. Idle(f) => f \notin WorkFrames /\ HandOf(f) = {}
  BY DEF Idle, WorkFrames, HandOf, Holds, HandLabels
<1>2. ASSUME Idle(f)
      PROVE  Run(Append(s, f)) = Run(s) /\ Hand(Append(s, f)) = Hand(s)
  BY <1>1, <1>2, RunAppend
<1>3. ASSUME NEW g \in Frame, Alike(f, g)
      PROVE  /\ Run(Append(s, f)) = Run(Append(s, g))
             /\ Hand(Append(s, f)) = Hand(Append(s, g))
  <2>1. PICK x : x = f.arg.id
    OBVIOUS
  <2>2. PICK y : y = Run(s)
    OBVIOUS
  <2>3. PICK z : z = Append(y, x)
    OBVIOUS
  <2>4. Run(Append(s, f)) = IF f \in WorkFrames THEN z ELSE y
    BY <2>1, <2>2, <2>3, RunAppend
  <2>5. Run(Append(s, g)) = IF g \in WorkFrames THEN Append(y, g.arg.id) ELSE y
    BY <2>2, RunAppend
  <2>6. f \in WorkFrames => Append(y, g.arg.id) = z
    BY <1>3, <2>1, <2>3 DEF Alike
  <2>7. Hand(Append(s, f)) = Hand(Append(s, g))
    BY <1>3, RunAppend DEF Alike
  <2> QED BY <1>3, <2>4, <2>5, <2>6, <2>7 DEF Alike
<1> QED BY <1>2, <1>3

LEMMA UnseenFrames ==
  ASSUME NEW t \in Threads, NEW s, FramesBecome(t, s),
         Run(s) = Run(Frames(t)), Hand(s) = Hand(Frames(t)),
         UNCHANGED <<highPri, events>>, used' \cap Works = used \cap Works
  PROVE  Unseen
<1>1. Queues' = Queues /\ WaitSet' = WaitSet
  BY QueuesStay
<1>2. HandSet' = HandSet
  BY HandsMove
<1>3. Runnings' = Runnings
  BY RunsMove
<1> QED BY <1>1, <1>2, <1>3, ReturnedIs DEF Unseen

LEMMA UnseenGoto ==
  ASSUME CallInv, NEW t \in Threads, NEW f \in Frame,
         Alike(frame[t], f), frame' = [frame EXCEPT ![t] = f], stack' = stack,
         UNCHANGED <<highPri, events>>, used' \cap Works = used \cap Works
  PROVE  Unseen
<1>1. stack[t] \in Seq(Frame) /\ frame[t] \in Frame
  BY StackFacts, FrameFacts
<1>2. PICK s : s = Append(stack[t], f)
  OBVIOUS
<1>3. FramesBecome(t, s)
  BY <1>2, GotoFrames
<1>4. Run(s) = Run(Frames(t)) /\ Hand(s) = Hand(Frames(t))
  BY <1>1, <1>2, RunFrames DEF Frames
<1> QED BY <1>3, <1>4, UnseenFrames

LEMMA UnseenCall ==
  ASSUME CallInv, NEW t \in Threads, NEW g \in Frame, NEW f \in Frame,
         Alike(frame[t], g), Idle(f), CallOver(t, <<g>>, f),
         UNCHANGED <<highPri, events>>, used' \cap Works = used \cap Works
  PROVE  Unseen
<1>1. stack[t] \in Seq(Frame) /\ frame[t] \in Frame
  BY StackFacts, FrameFacts
<1>2. PICK u : u = Append(stack[t], g)
  OBVIOUS
<1>3. u \in Seq(Frame) /\ u = stack[t] \o <<g>>
  BY <1>1, <1>2, AppendProperties, AppendIsConcat
<1>4. PICK s : s = Append(u, f)
  OBVIOUS
<1>5. FramesBecome(t, s)
  BY <1>3, <1>4, CallFrames
<1>6. Run(s) = Run(u) /\ Hand(s) = Hand(u)
  BY <1>3, <1>4, RunFrames
<1>7. Run(u) = Run(Frames(t)) /\ Hand(u) = Hand(Frames(t))
  BY <1>1, <1>2, RunFrames DEF Frames
<1> QED BY <1>5, <1>6, <1>7, UnseenFrames

LEMMA UnseenReturn ==
  ASSUME CallInv, NEW t \in Threads, stack[t] # <<>>, Idle(frame[t]), Return(t),
         UNCHANGED <<highPri, events>>, used' \cap Works = used \cap Works
  PROVE  Unseen
<1>1. stack[t] \in Seq(Frame) /\ frame[t] \in Frame
  BY StackFacts, FrameFacts
<1>2. FramesBecome(t, stack[t])
  BY ReturnFrames
<1>3. Run(stack[t]) = Run(Frames(t)) /\ Hand(stack[t]) = Hand(Frames(t))
  BY <1>1, RunFrames DEF Frames
<1> QED BY <1>2, <1>3, UnseenFrames

LEMMA UnseenDisconnect ==
  ASSUME CallInv, NEW t \in Threads, NEW l \in Loops, NEW r \in Connects,
         DisconnectFun(t, l, r),
         UNCHANGED <<highPri, events>>, used' = used
  PROVE  Unseen
<1> USE LoopAssumption
<1>1. PICK g : g = FrameOf("remove", l, TaskOf(r, "unbind"))
  OBVIOUS
<1>2. PICK m \in Loops :
        CallOver(t, <<frame[t], g>>, FrameOf("push", m, TaskOf(r, "unbind")))
  BY <1>1 DEF DisconnectFun
<1>3. PICK f : f = FrameOf("push", m, TaskOf(r, "unbind"))
  OBVIOUS
<1>4. g \in Frame /\ Idle(g)
  BY <1>1, TaskFacts DEF FrameOf, Frame, Labels, Idle, HandLabels
<1>5. f \in Frame /\ Idle(f)
  BY <1>3, TaskFacts DEF FrameOf, Frame, Labels, Idle, TaskOf
<1>6. stack[t] \in Seq(Frame) /\ frame[t] \in Frame
  BY StackFacts, FrameFacts
<1>7. PICK x : x = Frames(t)
  OBVIOUS
<1>8. x \in Seq(Frame) /\ x = stack[t] \o <<frame[t]>>
  BY <1>6, <1>7, AppendProperties, AppendIsConcat DEF Frames
<1>9. PICK y : y = Append(x, g)
  OBVIOUS
<1>10. y \in Seq(Frame) /\ y = x \o <<g>>
  BY <1>4, <1>8, <1>9, AppendProperties, AppendIsConcat
<1>11. y = stack[t] \o <<frame[t], g>>
  <2>1. <<frame[t]>> \in Seq(Frame) /\ <<g>> \in Seq(Frame)
    BY <1>4, <1>6
  <2>2. (stack[t] \o <<frame[t]>>) \o <<g>> = stack[t] \o (<<frame[t]>> \o <<g>>)
    BY <1>6, <2>1, ConcatAssociative
  <2>3. ASSUME NEW a \in Frame, NEW b \in Frame PROVE <<a>> \o <<b>> = <<a, b>>
    <3>1. PICK v : v = <<a>> \o <<b>>
      OBVIOUS
    <3>2. /\ <<a>> \in Seq(Frame) /\ Len(<<a>>) = 1 /\ <<a>>[1] = a
          /\ <<b>> \in Seq(Frame) /\ Len(<<b>>) = 1 /\ <<b>>[1] = b
      OBVIOUS
    <3>3. /\ v \in Seq(Frame) /\ Len(v) = 1 + 1
          /\ \A i \in 1 .. 1 + 1 : v[i] = IF i <= 1 THEN <<a>>[i] ELSE <<b>>[i - 1]
      BY <3>1, <3>2, ConcatProperties
    <3>4. Len(v) = 2 /\ v[1] = a /\ v[2] = b
      BY <3>2, <3>3
    <3>5. PICK z : z = <<a, b>>
      OBVIOUS
    <3>6. z \in Seq(Frame) /\ Len(z) = 2 /\ z[1] = a /\ z[2] = b
      BY <3>5
    <3>7. \A i \in 1 .. 2 : v[i] = z[i]
      BY <3>4, <3>6
    <3>8. v = z
      BY <3>3, <3>4, <3>6, <3>7, SeqEqual
    <3> QED BY <3>1, <3>5, <3>8
  <2>4. <<frame[t]>> \o <<g>> = <<frame[t], g>>
    BY <1>4, <1>6, <2>3
  <2> QED BY <1>8, <1>10, <2>2, <2>4
<1>12. PICK s : s = Append(y, f)
  OBVIOUS
<1>13. FramesBecome(t, s)
  BY <1>2, <1>3, <1>11, <1>12, CallFrames
<1>14. Run(s) = Run(y) /\ Hand(s) = Hand(y)
  BY <1>5, <1>10, <1>12, RunFrames
<1>15. Run(y) = Run(x) /\ Hand(y) = Hand(x)
  BY <1>4, <1>8, <1>9, RunFrames
<1> QED BY <1>7, <1>13, <1>14, <1>15, UnseenFrames

(* A function is handed over: the caller has it in its hand.               *)
LEMMA Enters ==
  ASSUME TypeOK, CallInv, OnceInv, NEW t \in Threads, NEW label, NEW l \in Loops,
         NEW e \in Task, e.id \in Works, label \in {"push", "process"},
         Submit(t, label, l, e)
  PROVE  Unseen
<1>1. PICK f : f = FrameOf(label, l, e)
  OBVIOUS
<1>2. f \in Frame /\ f \notin WorkFrames /\ HandOf(f) = {e.id}
  BY <1>1 DEF FrameOf, Frame, Labels, WorkFrames, HandOf, Holds, HandLabels
<1>3. stack[t] \in Seq(Frame) /\ frame[t] \in Frame
  BY StackFacts, FrameFacts
<1>4. PICK u : u = Frames(t)
  OBVIOUS
<1>5. u \in Seq(Frame) /\ u = stack[t] \o <<frame[t]>>
  BY <1>3, <1>4, AppendProperties, AppendIsConcat DEF Frames
<1>6. PICK s : s = Append(u, f)
  OBVIOUS
<1>7. FramesBecome(t, s)
  BY <1>1, <1>5, <1>6, CallFrames DEF Submit, Call
<1>8. Run(s) = Run(u) /\ Hand(s) = Hand(u) \cup {e.id}
  BY <1>2, <1>5, <1>6, RunAppend
<1>9. HandSet' = HandSet \cup {e.id} /\ Runnings' = Runnings
  BY <1>4, <1>7, <1>8, HandsMove, RunsMove
<1>10. Queues' = Queues /\ WaitSet' = WaitSet
  BY QueuesStay DEF Submit, queueVars
<1>11. used' = used \cup {e.id} /\ e.id \in Works \ used
  BY DEF Submit
<1>12. Returned' = Returned
  BY <1>9, <1>10, <1>11, ReturnedIs
<1> QED BY <1>9, <1>10, <1>12 DEF Unseen

-----------------------------------------------------------------------------
(* Steps that Executor sees.                                               *)

(* A function in a thread's hand that the thread is not executing is fresh.*)
LEMMA FreshInHand ==
  ASSUME TypeOK, CallInv, OnceInv, NEW t \in Threads, NEW w \in HandOf(frame[t]),
         frame[t] \notin WorkFrames
  PROVE  Abstract!Fresh(w)
<1>1. /\ w \in used \cap Works /\ w \notin WaitSet /\ w \notin Hand(stack[t])
      /\ \A x \in Threads \ {t} : w \notin Hand(Frames(x))
  BY HeldOnce
<1>2. stack[t] \in Seq(Frame) /\ frame[t] \in Frame
  BY StackFacts, FrameFacts
<1>3. Run(Frames(t)) = Run(stack[t]) /\ w \in Hand(Frames(t))
  BY <1>2, RunAppend DEF Frames
<1>4. w \notin Returned
  <2>1. w \in HandSet
    BY <1>3 DEF HandSet
  <2> QED BY <2>1, ReturnedIs
<1>5. ASSUME NEW m \in Loops PROVE w \notin Elems(Executing(m))
  <2>1. m \in Threads /\ Executing(m) = Run(Frames(m))
    BY Views DEF Threads, Runnings
  <2>2. CASE m = t
    BY <1>1, <1>2, <1>3, <2>1, <2>2, RunInHand
  <2>3. CASE m # t
    <3>1. stack[m] \in Seq(Frame) /\ frame[m] \in Frame
      BY <2>1, StackFacts, FrameFacts
    <3>2. Frames(m) \in Seq(Frame)
      BY <3>1, AppendProperties DEF Frames
    <3> QED BY <1>1, <2>1, <2>3, <3>2, RunInHand
  <2> QED BY <2>2, <2>3
<1>6. ASSUME NEW m \in Loops, NEW p \in Priorities PROVE w \notin Elems(Waiting(m, p))
  BY <1>1 DEF WaitSet, Queues
<1> QED BY <1>4, <1>5, <1>6 DEF Abstract!Fresh, Abstract!InSeq, Elems

(* One task is put where it belongs.                                       *)
PutBy(h, v, h2, v2, e) ==
  \/ h2 = Append(h, e) /\ v2 = v /\ e.pri = HighPriority
  \/ /\ h2 = h /\ e.pri # HighPriority
     /\ \E k \in 0 .. Len(v) : IsUpperBound(v, k, e.pri) /\ v2 = Emplace(v, k, e)

Grown(h, v, h2, v2, r, e) ==
  Shown(h2, v2, r)
    = IF e \in WorksOf[r] THEN Append(Shown(h, v, r), e.id) ELSE Shown(h, v, r)

LEMMA ShownPut ==
  ASSUME NEW h \in Seq(Task), NEW v \in Seq(Task), NEW r \in Priorities,
         NEW e \in Task, QueueOrder(h, v), NEW h2, NEW v2, PutBy(h, v, h2, v2, e)
  PROVE  Grown(h, v, h2, v2, r, e)
<1>1. CASE h2 = Append(h, e) /\ v2 = v /\ e.pri = HighPriority
  <2>1. \A i \in DOMAIN v : v[i].pri # e.pri
    BY <1>1 DEF QueueOrder
  <2>2. Shown(Append(h, e), v, r)
          = IF e \in WorksOf[r] THEN Append(Shown(h, v, r), e.id) ELSE Shown(h, v, r)
    BY <2>1, ShownPutHigh
  <2> QED BY <1>1, <2>2 DEF Grown
<1>2. ASSUME NEW k \in 0 .. Len(v), IsUpperBound(v, k, e.pri), h2 = h,
             v2 = Emplace(v, k, e)
      PROVE  Grown(h, v, h2, v2, r, e)
  <2>1. ASSUME NEW i \in k + 1 .. Len(v) PROVE v[i].pri # e.pri
    <3>1. i \in 1 .. Len(v)
      BY LenProperties
    <3>2. v[i] \in Task
      BY <3>1, ElementOfSeq
    <3>3. v[i].pri \in Nat /\ e.pri \in Nat
      BY <3>2, LoopAssumption DEF Task
    <3>4. v[i].pri > e.pri
      BY <1>2 DEF IsUpperBound
    <3> QED BY <3>3, <3>4
  <2>2. Shown(h, Emplace(v, k, e), r)
          = IF e \in WorksOf[r] THEN Append(Shown(h, v, r), e.id) ELSE Shown(h, v, r)
    BY <2>1, ShownPutLow
  <2> QED BY <1>2, <2>2 DEF Grown
<1> QED BY <1>1, <1>2 DEF PutBy

(* A thread puts its function into a queue.                                *)
LEMMA Puts ==
  ASSUME TypeOK, CallInv, CallInv', OnceInv, OrderInv, NEW t \in Threads, Push(t)
  PROVE  Unseen \/ Abstract!Next
<1>1. PICK f \in Frame : f = frame[t] /\ f.at = "push"
  BY FrameFacts DEF Push, At
<1>2. PICK l \in Loops : l = f.loop /\ l = On(t)
  BY <1>1 DEF Frame, On
<1>3. PICK e \in Task : e = f.arg /\ e = Arg(t)
  BY <1>1 DEF Frame, Arg
<1>4. PICK h \in Seq(Task) : h = highPri[l]
  BY DEF TypeOK, DataOK
<1>5. PICK v \in Seq(Task) : v = events[l]
  BY DEF TypeOK, DataOK
<1>6. stack[t] \in Seq(Frame)
  BY StackFacts
<1>7. PICK g \in Frame : /\ g.at = "post" /\ stack' = stack
                         /\ frame' = [frame EXCEPT ![t] = g]
  <2>1. frame' = [frame EXCEPT ![t] = [frame[t] EXCEPT !.at = "post"]] /\ stack' = stack
    BY DEF Push, Goto
  <2>2. [frame[t] EXCEPT !.at = "post"] \in Frame
    BY FrameFacts DEF Frame, Labels
  <2>3. [frame[t] EXCEPT !.at = "post"].at = "post"
    BY FrameFacts DEF Frame
  <2> QED BY <2>1, <2>2, <2>3
<1>8. PICK s : s = Append(stack[t], g)
  OBVIOUS
<1>9. FramesBecome(t, s)
  BY <1>7, <1>8, GotoFrames
<1>10. /\ Run(s) = Run(stack[t]) /\ Hand(s) = Hand(stack[t])
       /\ Run(Frames(t)) = Run(stack[t])
       /\ Hand(Frames(t)) = Hand(stack[t]) \cup HandOf(f)
  <2>1. Idle(g)
    BY <1>7 DEF Idle, HandLabels
  <2>2. f \notin WorkFrames
    BY <1>1 DEF WorkFrames
  <2> QED BY <1>1, <1>6, <1>8, <2>1, <2>2, RunFrames, RunAppend DEF Frames
<1>11. Runnings' = Runnings
  BY <1>9, <1>10, RunsMove
<1>12. \A m \in Loops \ {l} : highPri'[m] = highPri[m] /\ events'[m] = events[m]
  BY <1>2 DEF Push, PushHigh, PushLow, TypeOK, DataOK
<1>13. ASSUME NEW r \in Priorities
       PROVE  Shown(highPri'[l], events'[l], r)
                = IF e \in WorksOf[r] THEN Append(Shown(h, v, r), e.id) ELSE Shown(h, v, r)
  <2>1. QueueOrder(h, v)
    BY <1>4, <1>5 DEF OrderInv
  <2>2. PutBy(h, v, highPri'[l], events'[l], e)
    <3>1. CASE PushHigh(l, e)
      BY <1>4, <1>5, <3>1 DEF PushHigh, PutBy, TypeOK, DataOK
    <3>2. CASE PushLow(l, e)
      BY <1>4, <1>5, <3>2 DEF PushLow, PutBy, TypeOK, DataOK
    <3> QED BY <1>2, <1>3, <3>1, <3>2 DEF Push
  <2>3. PICK h2 : h2 = highPri'[l]
    OBVIOUS
  <2>4. PICK v2 : v2 = events'[l]
    OBVIOUS
  <2>5. PutBy(h, v, h2, v2, e)
    BY <2>2, <2>3, <2>4
  <2>6. Grown(h, v, h2, v2, r, e)
    BY <2>1, <2>5, ShownPut
  <2> QED BY <2>3, <2>4, <2>6 DEF Grown
<1>14. used' = used
  BY DEF Push, userVars
<1>15. CASE e.id \notin Works
  <2>1. \A r \in Priorities : e \notin WorksOf[r]
    BY <1>15 DEF WorksOf
  <2>2. \A m \in Loops, r \in Priorities :
          Shown(highPri'[m], events'[m], r) = Shown(highPri[m], events[m], r)
    BY <1>4, <1>5, <1>12, <1>13, <2>1
  <2>3. Queues' = Queues /\ WaitSet' = WaitSet
    BY <2>2, QueuesStay
  <2>4. HandOf(f) = {}
    BY <1>3, <1>15 DEF HandOf, Holds
  <2>5. HandSet' = HandSet
    BY <1>9, <1>10, <2>4, HandsMove
  <2> QED BY <1>11, <1>14, <2>3, <2>5, ReturnedIs DEF Unseen
<1>16. CASE e.id \in Works
  <2>1. PICK w \in Works : w = e.id
    BY <1>16
  <2>2. PICK p \in Priorities : p = e.pri
    BY DEF Task
  <2>3. \A r \in Priorities : e \in WorksOf[r] <=> r = p
    BY <1>16, <2>2 DEF WorksOf
  <2>4. PICK q : q = Append(Shown(h, v, p), w)
    OBVIOUS
  <2>5. \A r \in Priorities :
          Shown(highPri'[l], events'[l], r)
            = IF r = p THEN q ELSE Shown(highPri[l], events[l], r)
    BY <1>4, <1>5, <1>13, <2>1, <2>3, <2>4
  <2>6. Queues[l][p] = Shown(h, v, p) /\ Shown(h, v, p) \in Seq(Works)
    BY <1>4, <1>5, Views, ShownTypes
  <2>7. \A x : x \in Elems(q) <=> x \in Elems(Queues[l][p]) \/ x = w
    BY <2>1, <2>4, <2>6, ElemsGrow
  <2>8. QueueBecomes(l, p, q) /\ WaitSet' = WaitSet \cup {w}
    <3>1. OneShown(l, p, q)
      BY <1>12, <2>5 DEF OneShown
    <3>2. QueueBecomes(l, p, q)
      BY <3>1, QueueMoves
    <3> QED BY <2>7, <3>1, <3>2, QueueMoves
  <2>9. HandOf(f) = {w}
    BY <1>1, <1>3, <2>1 DEF HandOf, Holds, HandLabels
  <2>10. /\ w \in used /\ w \notin WaitSet /\ w \notin Hand(stack[t])
         /\ \A x \in Threads \ {t} : w \notin Hand(Frames(x))
    BY <1>1, <2>9, HeldOnce
  <2>11. HandSet = HandSet' \cup {w} /\ w \notin HandSet'
    BY <1>9, <1>10, <2>9, <2>10, HandsMove
  <2>12. Returned' = Returned
    BY <1>14, <2>8, <2>10, <2>11, ReturnedIs
  <2>13. Abstract!Fresh(w)
    <3>1. f \notin WorkFrames
      BY <1>1 DEF WorkFrames
    <3> QED BY <1>1, <2>9, <3>1, FreshInHand
  <2>14. Queues' = [Queues EXCEPT ![l][p] = Append(@, w)]
    BY <2>4, <2>6, <2>8 DEF QueueBecomes
  <2>15. Abstract!Submit(l, w, p)
    BY <1>11, <2>12, <2>13, <2>14 DEF Abstract!Submit, Queues, Runnings
  <2> QED BY <2>15 DEF Abstract!Next
<1> QED BY <1>15, <1>16

(* One task is taken from where it is first.                               *)
TakeBy(h, v, h2, v2, e) ==
  \/ h # <<>> /\ e = Head(h) /\ h2 = Tail(h) /\ v2 = v
  \/ v # <<>> /\ e = Head(v) /\ v2 = Tail(v) /\ h2 = h

Shrunk(h, v, h2, v2, r, e) ==
  Shown(h, v, r)
    = IF e \in WorksOf[r] THEN <<e.id>> \o Shown(h2, v2, r) ELSE Shown(h2, v2, r)

LEMMA ShownTake ==
  ASSUME NEW h \in Seq(Task), NEW v \in Seq(Task), QueueOrder(h, v),
         NEW h2, NEW v2, NEW e, TakeBy(h, v, h2, v2, e)
  PROVE  /\ e \in Task /\ h2 \in Seq(Task) /\ v2 \in Seq(Task)
         /\ \A r \in Priorities : Shrunk(h, v, h2, v2, r, e)
         /\ \A r \in Priorities : 0 < r /\ r < e.pri => Shown(h, v, r) = <<>>
<1> USE LoopAssumption
<1>1. CASE h # <<>> /\ e = Head(h) /\ h2 = Tail(h) /\ v2 = v
  <2>1. e \in Task /\ h2 \in Seq(Task)
    BY <1>1, HeadTailProperties
  <2>2. e = h[1] /\ 1 \in DOMAIN h
    BY <1>1, EmptySeq, LenProperties
  <2>3. e.pri = 0
    BY <2>2 DEF QueueOrder, HighPriority
  <2>4. ASSUME NEW r \in Priorities PROVE Shrunk(h, v, h2, v2, r, e)
    BY <1>1, ShownTakeHigh DEF Shrunk
  <2>5. \A r \in Priorities : ~(0 < r /\ r < e.pri)
    BY <2>3
  <2> QED BY <1>1, <2>1, <2>4, <2>5
<1>2. CASE v # <<>> /\ e = Head(v) /\ v2 = Tail(v) /\ h2 = h
  <2>1. e \in Task /\ v2 \in Seq(Task)
    BY <1>2, HeadTailProperties
  <2>2. e = v[1] /\ 1 \in DOMAIN v
    BY <1>2, EmptySeq, LenProperties
  <2>3. e.pri # 0 /\ \A i \in DOMAIN h : h[i].pri = 0
    BY <2>2 DEF QueueOrder, HighPriority
  <2>4. \A i \in DOMAIN h : h[i].pri # Head(v).pri
    BY <1>2, <2>3
  <2>5. ASSUME NEW r \in Priorities PROVE Shrunk(h, v, h2, v2, r, e)
    BY <1>2, <2>4, ShownTakeLow DEF Shrunk
  <2>6. ASSUME NEW r \in Priorities, 0 < r, r < e.pri PROVE Shown(h, v, r) = <<>>
    <3>1. \A i \in DOMAIN h : h[i].pri # r
      BY <2>3, <2>6
    <3>2. ASSUME NEW i \in DOMAIN v PROVE v[i].pri # r
      <4>1. i \in 1 .. Len(v)
        BY LenProperties
      <4>2. v[i] \in Task
        BY <4>1, ElementOfSeq
      <4>3. v[i].pri \in Nat /\ e.pri \in Nat /\ r \in Nat
        BY <2>1, <4>2 DEF Task
      <4>4. e.pri <= v[i].pri
        BY <2>2, <4>1 DEF QueueOrder, Sorted
      <4> QED BY <2>6, <4>3, <4>4
    <3>3. Kept(h, WorksOf[r]) = <<>> /\ Kept(v, WorksOf[r]) = <<>>
      BY <3>1, <3>2, KeptNone
    <3>4. Kept(h \o v, WorksOf[r]) = <<>> \o <<>>
      BY <3>3, ShownTypes
    <3>5. <<>> \o <<>> = <<>>
      OBVIOUS
    <3>6. Kept(h \o v, WorksOf[r]) = <<>>
      BY <3>4, <3>5
    <3>7. DOMAIN <<>> = {}
      BY EmptySeq, LenProperties
    <3>8. Ids(<<>>) = <<>>
      BY <3>7 DEF Ids
    <3> QED BY <3>6, <3>8 DEF Shown
  <2> QED BY <1>2, <2>1, <2>5, <2>6
<1> QED BY <1>1, <1>2 DEF TakeBy

(* The thread of a loop takes a function out of its queues.                *)
LEMMA Takes ==
  ASSUME Disciplined, TypeOK, CallInv, CallInv', OnceInv, OrderInv,
         NEW l \in Loops, frame[l].at \in {"pop", "low"}, NEW e, Execute(l, e),
         TakeBy(highPri[l], events[l], highPri'[l], events'[l], e),
         \A m \in Loops \ {l} : highPri'[m] = highPri[m] /\ events'[m] = events[m],
         stack' = stack, used' = used
  PROVE  Unseen \/ Abstract!Next
<1>1. l \in Threads
  BY DEF Threads
<1>2. PICK h \in Seq(Task) : h = highPri[l]
  BY DEF TypeOK, DataOK
<1>3. PICK v \in Seq(Task) : v = events[l]
  BY DEF TypeOK, DataOK
<1>4. PICK h2 : h2 = highPri'[l]
  OBVIOUS
<1>5. PICK v2 : v2 = events'[l]
  OBVIOUS
<1>6. QueueOrder(h, v) /\ TakeBy(h, v, h2, v2, e)
  BY <1>2, <1>3, <1>4, <1>5 DEF OrderInv
<1>7. /\ e \in Task /\ h2 \in Seq(Task) /\ v2 \in Seq(Task)
      /\ \A r \in Priorities : Shrunk(h, v, h2, v2, r, e)
      /\ \A r \in Priorities : 0 < r /\ r < e.pri => Shown(h, v, r) = <<>>
  BY <1>6, ShownTake
<1>8. stack[l] \in Seq(Frame) /\ frame[l] \in Frame
  BY <1>1, StackFacts, FrameFacts
<1>9. PICK g \in Frame : /\ g.at = "exec" /\ g.arg = e
                         /\ frame' = [frame EXCEPT ![l] = g]
  <2>1. frame' = [frame EXCEPT ![l] = [frame[l] EXCEPT !.at = "exec", !.arg = e]]
    BY DEF Execute
  <2>2. [frame[l] EXCEPT !.at = "exec", !.arg = e] \in Frame
    BY <1>7, <1>8 DEF Frame, Labels, PumpLabels
  <2>3. /\ [frame[l] EXCEPT !.at = "exec", !.arg = e].at = "exec"
        /\ [frame[l] EXCEPT !.at = "exec", !.arg = e].arg = e
    BY <1>8 DEF Frame
  <2> QED BY <2>1, <2>2, <2>3
<1>10. PICK s : s = Append(stack[l], g)
  OBVIOUS
<1>11. FramesBecome(l, s)
  BY <1>1, <1>9, <1>10, GotoFrames
<1>12. Run(Frames(l)) = Run(stack[l]) /\ Hand(Frames(l)) = Hand(stack[l])
  <2>1. Idle(frame[l])
    BY DEF Idle, HandLabels
  <2> QED BY <1>8, <2>1, RunFrames DEF Frames
<1>13. CASE e.id \notin Works
  <2>1. \A r \in Priorities : e \notin WorksOf[r]
    BY <1>13 DEF WorksOf
  <2>2. \A r \in Priorities : Shown(h2, v2, r) = Shown(h, v, r)
    BY <1>7, <2>1 DEF Shrunk
  <2>3. \A m \in Loops, r \in Priorities :
          Shown(highPri'[m], events'[m], r) = Shown(highPri[m], events[m], r)
    BY <1>2, <1>3, <1>4, <1>5, <2>2
  <2>4. Queues' = Queues /\ WaitSet' = WaitSet
    BY <2>3, QueuesStay
  <2>5. Idle(g)
    BY <1>9, <1>13 DEF Idle
  <2>6. Run(s) = Run(Frames(l)) /\ Hand(s) = Hand(Frames(l))
    BY <1>8, <1>10, <1>12, <2>5, RunFrames
  <2>7. HandSet' = HandSet /\ Runnings' = Runnings
    BY <1>1, <1>11, <2>6, HandsMove, RunsMove
  <2> QED BY <2>4, <2>7, ReturnedIs DEF Unseen
<1>14. CASE e.id \in Works
  <2>1. PICK w \in Works : w = e.id
    BY <1>14
  <2>2. PICK p \in Priorities : p = e.pri
    BY <1>7 DEF Task
  <2>3. \A r \in Priorities : e \in WorksOf[r] <=> r = p
    BY <1>7, <1>14, <2>2 DEF WorksOf
  <2>4. PICK q \in Seq(Works) : q = Shown(h2, v2, p)
    BY <1>7, ShownTypes
  <2>5. Queues[l][p] = <<w>> \o q
    <3>1. Shrunk(h, v, h2, v2, p, e)
      BY <1>7
    <3>2. Shown(h, v, p) = <<e.id>> \o q
      BY <2>3, <2>4, <3>1 DEF Shrunk
    <3> QED BY <1>2, <1>3, <2>1, <3>2, Views
  <2>6. /\ Queues[l][p] # <<>>
        /\ Head(Queues[l][p]) = w /\ Tail(Queues[l][p]) = q
    BY <2>5, ConsFacts
  <2>7. \A x : x \in Elems(Queues[l][p]) <=> x \in Elems(q) \/ x = w
    <3>1. PICK u : u = <<w>> \o q
      OBVIOUS
    <3>2. \A x : x \in Elems(u) <=> x \in Elems(q) \/ x = w
      BY <3>1, ElemsGrow
    <3> QED BY <2>5, <3>1, <3>2
  <2>8. QueueBecomes(l, p, q) /\ WaitSet = WaitSet' \cup {w}
    <3>1. ASSUME NEW r \in Priorities
          PROVE  Shown(highPri'[l], events'[l], r)
                   = IF r = p THEN q ELSE Shown(highPri[l], events[l], r)
      <4>1. Shrunk(h, v, h2, v2, r, e)
        BY <1>7
      <4>2. r # p => Shown(h2, v2, r) = Shown(h, v, r)
        BY <2>3, <4>1 DEF Shrunk
      <4> QED BY <1>2, <1>3, <1>4, <1>5, <2>4, <4>2
    <3>2. OneShown(l, p, q)
      BY <3>1 DEF OneShown
    <3>3. QueueBecomes(l, p, q)
      BY <3>2, QueueMoves
    <3> QED BY <2>7, <3>2, <3>3, QueueMoves
  <2>9. g \in WorkFrames /\ HandOf(g) = {w}
    BY <1>9, <1>14, <2>1 DEF WorkFrames, HandOf, Holds, HandLabels
  <2>10. PICK r : r = Append(Run(Frames(l)), w)
    OBVIOUS
  <2>11. Run(s) = r /\ Hand(s) = Hand(Frames(l)) \cup {w}
    BY <1>8, <1>9, <1>10, <1>12, <2>1, <2>9, <2>10, RunAppend
  <2>12. HandSet' = HandSet \cup {w} /\ RunBecomes(l, r)
    BY <1>1, <1>11, <2>11, HandsMove, RunsMove
  <2>13. Returned' = Returned
    BY <2>8, <2>12, ReturnedIs
  <2>14. \A r0 \in Priorities : 0 < r0 /\ r0 < p => Queues[l][r0] = <<>>
    BY <1>2, <1>3, <1>7, <2>2, Views
  <2>15. Queues' = [Queues EXCEPT ![l][p] = Tail(@)]
    BY <2>6, <2>8 DEF QueueBecomes
  <2>16. Runnings' = [Runnings EXCEPT ![l] = Append(@, Head(Queues[l][p]))]
    BY <2>6, <2>10, <2>12, Views DEF RunBecomes
  <2>17. Abstract!Start(l, p)
    BY <2>6, <2>13, <2>14, <2>15, <2>16 DEF Abstract!Start, Queues, Runnings
  <2> QED BY <2>17 DEF Abstract!Next
<1> QED BY <1>13, <1>14

(* A thread moves on inside of a member function.                          *)
LEMMA UnseenLabel ==
  ASSUME CallInv, NEW t \in Threads, NEW label \in Labels \ {"add", "remove"},
         Goto(t, label), stack' = stack,
         \/ Idle(frame[t]) /\ (label \in HandLabels => Arg(t).id \notin Works)
         \/ frame[t].at = "process" /\ label = "begin",
         UNCHANGED <<highPri, events>>, used' = used
  PROVE  Unseen
<1>1. PICK f \in Frame : f = frame[t]
  BY FrameFacts
<1>2. PICK g \in Frame : g.at = label /\ g.arg = f.arg /\ g = [f EXCEPT !.at = label]
  <2>1. [f EXCEPT !.at = label] \in Frame
    BY DEF Frame
  <2> QED BY <2>1 DEF Frame
<1>3. frame' = [frame EXCEPT ![t] = g]
  BY <1>1, <1>2 DEF Goto
<1>4. Alike(f, g)
  <2>1. CASE Idle(f) /\ (label \in HandLabels => f.arg.id \notin Works)
    BY <1>2, <2>1 DEF Idle, Alike, HandOf, Holds, WorkFrames, HandLabels
  <2>2. CASE f.at = "process" /\ label = "begin"
    BY <1>2, <2>2 DEF Alike, HandOf, Holds, WorkFrames, HandLabels
  <2> QED BY <1>1, <2>1, <2>2 DEF Arg
<1> QED BY <1>1, <1>3, <1>4, UnseenGoto

LEMMA Starts ==
  ASSUME Disciplined, TypeOK, CallInv, CallInv', OnceInv, OrderInv,
         NEW t \in Threads, PopHigh(t) \/ PopLow(t)
  PROVE  Unseen \/ Abstract!Next
<1>1. frame[t].at \in {"pop", "low"}
  BY DEF PopHigh, PopLow, At
<1>2. t \in Loops /\ On(t) = t
  BY <1>1, FrameFacts DEF OwnLabels, PumpLabels
<1>3. /\ Idle(frame[t]) /\ stack[t] # <<>>
      /\ "low" \in Labels \ {"add", "remove"} /\ "low" \notin HandLabels
  BY <1>1, FrameFacts DEF Idle, HandLabels, BaseLabels, Labels, PumpLabels
<1>4. used' = used
  BY DEF PopHigh, PopLow, userVars
<1>5. CASE PopHigh(t)
  <2>1. CASE highPri[t] = <<>>
    <3>1. Goto(t, "low") /\ UNCHANGED <<highPri, events, stack>>
      BY <1>2, <1>5, <2>1 DEF PopHigh
    <3> QED BY <1>3, <1>4, <3>1, UnseenLabel
  <2>2. CASE highPri[t] # <<>>
    <3>1. PICK e : e = Head(highPri[t])
      OBVIOUS
    <3>2. /\ Execute(t, e) /\ highPri' = [highPri EXCEPT ![t] = Tail(@)]
          /\ events' = events /\ stack' = stack
      BY <1>2, <1>5, <2>2, <3>1 DEF PopHigh
    <3>3. TakeBy(highPri[t], events[t], highPri'[t], events'[t], e)
      BY <1>2, <2>2, <3>1, <3>2 DEF TakeBy, TypeOK, DataOK
    <3>4. \A m \in Loops \ {t} : highPri'[m] = highPri[m] /\ events'[m] = events[m]
      BY <3>2 DEF TypeOK, DataOK
    <3> QED BY <1>1, <1>2, <1>4, <3>2, <3>3, <3>4, Takes
  <2> QED BY <2>1, <2>2
<1>6. CASE PopLow(t)
  <2>1. CASE events[t] = <<>>
    <3>1. Return(t) /\ UNCHANGED <<highPri, events>>
      BY <1>2, <1>6, <2>1 DEF PopLow
    <3> QED BY <1>3, <1>4, <3>1, UnseenReturn
  <2>2. CASE events[t] # <<>>
    <3>1. PICK e : e = Head(events[t])
      OBVIOUS
    <3>2. /\ Execute(t, e) /\ events' = [events EXCEPT ![t] = Tail(@)]
          /\ highPri' = highPri /\ stack' = stack
      BY <1>2, <1>6, <2>2, <3>1 DEF PopLow
    <3>3. TakeBy(highPri[t], events[t], highPri'[t], events'[t], e)
      BY <1>2, <2>2, <3>1, <3>2 DEF TakeBy, TypeOK, DataOK
    <3>4. \A m \in Loops \ {t} : highPri'[m] = highPri[m] /\ events'[m] = events[m]
      BY <3>2 DEF TypeOK, DataOK
    <3> QED BY <1>1, <1>2, <1>4, <3>2, <3>3, <3>4, Takes
  <2> QED BY <2>1, <2>2
<1> QED BY <1>5, <1>6

(* workSync in the thread of the loop runs its function.                   *)
LEMMA Begins ==
  ASSUME Disciplined, TypeOK, CallInv, CallInv', OnceInv, NEW t \in Threads,
         BeginBody(t)
  PROVE  Unseen \/ Abstract!Next
<1>1. PICK f \in Frame : f = frame[t] /\ f.at = "begin"
  BY FrameFacts DEF BeginBody, At
<1>2. t \in Loops
  BY <1>1, FrameFacts DEF OwnLabels
<1>3. stack[t] \in Seq(Frame)
  BY StackFacts
<1>4. PICK g \in Frame : /\ g.at = "body" /\ g.arg = f.arg
                         /\ frame' = [frame EXCEPT ![t] = g]
  <2>1. frame' = [frame EXCEPT ![t] = [f EXCEPT !.at = "body"]]
    BY <1>1 DEF BeginBody, Goto
  <2>2. [f EXCEPT !.at = "body"] \in Frame
    BY DEF Frame, Labels
  <2> QED BY <2>1, <2>2 DEF Frame
<1>5. UNCHANGED <<highPri, events, used, stack>>
  BY DEF BeginBody, queueVars, userVars
<1>6. CASE f.arg.id \notin Works
  <2>1. Alike(f, g)
    BY <1>1, <1>4, <1>6 DEF Alike, HandOf, Holds, WorkFrames
  <2> QED BY <1>1, <1>4, <1>5, <2>1, UnseenGoto
<1>7. CASE f.arg.id \in Works
  <2>1. PICK w \in Works : w = f.arg.id
    BY <1>7
  <2>2. PICK s : s = Append(stack[t], g)
    OBVIOUS
  <2>3. FramesBecome(t, s)
    BY <1>4, <1>5, <2>2, GotoFrames
  <2>4. /\ f \notin WorkFrames /\ g \in WorkFrames
        /\ HandOf(f) = {w} /\ HandOf(g) = {w}
    BY <1>1, <1>4, <2>1 DEF WorkFrames, HandOf, Holds, HandLabels
  <2>5. PICK r : r = Append(Run(Frames(t)), w)
    OBVIOUS
  <2>6. Run(s) = r /\ Hand(s) = Hand(Frames(t))
    BY <1>1, <1>3, <1>4, <2>1, <2>2, <2>4, <2>5, RunAppend DEF Frames
  <2>7. HandSet' = HandSet /\ RunBecomes(t, r)
    BY <1>2, <2>3, <2>6, HandsMove, RunsMove
  <2>8. Queues' = Queues /\ WaitSet' = WaitSet
    BY <1>5, QueuesStay
  <2>9. Returned' = Returned
    BY <1>5, <2>7, <2>8, ReturnedIs
  <2>10. Abstract!Fresh(w)
    BY <1>1, <2>4, FreshInHand
  <2>11. Runnings' = [Runnings EXCEPT ![t] = Append(@, w)]
    BY <1>2, <2>5, <2>7, Views DEF RunBecomes
  <2>12. Abstract!RunNow(t, w)
    BY <2>8, <2>9, <2>10, <2>11 DEF Abstract!RunNow, Queues, Runnings
  <2> QED BY <1>2, <2>12 DEF Abstract!Next
<1> QED BY <1>6, <1>7

(* A function of a user has returned.                                      *)
LEMMA Leaves ==
  ASSUME TypeOK, CallInv, OnceInv, NEW t \in Threads, t \in Loops,
         frame[t] \in WorkFrames, NEW s, FramesBecome(t, s),
         Run(s) = Run(stack[t]), Hand(s) = Hand(stack[t]),
         UNCHANGED <<highPri, events, used>>
  PROVE  Abstract!Next
<1>1. PICK f \in Frame : f = frame[t]
  BY FrameFacts
<1>2. PICK w \in Works : w = f.arg.id
  BY <1>1 DEF WorkFrames
<1>3. stack[t] \in Seq(Frame)
  BY StackFacts
<1>4. PICK q \in Seq(Works) : q = Run(stack[t])
  BY <1>1, <1>3, RunAppend
<1>5. PICK r : r = Append(q, w)
  OBVIOUS
<1>6. /\ Run(Frames(t)) = r /\ HandOf(f) = {w}
      /\ Hand(Frames(t)) = Hand(stack[t]) \cup {w}
  <2>1. HandOf(f) = {w}
    BY <1>1, <1>2 DEF WorkFrames, HandOf, Holds, HandLabels
  <2> QED BY <1>1, <1>2, <1>3, <1>4, <1>5, <2>1, RunAppend DEF Frames
<1>7. Len(r) > 0 /\ r[Len(r)] = w /\ SubSeq(r, 1, Len(r) - 1) = q
  BY <1>4, <1>5, LastFacts
<1>8. /\ w \in used \cap Works /\ w \notin WaitSet /\ w \notin Hand(stack[t])
      /\ \A x \in Threads \ {t} : w \notin Hand(Frames(x))
  BY <1>1, <1>6, HeldOnce
<1>9. HandSet = HandSet' \cup {w} /\ w \notin HandSet'
  BY <1>6, <1>8, HandsMove
<1>10. RunBecomes(t, q)
  BY <1>4, RunsMove
<1>11. Queues' = Queues /\ WaitSet' = WaitSet
  BY QueuesStay
<1>12. Returned' = Returned \cup {w}
  BY <1>8, <1>9, <1>11, ReturnedIs
<1>13. Runnings[t] = r
  BY <1>6, Views
<1>14. Runnings' = [Runnings EXCEPT ![t] = SubSeq(@, 1, Len(r) - 1)]
  BY <1>7, <1>10, <1>13 DEF RunBecomes
<1>15. Abstract!Finish(t)
  BY <1>7, <1>11, <1>12, <1>13, <1>14 DEF Abstract!Finish, Queues, Runnings
<1> QED BY <1>15 DEF Abstract!Next

LEMMA Ends ==
  ASSUME Disciplined, TypeOK, CallInv, OnceInv, NEW t \in Threads,
         Finish(t) \/ Pause(t) \/ EndBody(t)
  PROVE  Unseen \/ Abstract!Next
<1>1. frame[t] \in Frame /\ frame[t].at \in {"exec", "body"}
  BY FrameFacts DEF Finish, Pause, EndBody, At
<1>2. t \in Loops /\ stack[t] # <<>>
  BY <1>1, FrameFacts DEF OwnLabels, PumpLabels, BaseLabels
<1>3. UNCHANGED <<highPri, events, used>>
  BY DEF Finish, Pause, EndBody, queueVars, userVars
<1>4. CASE Finish(t) \/ Pause(t)
  <2>1. Goto(t, "next") /\ stack' = stack
    BY <1>4 DEF Finish, Pause
  <2>2. CASE frame[t] \notin WorkFrames
    <3>1. Idle(frame[t])
      BY <1>1, <2>2 DEF Idle, WorkFrames, HandLabels
    <3>2. "next" \in Labels \ {"add", "remove"} /\ "next" \notin HandLabels
      BY DEF Labels, PumpLabels, HandLabels
    <3> QED BY <1>3, <2>1, <3>1, <3>2, UnseenLabel
  <2>3. CASE frame[t] \in WorkFrames
    <3>1. PICK g \in Frame : g.at = "next" /\ frame' = [frame EXCEPT ![t] = g]
      <4>1. frame' = [frame EXCEPT ![t] = [frame[t] EXCEPT !.at = "next"]]
        BY <2>1 DEF Goto
      <4>2. [frame[t] EXCEPT !.at = "next"] \in Frame
        BY <1>1 DEF Frame, Labels, PumpLabels
      <4>3. [frame[t] EXCEPT !.at = "next"].at = "next"
        BY <1>1 DEF Frame
      <4> QED BY <4>1, <4>2, <4>3
    <3>2. PICK s : s = Append(stack[t], g)
      OBVIOUS
    <3>3. FramesBecome(t, s)
      BY <2>1, <3>1, <3>2, GotoFrames
    <3>4. Idle(g)
      BY <3>1 DEF Idle, HandLabels
    <3>5. Run(s) = Run(stack[t]) /\ Hand(s) = Hand(stack[t])
      BY <3>2, <3>4, StackFacts, RunFrames
    <3> QED BY <1>2, <1>3, <2>3, <3>3, <3>5, Leaves
  <2> QED BY <2>2, <2>3
<1>5. CASE EndBody(t)
  <2>1. Return(t)
    BY <1>5 DEF EndBody
  <2>2. CASE frame[t] \notin WorkFrames
    <3>1. Idle(frame[t])
      BY <1>1, <2>2 DEF Idle, WorkFrames, HandLabels
    <3> QED BY <1>2, <1>3, <2>1, <3>1, UnseenReturn
  <2>3. CASE frame[t] \in WorkFrames
    <3>1. FramesBecome(t, stack[t])
      BY <1>2, <2>1, ReturnFrames
    <3> QED BY <1>2, <1>3, <2>3, <3>1, Leaves
  <2> QED BY <2>2, <2>3
<1> QED BY <1>4, <1>5

(* The frames and the queues stay as they are.                             *)
LEMMA UnseenStay ==
  ASSUME UNCHANGED <<highPri, events, frame, stack, used>>
  PROVE  Unseen
<1>1. \A t \in Threads : Frames(t)' = Frames(t)
  BY DEF Frames
<1>2. HandSet' = HandSet
  BY <1>1 DEF HandSet, Hand
<1>3. Queues' = Queues /\ WaitSet' = WaitSet
  BY QueuesStay
<1>4. \A l \in Loops : Runnings'[l] = Runnings[l]
  BY <1>1, Views DEF Threads
<1>5. Runnings' = Runnings
  BY <1>4 DEF Runnings
<1> QED BY <1>2, <1>3, <1>5, ReturnedIs DEF Unseen

(* A thread calls a function with an idle frame.                           *)
LEMMA UnseenEnter ==
  ASSUME CallInv, NEW t \in Threads, NEW label \in Labels, NEW l \in Loops,
         NEW e \in Task, label \in HandLabels => e.id \notin Works,
         label \in {"add", "remove"} => e.kind \in {"register", "unbind"},
         Call(t, FrameOf(label, l, e)),
         UNCHANGED <<highPri, events>>, used' \cap Works = used \cap Works
  PROVE  Unseen
<1>1. FrameOf(label, l, e) \in Frame /\ Idle(FrameOf(label, l, e))
  BY DEF FrameOf, Frame, Idle
<1>2. frame[t] \in Frame
  BY FrameFacts
<1>3. Alike(frame[t], frame[t])
  BY DEF Alike
<1> QED BY <1>1, <1>2, <1>3, UnseenCall DEF Call

(* What users do.                                                          *)
LEMMA UserUnseen ==
  ASSUME TypeOK, CallInv, OnceInv, NEW t \in Threads, UserCall(t)
  PROVE  Unseen
<1> USE LoopAssumption
<1>1. ASSUME NEW l \in Loops, NEW w \in Works, NEW p \in Priorities,
             Work(t, l, w, p) \/ WorkSync(t, l, w, p)
      PROVE  Unseen
  <2>1. PICK k \in {"plain", "sync"} :
          Submit(t, "push", l, [TaskOf(w, k) EXCEPT !.pri = p])
    BY <1>1 DEF Work, WorkSync
  <2>2. PICK e \in Task : e = [TaskOf(w, k) EXCEPT !.pri = p]
    BY TaskFacts
  <2>3. e.id = w
    BY <2>2 DEF TaskOf
  <2> QED BY <2>1, <2>2, <2>3, Enters
<1>2. ASSUME NEW l \in Loops, NEW w \in Works,
             WorkSyncOwn(t, l, w) \/ SetRunFalse(t, l, w)
      PROVE  Unseen
  <2>1. PICK k \in {"plain", "pause"}, label \in {"process", "push"} :
          Submit(t, label, l, TaskOf(w, k))
    BY <1>2 DEF WorkSyncOwn, SetRunFalse
  <2>2. TaskOf(w, k) \in Task /\ TaskOf(w, k).id = w
    BY TaskFacts DEF TaskOf
  <2> QED BY <2>1, <2>2, Enters
<1>3. ASSUME NEW l \in Loops, Process(t, l) PROVE Unseen
  <2>1. "pop" \in Labels /\ "pop" \notin HandLabels
    BY DEF Labels, PumpLabels, HandLabels
  <2>2. Call(t, FrameOf("pop", l, NullTask)) /\ UNCHANGED <<highPri, events, used>>
    BY <1>3 DEF Process, Pump, queueVars, userVars
  <2> QED BY <2>1, <2>2, TaskFacts, UnseenEnter
<1>4. ASSUME NEW l \in Loops, DeleteLater(t, l) PROVE Unseen
  <2>1. "delLock" \in Labels /\ "delLock" \notin HandLabels
    BY DEF Labels, DeleteLabels, HandLabels
  <2>2. Call(t, FrameOf("delLock", l, NullTask)) /\ UNCHANGED <<highPri, events, used>>
    BY <1>4 DEF DeleteLater, queueVars, userVars
  <2> QED BY <2>1, <2>2, TaskFacts, UnseenEnter
<1>5. ASSUME NEW l \in Loops, NEW op \in {"waitProcess", "waitEvent"},
             ManualWait(t, l, op)
      PROVE  Unseen
  <2>1. op \in Labels /\ op \notin HandLabels
    BY DEF Labels, HandLabels
  <2>2. Call(t, FrameOf(op, l, NullTask)) /\ UNCHANGED <<highPri, events, used>>
    BY <1>5 DEF ManualWait, queueVars, userVars
  <2> QED BY <2>1, <2>2, TaskFacts, UnseenEnter
<1>6. ASSUME UNCHANGED <<queueVars, callVars, userVars>> PROVE Unseen
  BY <1>6, UnseenStay DEF queueVars, callVars, userVars
<1>7. ASSUME NEW r \in Connects, Connect(t, r) PROVE Unseen
  <2>1. PICK e \in Task : /\ e = TaskOf(r, "register")
                          /\ e.kind = "register" /\ e.id \notin Works
    BY TaskFacts DEF TaskOf
  <2>2. UNCHANGED <<highPri, events>> /\ used' \cap Works = used \cap Works
    BY <1>7 DEF Connect, queueVars
  <2>3. PICK label \in {"add", "push"}, l \in Loops : Call(t, FrameOf(label, l, e))
    BY <1>7, <2>1 DEF Connect, CurrentLoop
  <2>4. label \in Labels
    BY DEF Labels
  <2> QED BY <2>1, <2>2, <2>3, <2>4, UnseenEnter
<1>8. ASSUME NEW l \in Loops, NEW r \in Connects, Disconnect(t, l, r) PROVE Unseen
  <2>1. DisconnectFun(t, l, r) /\ UNCHANGED <<highPri, events, used>>
    BY <1>8 DEF Disconnect, queueVars, userVars
  <2> QED BY <2>1, UnseenDisconnect
<1> QED BY <1>1, <1>2, <1>3, <1>4, <1>5, <1>6, <1>7, <1>8
     DEF UserCall, SetRunTrue, Hold, Drop

(* Every step is one of Executor's or leaves its state alone.              *)
LEMMA ExecNext ==
  ASSUME Disciplined, TypeOK, CallInv, CallInv', OnceInv, OrderInv, DelInv,
         [Next]_vars
  PROVE  Unseen \/ Abstract!Next
<1> USE LoopAssumption
<1>1. ASSUME NEW l \in Loops, RunStep(l) PROVE Unseen
  <2>1. l \in Threads
    BY DEF Threads
  <2>2. UNCHANGED <<highPri, events, used>>
    BY <1>1 DEF RunStep, Check, Wait, Reap, queueVars, userVars
  <2>3. Idle(frame[l])
    BY <1>1 DEF RunStep, Check, Wait, Reap, At, Idle, HandLabels
  <2>4. CASE Wait(l)
    <3>1. PICK g : g = [frame[l] EXCEPT !.at = "check"]
      OBVIOUS
    <3>2. PICK f : f = Pump(l)
      OBVIOUS
    <3>3. g \in Frame /\ g.at = "check" /\ f \in Frame /\ f.at = "pop"
      BY <2>1, <3>1, <3>2, TaskFacts, FrameFacts
         DEF Frame, Labels, PumpLabels, Pump, FrameOf
    <3>4. Alike(frame[l], g) /\ Idle(f)
      BY <2>3, <3>3 DEF Idle, Alike, HandOf, Holds, WorkFrames, HandLabels
    <3>5. CallOver(l, <<g>>, f)
      BY <2>4, <3>1, <3>2 DEF Wait
    <3> QED BY <2>1, <2>2, <3>3, <3>4, <3>5, UnseenCall
  <2>5. CASE Check(l) \/ Reap(l)
    <3>1. PICK label \in {"reap", "wait", "gone"} : Goto(l, label) /\ stack' = stack
      BY <2>5 DEF Check, Reap
    <3>2. label \in Labels \ {"add", "remove"} /\ label \notin HandLabels
      BY DEF Labels, HandLabels
    <3> QED BY <2>1, <2>2, <2>3, <3>1, <3>2, UnseenLabel
  <2> QED BY <1>1, <2>4, <2>5 DEF RunStep
<1>2. ASSUME NEW t \in Threads, NextEvent(t) \/ Post(t) \/ ManualWake(t)
      PROVE  Unseen
  <2>1. Idle(frame[t]) /\ stack[t] # <<>>
    BY <1>2, FrameFacts
       DEF NextEvent, Post, ManualWake, At, Idle, HandLabels, BaseLabels
  <2>2. UNCHANGED <<highPri, events, used>>
    BY <1>2 DEF NextEvent, Post, ManualWake, queueVars, userVars
  <2>3. \/ Return(t)
        \/ \E label \in {"pop", "ack"} : Goto(t, label) /\ stack' = stack
    BY <1>2 DEF NextEvent, Post, ManualWake
  <2>4. \A label \in {"pop", "ack"} :
          label \in Labels \ {"add", "remove"} /\ label \notin HandLabels
    BY DEF Labels, PumpLabels, HandLabels
  <2> QED BY <2>1, <2>2, <2>3, <2>4, UnseenReturn, UnseenLabel
<1>3. ASSUME NEW t \in Threads,
             Ack(t) \/ AddSharedConnectBase(t) \/ RemoveSharedConnectBase(t)
      PROVE  Unseen
  <2>1. Idle(frame[t]) /\ stack[t] # <<>>
    BY <1>3, FrameFacts
       DEF Ack, AddSharedConnectBase, RemoveSharedConnectBase, At, Idle,
           HandLabels, BaseLabels
  <2>2. Return(t) /\ UNCHANGED <<highPri, events, used>>
    BY <1>3 DEF Ack, AddSharedConnectBase, RemoveSharedConnectBase, queueVars,
                userVars
  <2> QED BY <2>1, <2>2, UnseenReturn
<1>4. ASSUME NEW t \in Threads, ProcessFirst(t) PROVE Unseen
  <2>1. frame[t] \in Frame /\ frame[t].at = "process" /\ On(t) \in Loops
    BY <1>4, FrameFacts DEF ProcessFirst, At
  <2>2. UNCHANGED <<highPri, events, used>>
    BY <1>4 DEF ProcessFirst, queueVars, userVars
  <2>3. PICK g : g = [frame[t] EXCEPT !.at = "begin"]
    OBVIOUS
  <2>4. PICK f : f = Pump(On(t))
    OBVIOUS
  <2>5. CallOver(t, <<g>>, f) \/ (Goto(t, "begin") /\ stack' = stack)
    BY <1>4, <2>3, <2>4 DEF ProcessFirst
  <2>6. /\ g \in Frame /\ g.at = "begin" /\ g.arg = frame[t].arg
        /\ f \in Frame /\ f.at = "pop"
    BY <2>1, <2>3, <2>4, TaskFacts DEF Frame, Labels, PumpLabels, Pump, FrameOf
  <2>7. Alike(frame[t], g) /\ Idle(f)
    BY <2>1, <2>6 DEF Idle, Alike, HandOf, Holds, WorkFrames, HandLabels
  <2>8. "begin" \in Labels \ {"add", "remove"}
    BY DEF Labels
  <2> QED BY <2>1, <2>2, <2>5, <2>6, <2>7, <2>8, UnseenCall, UnseenLabel
<1>5. ASSUME NEW t \in Threads, Register(t) PROVE Unseen
  <2>0. PICK l \in Loops :
          CallOver(t, <<[frame[t] EXCEPT !.at = "next"]>>, FrameOf("add", l, Arg(t)))
    BY <1>5 DEF Register
  <2>1. PICK g, f :
          /\ CallOver(t, <<g>>, f)
          /\ g = [frame[t] EXCEPT !.at = "next"] /\ f = FrameOf("add", l, Arg(t))
    BY <2>0
  <2>2. /\ frame[t] \in Frame /\ Arg(t) \in Task /\ Arg(t) = frame[t].arg
        /\ Arg(t).kind = "register"
    BY <1>5, FrameFacts DEF Register, Arg
  <2>3. /\ g \in Frame /\ g.at = "next" /\ f \in Frame /\ f.at = "add"
    BY <2>1, <2>2 DEF Frame, Labels, PumpLabels, FrameOf
  <2>4. Idle(frame[t])
    BY <2>2 DEF Idle, Task
  <2>5. Alike(frame[t], g) /\ Idle(f)
    BY <2>3, <2>4 DEF Idle, Alike, HandOf, Holds, WorkFrames, HandLabels
  <2>6. UNCHANGED <<highPri, events, used>>
    BY <1>5 DEF Register, queueVars, userVars
  <2> QED BY <2>1, <2>3, <2>5, <2>6, UnseenCall
<1>6. ASSUME NEW t \in Threads, Unbind(t) PROVE Unseen
  <2>1. /\ Arg(t) \in Task /\ Arg(t) = frame[t].arg /\ Arg(t).kind = "unbind"
    BY <1>6, FrameFacts DEF Unbind, Arg
  <2>2. Idle(frame[t])
    BY <2>1 DEF Idle, Task
  <2>3. "next" \in Labels \ {"add", "remove"} /\ "next" \notin HandLabels
    BY DEF Labels, PumpLabels, HandLabels
  <2>4. Goto(t, "next") /\ UNCHANGED <<highPri, events, used, stack>>
    BY <1>6 DEF Unbind, queueVars, userVars
  <2> QED BY <2>2, <2>3, <2>4, UnseenLabel
<1>7. ASSUME NEW t \in Threads,
             \/ DelLock(t) \/ DelAlive(t) \/ DelTerminate(t) \/ DelRun(t)
             \/ DelConnects(t)
      PROVE  Unseen
  <2>1. frame[t].at \in DeleteLabels
    BY <1>7 DEF DelLock, DelAlive, DelTerminate, DelRun, DelConnects, At,
                DeleteLabels
  <2>2. Idle(frame[t])
    BY <2>1 DEF Idle, DeleteLabels, HandLabels
  <2>3. Arg(t).id \notin Works
    BY <2>1 DEF DelInv, DelFrames, Arg
  <2>4. UNCHANGED <<highPri, events, used>>
    BY <1>7 DEF DelLock, DelAlive, DelTerminate, DelRun, DelConnects,
                queueVars, userVars
  <2>5. \/ \E label \in {"delConnects", "delAlive", "delTerminate", "delRun",
                         "push"} : Goto(t, label) /\ stack' = stack
        \/ \E r \in connects[On(t)] : DisconnectFun(t, On(t), r)
    BY <1>7 DEF DelLock, DelAlive, DelTerminate, DelRun, DelConnects
  <2>6. \A label \in {"delConnects", "delAlive", "delTerminate", "delRun",
                      "push"} : label \in Labels \ {"add", "remove"}
    BY DEF Labels, DeleteLabels
  <2>7. On(t) \in Loops /\ connects[On(t)] \subseteq Connects
    BY FrameFacts DEF TypeOK, DataOK
  <2>8. CASE \E r \in connects[On(t)] : DisconnectFun(t, On(t), r)
    BY <2>4, <2>7, <2>8, UnseenDisconnect
  <2>9. CASE \E label \in {"delConnects", "delAlive", "delTerminate", "delRun",
                           "push"} : Goto(t, label) /\ stack' = stack
    BY <2>2, <2>3, <2>4, <2>6, <2>9, UnseenLabel
  <2> QED BY <2>5, <2>8, <2>9
<1>8. CASE UNCHANGED vars
  BY <1>8, UnseenStay DEF vars, queueVars, callVars, userVars
<1> QED BY <1>1, <1>2, <1>3, <1>4, <1>5, <1>6, <1>7, <1>8, Puts, Starts, Begins,
     Ends, UserUnseen DEF Next, ThreadStep

LEMMA ExecInit ==
  ASSUME Init
  PROVE  Abstract!Init
<1> USE LoopAssumption
<1>1. TypeOK /\ CallInv
  BY InitOK
<1>2. <<>> \in Seq(Task) /\ <<>> \in Seq(Frame) /\ DOMAIN <<>> = {}
  BY EmptySeq, LenProperties
<1>3. \A p \in Priorities : Shown(<<>>, <<>>, p) = <<>>
  <2>1. <<>> \o <<>> = <<>>
    OBVIOUS
  <2>2. Ids(<<>>) = <<>>
    BY <1>2 DEF Ids
  <2> QED BY <2>1, <2>2, KeptEmpty DEF Shown
<1>4. Run(<<>>) = <<>> /\ Hand(<<>>) = {}
  BY <1>2, KeptEmpty DEF Run, ArgIds, Hand
<1>5. Queues = [l \in Loops |-> [p \in Priorities |-> <<>>]]
  <2>1. \A l \in Loops, p \in Priorities : Queues[l][p] = <<>>
    BY <1>3, Views DEF Init
  <2> QED BY <2>1 DEF Queues
<1>6. Runnings = [l \in Loops |-> <<>>]
  <2>1. ASSUME NEW l \in Loops PROVE Runnings[l] = <<>>
    <3>1. l \in Threads
      BY DEF Threads
    <3>2. stack[l] = <<>> /\ frame[l] \in Frame /\ frame[l].at = "check"
      BY <1>1, <3>1, FrameFacts DEF Init, FrameOf
    <3>3. Idle(frame[l])
      BY <3>2 DEF Idle, HandLabels
    <3>4. Run(Frames(l)) = Run(<<>>)
      BY <1>2, <3>2, <3>3, RunFrames DEF Frames
    <3> QED BY <1>4, <3>4, Views
  <2> QED BY <2>1 DEF Runnings
<1>7. Returned = {}
  BY DEF Init, Returned
<1> QED BY <1>5, <1>6, <1>7 DEF Abstract!Init, Queues, Runnings

(* When users are disciplined the loops implement Executor, however many   *)
(* loops, threads, functions and priorities there are: every function      *)
(* handed to work, workSync or setRun runs at most once, in the thread of  *)
(* its loop, the functions of one priority in the order they got into the  *)
(* queue, and none of a low priority before one with a smaller number;     *)
(* deleted loops, nested processing, connections and the library's own     *)
(* functions in the queues do not change that.                             *)
THEOREM LoopsImplementExecutor ==
  ASSUME Disciplined
  PROVE  Spec => ImplementsExecutor
<1>1. Init => Abstract!Init
  BY ExecInit
<1>2. TypeOK /\ CallInv /\ CallInv' /\ OnceInv /\ OrderInv /\ DelInv /\ [Next]_vars
        => [Abstract!Next]_(Abstract!execVars)
  BY ExecNext DEF Unseen, Abstract!execVars, Queues, Runnings
<1> QED BY <1>1, <1>2, TypeCorrect, OnceInvariant, OrderInvariant, DelInvariant,
     PTL DEF Spec, ImplementsExecutor, Abstract!Spec
=============================================================================
