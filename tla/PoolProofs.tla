----------------------------- MODULE PoolProofs -----------------------------
(***************************************************************************)
(* Proofs about the pool of coroutines, for any coroutines, contexts,      *)
(* threads, sizes and calls: types (PoolTypeCorrect), that the two maps    *)
(* agree while the loads are apart (LoadsInOneMap), and that a load covers *)
(* the contexts it was charged for (LoadsCoverWork).                       *)
(*                                                                         *)
(* All rest on PoolInv: the types of the coroutines (CoroutineProofs); the *)
(* order of g_poolMap and what it names (MapInv); where the threads are in *)
(* the calls of the pool (PoolWork); and that whatever will discharge a    *)
(* coroutine is about one of the pool (OwedInv).  A step of the coroutines *)
(* leaves them to the pool but for what CoQuiet says.                      *)
(*                                                                         *)
(* LoadsInOneMap adds who may find the map empty (AgreeInv), and           *)
(* LoadsCoverWork what each coroutine still owes: the functions that will  *)
(* discharge it and the contexts that have not (LoadInv).                  *)
(***************************************************************************)
EXTENDS CoroutinePool, CoroutineProofs, FunctionTheorems, WellFoundedInduction

(* What g_poolMap holds.                                                   *)
Entries == [key : Keys, co : Coroutines]

Sorted(map) == \A i, j \in DOMAIN map : i < j => ~ Before(map[j].key, map[i].key)

(* r is s without its i-th element; r is s with e as its i-th element.     *)
Less(s, r, i) ==
  /\ Len(r) = Len(s) - 1
  /\ \A j \in 1 .. Len(r) : r[j] = IF j < i THEN s[j] ELSE s[j + 1]

More(s, r, i, e) ==
  /\ Len(r) = Len(s) + 1
  /\ \A j \in 1 .. Len(r) : r[j] = IF j < i THEN s[j] ELSE IF j = i THEN e ELSE s[j - 1]

(* What r has is what s has, but for e.                                    *)
Within(s, r) == \A j \in DOMAIN r : \E i \in DOMAIN s : r[j] = s[i]

WithinBut(s, r, e) == \A j \in DOMAIN r : r[j] = e \/ \E i \in DOMAIN s : r[j] = s[i]
-----------------------------------------------------------------------------
(* Numbers and sequences.                                                  *)

(* A set of numbers has a least one.                                       *)
LEMMA LeastNumber ==
  ASSUME NEW S \in SUBSET Nat, S # {}
  PROVE  \E n \in S : \A m \in S : n <= m
<1>1. PICK n \in S : \A m \in S : ~(<<m, n>> \in OpToRel(<, Nat))
  BY NatLessThanWellFounded, WFMin
<1>2. \A m \in S : ~(m < n)
  BY <1>1 DEF OpToRel
<1> QED BY <1>2

(* A set of numbers that has with each the lower ones is an interval.      *)
LEMMA DownClosed ==
  ASSUME NEW n \in Nat, NEW S \in SUBSET (1 .. n), \A i \in S : \A j \in 1 .. i : j \in S
  PROVE  Cardinality(S) \in 0 .. n /\ S = 1 .. Cardinality(S)
<1> DEFINE Out == {m \in Nat : m # 0 /\ m \notin S}
<1>1. n + 1 \in Out
  OBVIOUS
<1>2. PICK m \in Out : \A k \in Out : m <= k
  BY <1>1, LeastNumber
<1>3. m <= n + 1
  BY <1>1, <1>2
<1>4. \A i \in 1 .. m - 1 : i \in S
  BY <1>2
<1>5. \A i \in S : i < m
  <2>1. SUFFICES ASSUME NEW i \in S, ~ (i < m) PROVE FALSE
    OBVIOUS
  <2>2. m \in 1 .. i
    BY <1>2, <2>1
  <2> QED BY <1>2, <2>1, <2>2
<1>6. S = 1 .. m - 1
  <2>1. \A i \in S : i \in 1 .. m - 1
    BY <1>2, <1>5
  <2> QED BY <1>4, <2>1
<1>7. Cardinality(1 .. m - 1) = m - 1
  BY <1>2, FS_Interval
<1> QED BY <1>2, <1>3, <1>6, <1>7

LEMMA InsertIs ==
  ASSUME NEW S, NEW s \in Seq(S), NEW e \in S, NEW i \in 1 .. Len(s) + 1
  PROVE  InsertAt(s, i, e) \in Seq(S) /\ More(s, InsertAt(s, i, e), i, e)
<1>1. Len(s) \in Nat
  BY LenProperties
<1>2. PICK a : a = SubSeq(s, 1, i - 1)
  OBVIOUS
<1>3. PICK b : b = SubSeq(s, i, Len(s))
  OBVIOUS
<1>4. a \in Seq(S) /\ Len(a) = i - 1 /\ \A j \in 1 .. i - 1 : a[j] = s[j]
  BY <1>1, <1>2, SubSeqProperties
<1>5. b \in Seq(S) /\ Len(b) = Len(s) - i + 1 /\ \A j \in 1 .. Len(s) - i + 1 : b[j] = s[i + j - 1]
  BY <1>1, <1>3, SubSeqProperties
<1>6. <<e>> \in Seq(S) /\ Len(<<e>>) = 1 /\ <<e>>[1] = e
  OBVIOUS
<1>7. PICK d : d = a \o <<e>>
  OBVIOUS
<1>8. d \in Seq(S) /\ Len(d) = i /\ \A j \in 1 .. i : d[j] = IF j < i THEN s[j] ELSE e
  BY <1>1, <1>4, <1>6, <1>7, ConcatProperties
<1>9. PICK r : r = d \o b
  OBVIOUS
<1>10. /\ r \in Seq(S) /\ Len(r) = Len(s) + 1
       /\ \A j \in 1 .. Len(s) + 1 : r[j] = IF j <= i THEN d[j] ELSE b[j - i]
  <2>1. /\ r \in Seq(S) /\ Len(r) = Len(d) + Len(b)
        /\ \A j \in 1 .. Len(d) + Len(b) : r[j] = IF j <= Len(d) THEN d[j] ELSE b[j - Len(d)]
    BY <1>5, <1>8, <1>9, ConcatProperties
  <2>2. Len(d) = i /\ Len(d) + Len(b) = Len(s) + 1
    BY <1>1, <1>5, <1>8
  <2> QED BY <2>1, <2>2
<1>11. \A j \in 1 .. Len(s) + 1 : j > i => b[j - i] = s[j - 1]
  BY <1>1, <1>5
<1>12. InsertAt(s, i, e) = r
  BY <1>2, <1>3, <1>7, <1>9 DEF InsertAt
<1>13. \A j \in 1 .. Len(s) + 1 : r[j] = IF j < i THEN s[j] ELSE IF j = i THEN e ELSE s[j - 1]
  <2>1. TAKE j \in 1 .. Len(s) + 1
  <2>2. CASE j <= i
    <3>1. j \in 1 .. i /\ r[j] = d[j]
      BY <1>1, <1>10, <2>2
    <3> QED BY <1>8, <2>2, <3>1
  <2>3. CASE j > i
    <3>1. ~ (j <= i) /\ r[j] = b[j - i]
      BY <1>1, <1>10, <2>3
    <3> QED BY <1>1, <1>11, <2>3, <3>1
  <2> QED BY <1>1, <2>2, <2>3
<1> QED BY <1>10, <1>12, <1>13 DEF More

(* s without what comes after lo up to hi.                                 *)
Cut(s, lo, hi) == SubSeq(s, 1, lo) \o SubSeq(s, hi + 1, Len(s))

LEMMA CutIs ==
  ASSUME NEW S, NEW s \in Seq(S), NEW lo \in Nat, NEW hi \in Nat, lo <= hi, hi <= Len(s),
         NEW r, r = Cut(s, lo, hi)
  PROVE  /\ r \in Seq(S) /\ Len(r) = lo + Len(s) - hi
         /\ \A j \in 1 .. Len(r) : r[j] = IF j <= lo THEN s[j] ELSE s[j + (hi - lo)]
<1>1. Len(s) \in Nat
  BY LenProperties
<1>2. PICK a : a = SubSeq(s, 1, lo)
  OBVIOUS
<1>3. PICK b : b = SubSeq(s, hi + 1, Len(s))
  OBVIOUS
<1>4. a \in Seq(S) /\ Len(a) = lo /\ \A j \in 1 .. lo : a[j] = s[j]
  BY <1>1, <1>2, SubSeqProperties
<1>5. b \in Seq(S) /\ Len(b) = Len(s) - hi /\ \A j \in 1 .. Len(s) - hi : b[j] = s[hi + j]
  BY <1>1, <1>3, SubSeqProperties
<1>6. /\ r \in Seq(S) /\ Len(r) = Len(a) + Len(b)
      /\ \A j \in 1 .. Len(a) + Len(b) : r[j] = IF j <= Len(a) THEN a[j] ELSE b[j - Len(a)]
  <2>1. r = a \o b
    BY <1>2, <1>3 DEF Cut
  <2>2. /\ a \o b \in Seq(S) /\ Len(a \o b) = Len(a) + Len(b)
        /\ \A j \in 1 .. Len(a) + Len(b) :
             (a \o b)[j] = IF j <= Len(a) THEN a[j] ELSE b[j - Len(a)]
    BY <1>4, <1>5, ConcatProperties
  <2> QED BY <2>1, <2>2
<1>7. Len(a) + Len(b) = lo + Len(s) - hi
  BY <1>1, <1>4, <1>5
<1>8. \A j \in 1 .. Len(r) : r[j] = IF j <= lo THEN s[j] ELSE s[j + (hi - lo)]
  <2>1. TAKE j \in 1 .. Len(r)
  <2>2. CASE j <= lo
    <3>1. j \in 1 .. lo /\ r[j] = a[j]
      BY <1>1, <1>4, <1>6, <2>2
    <3> QED BY <1>4, <2>2, <3>1
  <2>3. CASE ~ (j <= lo)
    <3>1. r[j] = b[j - lo]
      BY <1>1, <1>4, <1>6, <2>3
    <3>2. j - lo \in 1 .. Len(s) - hi /\ hi + (j - lo) = j + (hi - lo)
      <4>1. j \in Nat /\ j <= lo + Len(s) - hi
        BY <1>6, <1>7, LenProperties
      <4> QED BY <1>1, <2>3, <4>1
    <3>3. b[j - lo] = s[hi + (j - lo)]
      BY <1>5, <3>2
    <3> QED BY <2>3, <3>1, <3>2, <3>3
  <2> QED BY <2>2, <2>3
<1> QED BY <1>6, <1>7, <1>8

LEMMA RemoveIs ==
  ASSUME NEW S, NEW s \in Seq(S), NEW i \in 1 .. Len(s)
  PROVE  RemoveAt(s, i) \in Seq(S) /\ Less(s, RemoveAt(s, i), i)
<1>1. Len(s) \in Nat /\ i - 1 \in 0 .. Len(s) /\ i \in i - 1 .. Len(s)
  BY LenProperties
<1>2. PICK r : r = SubSeq(s, 1, i - 1) \o SubSeq(s, i + 1, Len(s))
  OBVIOUS
<1>3. PICK lo \in Nat : lo = i - 1
  BY <1>1
<1>4. i \in Nat /\ lo <= i /\ i <= Len(s) /\ r = Cut(s, lo, i)
  BY <1>1, <1>2, <1>3 DEF Cut
<1>5. /\ r \in Seq(S) /\ Len(r) = lo + Len(s) - i
      /\ \A j \in 1 .. Len(r) : r[j] = IF j <= lo THEN s[j] ELSE s[j + (i - lo)]
  BY <1>4, CutIs
<1>6. i - lo = 1
  BY <1>1, <1>3
<1>7. Len(r) = Len(s) - 1 /\ \A j \in 1 .. Len(r) : r[j] = IF j < i THEN s[j] ELSE s[j + 1]
  BY <1>1, <1>3, <1>5, <1>6
<1>8. r = RemoveAt(s, i)
  BY <1>2 DEF RemoveAt
<1> QED BY <1>5, <1>7, <1>8 DEF Less
-----------------------------------------------------------------------------
(* The order of the keys, and the multimap.                                *)

LEMMA KeysOrder ==
  ASSUME NEW a \in Keys, NEW b \in Keys, NEW c \in Keys
  PROVE  /\ ~ Before(a, a)
         /\ Before(a, b) => ~ Before(b, a)
         /\ ~ Before(b, a) /\ ~ Before(c, b) => ~ Before(c, a)
         /\ ~ Before(b, a) /\ Before(b, c) => Before(a, c)
         /\ Before(a, b) /\ ~ Before(c, b) => Before(a, c)
         /\ ~ Before(a, b) /\ ~ Before(b, a) => a = b
<1>1. /\ a.load \in Int /\ b.load \in Int /\ c.load \in Int
      /\ a.tie \in Nat /\ b.tie \in Nat /\ c.tie \in Nat
      /\ a.load = b.load /\ a.tie = b.tie => a = b
  BY DEF Keys
<1>2. ~ Before(a, b) /\ ~ Before(b, a) => a = b
  BY <1>1 DEF Before
<1>3. /\ ~ Before(a, a)
      /\ Before(a, b) => ~ Before(b, a)
      /\ ~ Before(b, a) /\ ~ Before(c, b) => ~ Before(c, a)
  BY <1>1 DEF Before
<1>4. /\ ~ Before(b, a) /\ Before(b, c) => Before(a, c)
      /\ Before(a, b) /\ ~ Before(c, b) => Before(a, c)
  BY <1>1 DEF Before
<1> QED BY <1>2, <1>3, <1>4

LEMMA KeyType ==
  /\ \A load \in Int, tie \in Nat : Key(load, tie) \in Keys /\ Key(load, tie).load = load
  /\ \A key \in Keys, c \in Coroutines :
       /\ Entry(key, c) \in Entries
       /\ Entry(key, c).key = key /\ Entry(key, c).co = c
  /\ \A key \in Keys : key.load \in Int /\ key.tie \in Nat
  /\ Nil \notin Keys
<1>1. /\ \A load \in Int, tie \in Nat : Key(load, tie) \in Keys /\ Key(load, tie).load = load
      /\ \A key \in Keys, c \in Coroutines :
           /\ Entry(key, c) \in Entries
           /\ Entry(key, c).key = key /\ Entry(key, c).co = c
      /\ \A key \in Keys : key.load \in Int /\ key.tie \in Nat
  BY DEF Key, Keys, Entry, Entries
<1> QED BY <1>1, PoolAssumption

LEMMA ElementKeys ==
  ASSUME NEW map \in Seq(Entries)
  PROVE  /\ DOMAIN map = 1 .. Len(map) /\ Len(map) \in Nat
         /\ \A i \in 1 .. Len(map) :
              map[i] \in Entries /\ map[i].key \in Keys /\ map[i].co \in Coroutines
<1>1. DOMAIN map = 1 .. Len(map) /\ Len(map) \in Nat
  BY LenProperties
<1>2. \A i \in 1 .. Len(map) : map[i] \in Entries
  BY ElementOfSeq
<1>3. \A e \in Entries : e.key \in Keys /\ e.co \in Coroutines
  BY DEF Entries
<1> QED BY <1>1, <1>2, <1>3

(* In a sorted map the entries before a key are the first ones.            *)
LEMMA BoundsAre ==
  ASSUME NEW map \in Seq(Entries), Sorted(map), NEW k \in Keys
  PROVE  /\ LowerBound(map, k) \in Nat /\ UpperBound(map, k) \in Nat
         /\ LowerBound(map, k) <= UpperBound(map, k) /\ UpperBound(map, k) <= Len(map)
         /\ \A i \in 1 .. Len(map) :
              /\ Before(map[i].key, k) <=> i <= LowerBound(map, k)
              /\ Before(k, map[i].key) <=> i > UpperBound(map, k)
<1> DEFINE lows == {i \in DOMAIN map : Before(map[i].key, k)}
           ups == {i \in DOMAIN map : ~ Before(k, map[i].key)}
<1>1. DOMAIN map = 1 .. Len(map) /\ Len(map) \in Nat
      /\ \A i \in 1 .. Len(map) : map[i].key \in Keys
  BY ElementKeys
<1>2. \A i, j \in 1 .. Len(map) : j <= i => ~ Before(map[i].key, map[j].key)
  <2>1. TAKE i, j \in 1 .. Len(map)
  <2>2. CASE j = i
    BY <1>1, <2>2, KeysOrder
  <2>3. CASE j # i
    BY <1>1, <2>3 DEF Sorted
  <2> QED BY <2>2, <2>3
<1>3. \A i \in lows : \A j \in 1 .. i : j \in lows
  <2>1. TAKE i \in lows
  <2>2. TAKE j \in 1 .. i
  <2>3. i \in 1 .. Len(map) /\ j \in 1 .. Len(map) /\ j <= i
    BY <1>1
  <2>4. ~ Before(map[i].key, map[j].key) /\ Before(map[i].key, k)
    BY <1>2, <2>3
  <2>5. Before(map[j].key, k)
    BY <1>1, <2>3, <2>4, KeysOrder
  <2> QED BY <1>1, <2>3, <2>5
<1>4. \A i \in ups : \A j \in 1 .. i : j \in ups
  <2>1. TAKE i \in ups
  <2>2. TAKE j \in 1 .. i
  <2>3. i \in 1 .. Len(map) /\ j \in 1 .. Len(map) /\ j <= i
    BY <1>1
  <2>4. ~ Before(map[i].key, map[j].key) /\ ~ Before(k, map[i].key)
    BY <1>2, <2>3
  <2>5. ~ Before(k, map[j].key)
    BY <1>1, <2>3, <2>4, KeysOrder
  <2> QED BY <1>1, <2>3, <2>5
<1>5. Cardinality(lows) \in 0 .. Len(map) /\ lows = 1 .. Cardinality(lows)
  <2>1. lows \in SUBSET (1 .. Len(map))
    BY <1>1
  <2> HIDE DEF lows
  <2> QED BY <1>1, <1>3, <2>1, DownClosed
<1>6. Cardinality(ups) \in 0 .. Len(map) /\ ups = 1 .. Cardinality(ups)
  <2>1. ups \in SUBSET (1 .. Len(map))
    BY <1>1
  <2> HIDE DEF ups
  <2> QED BY <1>1, <1>4, <2>1, DownClosed
<1>7. lows \subseteq ups
  BY <1>1, KeysOrder
<1>8. LowerBound(map, k) = Cardinality(lows) /\ UpperBound(map, k) = Cardinality(ups)
  BY DEF LowerBound, UpperBound
<1>9. \A i \in 1 .. Len(map) : /\ Before(map[i].key, k) <=> i \in lows
                               /\ Before(k, map[i].key) <=> i \notin ups
  BY <1>1
<1> HIDE DEF lows, ups
<1>10. Cardinality(lows) <= Cardinality(ups)
  <2>1. CASE Cardinality(lows) = 0
    BY <1>6, <2>1
  <2>2. CASE Cardinality(lows) # 0
    <3>1. Cardinality(lows) \in 1 .. Cardinality(lows)
      BY <1>5, <2>2
    <3>2. Cardinality(lows) \in 1 .. Cardinality(ups)
      BY <1>5, <1>6, <1>7, <3>1
    <3> QED BY <3>2
  <2> QED BY <2>1, <2>2
<1>11. \A i \in 1 .. Len(map) : /\ i \in lows <=> i <= Cardinality(lows)
                                /\ i \notin ups <=> i > Cardinality(ups)
  BY <1>1, <1>5, <1>6
<1> QED BY <1>1, <1>5, <1>6, <1>8, <1>9, <1>10, <1>11

LEMMA EmplaceIs ==
  ASSUME NEW map \in Seq(Entries), Sorted(map), NEW e \in Entries
  PROVE  /\ Emplace(map, e) \in Seq(Entries) /\ Sorted(Emplace(map, e))
         /\ \E p \in 1 .. Len(map) + 1 : More(map, Emplace(map, e), p, e)
<1>1. DOMAIN map = 1 .. Len(map) /\ Len(map) \in Nat
      /\ \A i \in 1 .. Len(map) : map[i].key \in Keys
  BY ElementKeys
<1>2. e.key \in Keys
  BY DEF Entries
<1>3. PICK p : p = UpperBound(map, e.key) + 1
  OBVIOUS
<1>4. p \in 1 .. Len(map) + 1
  BY <1>1, <1>2, <1>3, BoundsAre
<1>5. \A i \in 1 .. Len(map) : Before(e.key, map[i].key) <=> i >= p
  BY <1>1, <1>2, <1>3, BoundsAre
<1>6. PICK r : r = Emplace(map, e)
  OBVIOUS
<1>7. r \in Seq(Entries) /\ More(map, r, p, e)
  BY <1>3, <1>4, <1>6, InsertIs DEF Emplace
<1>8. /\ DOMAIN r = 1 .. Len(map) + 1
      /\ \A j \in 1 .. Len(map) + 1 :
           /\ j < p => j \in 1 .. Len(map) /\ r[j] = map[j] /\ ~ Before(e.key, map[j].key)
           /\ j = p => r[j] = e
           /\ j > p => j - 1 \in 1 .. Len(map) /\ r[j] = map[j - 1] /\ Before(e.key, map[j - 1].key)
  <2>1. DOMAIN r = 1 .. Len(map) + 1
    BY <1>7, LenProperties DEF More
  <2>2. \A j \in 1 .. Len(map) + 1 : j < p =>
          j \in 1 .. Len(map) /\ r[j] = map[j] /\ ~ Before(e.key, map[j].key)
    BY <1>1, <1>4, <1>5, <1>7 DEF More
  <2>3. \A j \in 1 .. Len(map) + 1 : j = p => r[j] = e
    BY <1>1, <1>4, <1>7 DEF More
  <2>4. \A j \in 1 .. Len(map) + 1 : j > p =>
          j - 1 \in 1 .. Len(map) /\ r[j] = map[j - 1] /\ Before(e.key, map[j - 1].key)
    BY <1>1, <1>4, <1>5, <1>7 DEF More
  <2> QED BY <2>1, <2>2, <2>3, <2>4
<1>9. Sorted(r)
  <2>1. SUFFICES ASSUME NEW i \in 1 .. Len(map) + 1, NEW j \in 1 .. Len(map) + 1, i < j
                 PROVE  ~ Before(r[j].key, r[i].key)
    BY <1>8 DEF Sorted
  <2>2. \A m, n \in 1 .. Len(map) : m < n => ~ Before(map[n].key, map[m].key)
    BY <1>1 DEF Sorted
  <2>3. CASE j < p
    <3>1. i < p
      BY <1>4, <2>1, <2>3
    <3> QED BY <1>8, <2>1, <2>2, <2>3, <3>1
  <2>4. CASE j = p
    BY <1>8, <2>1, <2>4
  <2>5. CASE j > p /\ i < p
    <3>1. /\ r[i] = map[i] /\ i \in 1 .. Len(map) /\ ~ Before(e.key, map[i].key)
          /\ r[j] = map[j - 1] /\ j - 1 \in 1 .. Len(map) /\ Before(e.key, map[j - 1].key)
      BY <1>8, <2>5
    <3>2. ~ Before(map[j - 1].key, e.key)
      BY <1>1, <1>2, <3>1, KeysOrder
    <3> QED BY <1>1, <1>2, <3>1, <3>2, KeysOrder
  <2>6. CASE j > p /\ i = p
    BY <1>1, <1>2, <1>8, <2>6, KeysOrder
  <2>7. CASE j > p /\ i > p
    <3>1. /\ r[i] = map[i - 1] /\ i - 1 \in 1 .. Len(map)
          /\ r[j] = map[j - 1] /\ j - 1 \in 1 .. Len(map) /\ i - 1 < j - 1
      BY <1>8, <2>1, <2>7
    <3> QED BY <2>2, <3>1
  <2> QED BY <1>4, <2>1, <2>3, <2>4, <2>5, <2>6, <2>7
<1> QED BY <1>4, <1>6, <1>7, <1>9

LEMMA CutSorted ==
  ASSUME NEW map \in Seq(Entries), Sorted(map), NEW lo \in Nat, NEW hi \in Nat,
         lo <= hi, hi <= Len(map)
  PROVE  /\ Cut(map, lo, hi) \in Seq(Entries) /\ Sorted(Cut(map, lo, hi))
         /\ Within(map, Cut(map, lo, hi))
<1>1. PICK r : r = Cut(map, lo, hi)
  OBVIOUS
<1>2. /\ r \in Seq(Entries) /\ Len(r) = lo + Len(map) - hi
      /\ \A j \in 1 .. Len(r) : r[j] = IF j <= lo THEN map[j] ELSE map[j + (hi - lo)]
  <2>1. \A S, s, q : s \in Seq(S) /\ hi <= Len(s) /\ q = Cut(s, lo, hi) =>
          /\ q \in Seq(S) /\ Len(q) = lo + Len(s) - hi
          /\ \A j \in 1 .. Len(q) : q[j] = IF j <= lo THEN s[j] ELSE s[j + (hi - lo)]
    BY CutIs
  <2> QED BY <1>1, <2>1
<1>3. Len(map) \in Nat /\ DOMAIN map = 1 .. Len(map) /\ DOMAIN r = 1 .. Len(r) /\ Len(r) \in Nat
  BY <1>2, LenProperties
<1>4. Within(map, r)
  <2>1. SUFFICES ASSUME NEW j \in 1 .. Len(r) PROVE \E m \in 1 .. Len(map) : r[j] = map[m]
    BY <1>3 DEF Within
  <2>2. /\ j <= lo => j \in 1 .. Len(map)
        /\ ~ (j <= lo) => j + (hi - lo) \in 1 .. Len(map)
    BY <1>2, <1>3
  <2> QED BY <1>2, <2>2
<1>5. SUFFICES ASSUME NEW i \in 1 .. Len(r), NEW j \in 1 .. Len(r), i < j
               PROVE  ~ Before(r[j].key, r[i].key)
  BY <1>1, <1>2, <1>3, <1>4 DEF Sorted
<1>6. \E m, n \in 1 .. Len(map) : m < n /\ r[i] = map[m] /\ r[j] = map[n]
  <2>1. CASE j <= lo
    <3>1. i <= lo /\ i \in 1 .. Len(map) /\ j \in 1 .. Len(map)
      BY <1>2, <1>3, <1>5, <2>1
    <3> QED BY <1>2, <1>5, <2>1, <3>1
  <2>2. CASE ~ (j <= lo) /\ i <= lo
    <3>1. i \in 1 .. Len(map) /\ j + (hi - lo) \in 1 .. Len(map) /\ i < j + (hi - lo)
      BY <1>2, <1>3, <1>5, <2>2
    <3> QED BY <1>2, <1>5, <2>2, <3>1
  <2>3. CASE ~ (j <= lo) /\ ~ (i <= lo)
    <3>1. /\ i + (hi - lo) \in 1 .. Len(map) /\ j + (hi - lo) \in 1 .. Len(map)
          /\ i + (hi - lo) < j + (hi - lo)
      BY <1>2, <1>3, <1>5, <2>3
    <3> QED BY <1>2, <1>5, <2>3, <3>1
  <2> QED BY <2>1, <2>2, <2>3
<1> QED BY <1>3, <1>6 DEF Sorted

LEMMA LessWithin ==
  ASSUME NEW S, NEW s \in Seq(S), NEW r \in Seq(S), NEW i \in 1 .. Len(s), Less(s, r, i)
  PROVE  Within(s, r)
<1>1. Len(s) \in Nat /\ DOMAIN s = 1 .. Len(s) /\ DOMAIN r = 1 .. Len(r)
  BY LenProperties
<1>2. SUFFICES ASSUME NEW j \in 1 .. Len(r) PROVE \E m \in 1 .. Len(s) : r[j] = s[m]
  BY <1>1 DEF Within
<1>3. Len(r) = Len(s) - 1 /\ r[j] = IF j < i THEN s[j] ELSE s[j + 1]
  BY DEF Less
<1>4. j \in 1 .. Len(s) /\ j + 1 \in 1 .. Len(s)
  BY <1>1, <1>3
<1> QED BY <1>3, <1>4

LEMMA MoreWithin ==
  ASSUME NEW S, NEW s \in Seq(S), NEW r \in Seq(S), NEW e, NEW i \in 1 .. Len(s) + 1,
         More(s, r, i, e)
  PROVE  WithinBut(s, r, e)
<1>1. Len(s) \in Nat /\ DOMAIN s = 1 .. Len(s) /\ DOMAIN r = 1 .. Len(r)
  BY LenProperties
<1>2. SUFFICES ASSUME NEW j \in 1 .. Len(r), r[j] # e PROVE \E m \in 1 .. Len(s) : r[j] = s[m]
  BY <1>1 DEF WithinBut
<1>3. Len(r) = Len(s) + 1 /\ r[j] = IF j < i THEN s[j] ELSE IF j = i THEN e ELSE s[j - 1]
  BY DEF More
<1>4. (j < i => j \in 1 .. Len(s)) /\ (j > i => j - 1 \in 1 .. Len(s)) /\ j # i
  BY <1>1, <1>2, <1>3
<1>5. j < i \/ j > i
  BY <1>1, <1>4
<1>6. (j < i => r[j] = s[j]) /\ (j > i => r[j] = s[j - 1])
  BY <1>1, <1>3
<1> QED BY <1>4, <1>5, <1>6

LEMMA EraseIs ==
  ASSUME NEW map \in Seq(Entries), Sorted(map), NEW k \in Keys
  PROVE  /\ Erase(map, k) \in Seq(Entries) /\ Sorted(Erase(map, k))
         /\ Within(map, Erase(map, k))
<1>1. PICK lo, hi : lo = LowerBound(map, k) /\ hi = UpperBound(map, k)
  OBVIOUS
<1>2. lo \in Nat /\ hi \in Nat /\ lo <= hi /\ hi <= Len(map)
  BY <1>1, BoundsAre
<1>3. PICK r : r = Cut(map, lo, hi)
  OBVIOUS
<1>4. r = Erase(map, k)
  BY <1>1, <1>3 DEF Erase, Cut
<1>5. r \in Seq(Entries) /\ Sorted(r) /\ Within(map, r)
  BY <1>2, <1>3, CutSorted
<1> QED BY <1>4, <1>5

(* A key that one entry has.                                               *)
LEMMA AtKey ==
  ASSUME NEW map \in Seq(Entries), Sorted(map), NEW i \in 1 .. Len(map),
         \A j \in 1 .. Len(map) : map[j].key = map[i].key => j = i
  PROVE  /\ LowerBound(map, map[i].key) = i - 1
         /\ UpperBound(map, map[i].key) = i
         /\ Erase(map, map[i].key) = RemoveAt(map, i)
<1>1. Len(map) \in Nat /\ \A j \in 1 .. Len(map) : map[j].key \in Keys
  BY ElementKeys
<1>2. PICK k \in Keys : k = map[i].key
  BY <1>1
<1>3. PICK lo, hi : lo = LowerBound(map, k) /\ hi = UpperBound(map, k)
  OBVIOUS
<1>4. /\ lo \in Nat /\ hi \in Nat /\ lo <= hi /\ hi <= Len(map)
      /\ \A j \in 1 .. Len(map) : /\ Before(map[j].key, k) <=> j <= lo
                                  /\ Before(k, map[j].key) <=> j > hi
  BY <1>3, BoundsAre
<1>5. \A j \in 1 .. Len(map) : lo < j /\ j <= hi <=> j = i
  <2>1. TAKE j \in 1 .. Len(map)
  <2>2. lo < j /\ j <= hi <=> ~ Before(map[j].key, k) /\ ~ Before(k, map[j].key)
    BY <1>4
  <2>3. ~ Before(map[j].key, k) /\ ~ Before(k, map[j].key) <=> map[j].key = k
    BY <1>1, KeysOrder
  <2> QED BY <1>2, <2>2, <2>3
<1>6. lo < i /\ i <= hi
  BY <1>5
<1>7. lo = i - 1
  <2>1. lo + 1 \in 1 .. Len(map) /\ lo < lo + 1 /\ lo + 1 <= hi
    BY <1>1, <1>4, <1>6
  <2> QED BY <1>4, <1>5, <2>1
<1>8. hi = i
  <2>1. hi \in 1 .. Len(map) /\ lo < hi
    BY <1>1, <1>4, <1>6
  <2> QED BY <1>4, <1>5, <2>1
<1>9. Erase(map, k) = RemoveAt(map, i)
  BY <1>3, <1>7, <1>8 DEF Erase, RemoveAt
<1> QED BY <1>2, <1>3, <1>7, <1>8, <1>9

(* The map has one entry of each coroutine in P and of no other, under the *)
(* key that keys has for it.                                               *)
MapOf(map, keys, P) ==
  /\ \A i \in 1 .. Len(map) : map[i].co \in P /\ map[i].key = keys[map[i].co]
  /\ \A i, j \in 1 .. Len(map) : map[i].co = map[j].co => i = j
  /\ \A c \in P : \E i \in 1 .. Len(map) : map[i].co = c

LEMMA LessMapOf ==
  ASSUME NEW keys, NEW P, NEW map \in Seq(Entries), MapOf(map, keys, P),
         NEW i \in 1 .. Len(map), NEW r \in Seq(Entries), Less(map, r, i)
  PROVE  MapOf(r, keys, P \ {map[i].co})
<1>1. Len(map) \in Nat /\ Len(r) = Len(map) - 1
  BY LenProperties DEF Less
<1>2. \A j \in 1 .. Len(r) :
        /\ j < i => j \in 1 .. Len(map) /\ r[j] = map[j]
        /\ j >= i => j + 1 \in 1 .. Len(map) /\ j + 1 # i /\ r[j] = map[j + 1]
  BY <1>1 DEF Less
<1>3. \A j \in 1 .. Len(r) : /\ r[j].co \in P \ {map[i].co}
                             /\ r[j].key = keys[r[j].co]
  <2>1. TAKE j \in 1 .. Len(r)
  <2>2. \E m \in 1 .. Len(map) : m # i /\ r[j] = map[m]
    BY <1>1, <1>2
  <2> QED BY <2>2 DEF MapOf
<1>4. \A j, m \in 1 .. Len(r) : r[j].co = r[m].co => j = m
  <2>1. SUFFICES ASSUME NEW j \in 1 .. Len(r), NEW m \in 1 .. Len(r), r[j].co = r[m].co
                 PROVE  j = m
    OBVIOUS
  <2>2. CASE j < i /\ m < i
    BY <1>2, <2>1, <2>2 DEF MapOf
  <2>3. CASE j < i /\ m >= i
    <3>1. j = m + 1
      <4>1. map[j].co = map[m + 1].co /\ j \in 1 .. Len(map) /\ m + 1 \in 1 .. Len(map)
        BY <1>2, <2>1, <2>3
      <4> QED BY <4>1 DEF MapOf
    <3> QED BY <2>3, <3>1
  <2>4. CASE j >= i /\ m < i
    <3>1. j + 1 = m
      <4>1. map[j + 1].co = map[m].co /\ j + 1 \in 1 .. Len(map) /\ m \in 1 .. Len(map)
        BY <1>2, <2>1, <2>4
      <4> QED BY <4>1 DEF MapOf
    <3> QED BY <2>4, <3>1
  <2>5. CASE j >= i /\ m >= i
    <3>1. j + 1 = m + 1
      <4>1. /\ map[j + 1].co = map[m + 1].co
            /\ j + 1 \in 1 .. Len(map) /\ m + 1 \in 1 .. Len(map)
        BY <1>2, <2>1, <2>5
      <4> QED BY <4>1 DEF MapOf
    <3> QED BY <3>1
  <2> QED BY <2>2, <2>3, <2>4, <2>5
<1>5. \A c \in P \ {map[i].co} : \E j \in 1 .. Len(r) : r[j].co = c
  <2>1. TAKE c \in P \ {map[i].co}
  <2>2. PICK m \in 1 .. Len(map) : map[m].co = c
    BY DEF MapOf
  <2>3. m # i
    BY <2>2
  <2>4. CASE m < i
    <3>1. m \in 1 .. Len(r) /\ r[m] = map[m]
      BY <1>1, <1>2, <2>4
    <3> QED BY <2>2, <3>1
  <2>5. CASE m > i
    <3>1. m - 1 \in 1 .. Len(r) /\ m - 1 >= i /\ (m - 1) + 1 = m
      BY <1>1, <2>5
    <3>2. r[m - 1] = map[m]
      BY <1>2, <3>1
    <3> QED BY <2>2, <3>1, <3>2
  <2> QED BY <1>1, <2>3, <2>4, <2>5
<1> QED BY <1>3, <1>4, <1>5 DEF MapOf

LEMMA MoreMapOf ==
  ASSUME NEW keys \in [Coroutines -> Keys \cup {Nil}], NEW P, NEW map \in Seq(Entries),
         MapOf(map, keys, P), NEW c \in Coroutines \ P, NEW k \in Keys,
         NEW i \in 1 .. Len(map) + 1, NEW r \in Seq(Entries), More(map, r, i, Entry(k, c))
  PROVE  MapOf(r, [keys EXCEPT ![c] = k], P \cup {c})
<1>1. Len(map) \in Nat /\ Len(r) = Len(map) + 1
  BY LenProperties DEF More
<1>2. \A j \in 1 .. Len(r) :
        /\ j < i => j \in 1 .. Len(map) /\ r[j] = map[j]
        /\ j = i => r[j] = Entry(k, c)
        /\ j > i => j - 1 \in 1 .. Len(map) /\ r[j] = map[j - 1]
  BY <1>1 DEF More
<1>3. Entry(k, c).co = c /\ Entry(k, c).key = k
  BY KeyType
<1>4. PICK next : next = [keys EXCEPT ![c] = k]
  OBVIOUS
<1>5. next[c] = k /\ \A d \in Coroutines : d # c => next[d] = keys[d]
  BY <1>4
<1>6. \A j \in 1 .. Len(map) : map[j].co \in P /\ map[j].co \in Coroutines /\ map[j].co # c
                               /\ map[j].key = keys[map[j].co]
  BY ElementKeys DEF MapOf
<1>7. \A j \in 1 .. Len(r) : r[j].co \in P \cup {c} /\ r[j].key = next[r[j].co]
  <2>1. TAKE j \in 1 .. Len(r)
  <2>2. CASE j = i
    BY <1>2, <1>3, <1>5, <2>2
  <2>3. CASE j # i
    <3>1. \E m \in 1 .. Len(map) : r[j] = map[m]
      BY <1>1, <1>2, <2>3
    <3> QED BY <1>5, <1>6, <3>1
  <2> QED BY <2>2, <2>3
<1>8. \A j, m \in 1 .. Len(r) : r[j].co = r[m].co => j = m
  <2>1. SUFFICES ASSUME NEW j \in 1 .. Len(r), NEW m \in 1 .. Len(r), r[j].co = r[m].co, j # m
                 PROVE  FALSE
    OBVIOUS
  <2>2. \A n \in 1 .. Len(r) : n # i => r[n].co # c
    <3>1. TAKE n \in 1 .. Len(r)
    <3>2. n # i => \E q \in 1 .. Len(map) : r[n] = map[q]
      BY <1>1, <1>2
    <3> QED BY <1>6, <3>2
  <2>3. CASE j = i \/ m = i
    BY <1>2, <1>3, <2>1, <2>2, <2>3
  <2>4. CASE j < i /\ m < i
    BY <1>2, <2>1, <2>4 DEF MapOf
  <2>5. CASE j < i /\ m > i
    <3>1. j = m - 1
      <4>1. map[j].co = map[m - 1].co /\ j \in 1 .. Len(map) /\ m - 1 \in 1 .. Len(map)
        BY <1>2, <2>1, <2>5
      <4> QED BY <4>1 DEF MapOf
    <3> QED BY <2>5, <3>1
  <2>6. CASE j > i /\ m < i
    <3>1. j - 1 = m
      <4>1. map[j - 1].co = map[m].co /\ j - 1 \in 1 .. Len(map) /\ m \in 1 .. Len(map)
        BY <1>2, <2>1, <2>6
      <4> QED BY <4>1 DEF MapOf
    <3> QED BY <2>6, <3>1
  <2>7. CASE j > i /\ m > i
    <3>1. j - 1 = m - 1
      <4>1. /\ map[j - 1].co = map[m - 1].co
            /\ j - 1 \in 1 .. Len(map) /\ m - 1 \in 1 .. Len(map)
        BY <1>2, <2>1, <2>7
      <4> QED BY <4>1 DEF MapOf
    <3> QED BY <2>1, <3>1
  <2> QED BY <2>3, <2>4, <2>5, <2>6, <2>7
<1>9. \A d \in P \cup {c} : \E j \in 1 .. Len(r) : r[j].co = d
  <2>1. TAKE d \in P \cup {c}
  <2>2. CASE d = c
    <3>1. i \in 1 .. Len(r)
      BY <1>1
    <3> QED BY <1>2, <1>3, <2>2, <3>1
  <2>3. CASE d # c
    <3>1. PICK m \in 1 .. Len(map) : map[m].co = d
      BY <2>3 DEF MapOf
    <3>2. CASE m < i
      <4>1. m \in 1 .. Len(r) /\ r[m] = map[m]
        BY <1>1, <1>2, <3>2
      <4> QED BY <3>1, <4>1
    <3>3. CASE m >= i
      <4>1. m + 1 \in 1 .. Len(r) /\ m + 1 > i /\ (m + 1) - 1 = m
        BY <1>1, <3>3
      <4>2. r[m + 1] = map[m]
        BY <1>2, <4>1
      <4> QED BY <3>1, <4>1, <4>2
    <3> QED BY <1>1, <3>2, <3>3
  <2> QED BY <2>2, <2>3
<1> QED BY <1>4, <1>7, <1>8, <1>9 DEF MapOf
-----------------------------------------------------------------------------
(* The two maps of the pool.                                               *)

(* The multimap is sorted and names coroutines of the pool; one of these   *)
(* keeps the tie 0, so that ties that are the same never become different. *)
MapInv ==
  /\ poolMap \in Seq(Entries) /\ Sorted(poolMap)
  /\ \A i \in 1 .. Len(poolMap) : poolMap[i].co \in Pool
  /\ workSize \in [Coroutines -> Keys \cup {Nil}]
  /\ Pool # {} => \E c \in Pool : workSize[c].tie = 0
  /\ round \in Nat /\ (Pool = {} => round = 0)
  /\ Apart => MapOf(poolMap, workSize, Pool)

(* A load of the pool changes, and the tie may be lost.                    *)
LEMMA LoadMoves ==
  ASSUME MapInv, NEW c \in Pool, NEW k \in Keys, k.tie \in {workSize[c].tie, 0},
         workSize' = [workSize EXCEPT ![c] = k]
  PROVE  /\ workSize' \in [Coroutines -> Keys \cup {Nil}]
         /\ workSize'[c] = k /\ \A d \in Coroutines : d # c => workSize'[d] = workSize[d]
         /\ Pool' = Pool
         /\ \E d \in Pool' : workSize'[d].tie = 0
         /\ Apart' => Apart
<1>1. c \in Coroutines /\ workSize[c] # Nil /\ workSize \in [Coroutines -> Keys \cup {Nil}]
  BY DEF Pool, MapInv
<1>2. workSize' \in [Coroutines -> Keys \cup {Nil}] /\ workSize'[c] = k
      /\ \A d \in Coroutines : d # c => workSize'[d] = workSize[d]
  BY <1>1
<1>3. Pool' = Pool
  BY <1>1, <1>2, KeyType DEF Pool
<1>4. PICK z \in Pool : workSize[z].tie = 0
  BY DEF MapInv
<1>5. workSize'[z].tie = 0
  BY <1>2, <1>4 DEF Pool
<1>6. Apart' => Apart
  <2>1. SUFFICES ASSUME Apart', NEW a \in Pool, NEW b \in Pool, a # b, workSize[a].tie = workSize[b].tie
                 PROVE  FALSE
    BY DEF Apart
  <2>2. \A d, e \in Pool : d # e => workSize'[d].tie # workSize'[e].tie
    BY <1>3, <2>1 DEF Apart
  <2>3. \A d \in Pool : d # c => workSize'[d].tie = workSize[d].tie
    BY <1>2 DEF Pool
  <2>4. CASE a # c /\ b # c
    BY <2>1, <2>2, <2>3, <2>4
  <2>5. CASE k.tie = workSize[c].tie
    BY <1>2, <2>1, <2>2, <2>3, <2>5
  <2>6. CASE k.tie = 0 /\ z # c
    BY <1>2, <1>4, <1>5, <2>2, <2>6
  <2>7. CASE k.tie = 0 /\ z = c
    BY <1>4, <2>5, <2>7
  <2> QED BY <2>5, <2>6, <2>7
<1> QED BY <1>2, <1>3, <1>4, <1>5, <1>6

(* Under Apart an entry's key is that of no other.                         *)
LEMMA OneOfKey ==
  ASSUME MapInv, Apart, NEW c \in Pool
  PROVE  \E i \in 1 .. Len(poolMap) :
           /\ poolMap[i].co = c /\ poolMap[i].key = workSize[c]
           /\ \A j \in 1 .. Len(poolMap) : poolMap[j].key = poolMap[i].key => j = i
<1>1. MapOf(poolMap, workSize, Pool)
  BY DEF MapInv
<1>2. PICK i \in 1 .. Len(poolMap) : poolMap[i].co = c
  BY <1>1 DEF MapOf
<1>3. poolMap[i].key = workSize[c]
  BY <1>1, <1>2 DEF MapOf
<1>4. \A j \in 1 .. Len(poolMap) : poolMap[j].key = poolMap[i].key => j = i
  <2>1. SUFFICES ASSUME NEW j \in 1 .. Len(poolMap), poolMap[j].key = poolMap[i].key
                 PROVE  poolMap[j].co = c
    BY <1>1, <1>2 DEF MapOf
  <2>2. poolMap[j].co \in Pool /\ poolMap[j].key = workSize[poolMap[j].co]
    BY <1>1 DEF MapOf
  <2> QED BY <1>3, <2>1, <2>2 DEF Apart
<1> QED BY <1>2, <1>3, <1>4

(* An entry of c was taken from the map, and one is put back.              *)
LEMMA EntryMoves ==
  ASSUME MapInv, NEW c \in Pool, NEW k \in Keys, k.tie \in {workSize[c].tie, 0},
         workSize' = [workSize EXCEPT ![c] = k],
         NEW rest \in Seq(Entries), Sorted(rest), Within(poolMap, rest),
         poolMap' = Emplace(rest, Entry(k, c)), UNCHANGED round,
         Apart => MapOf(rest, workSize, Pool \ {c})
  PROVE  MapInv' /\ Pool' = Pool
<1>1. c \in Coroutines /\ workSize \in [Coroutines -> Keys \cup {Nil}]
  BY DEF Pool, MapInv
<1>2. /\ workSize' \in [Coroutines -> Keys \cup {Nil}] /\ Pool' = Pool
      /\ \E d \in Pool' : workSize'[d].tie = 0
      /\ Apart' => Apart
  BY LoadMoves
<1>3. Entry(k, c) \in Entries /\ Entry(k, c).co = c
  BY <1>1, KeyType
<1>4. poolMap' \in Seq(Entries) /\ Sorted(poolMap')
  BY <1>3, EmplaceIs
<1>5. PICK p \in 1 .. Len(rest) + 1 : More(rest, poolMap', p, Entry(k, c))
  BY <1>3, EmplaceIs
<1>6. \A i \in 1 .. Len(poolMap') : poolMap'[i].co \in Pool'
  <2>1. WithinBut(rest, poolMap', Entry(k, c))
    BY <1>4, <1>5, MoreWithin
  <2>2. DOMAIN poolMap = 1 .. Len(poolMap) /\ DOMAIN poolMap' = 1 .. Len(poolMap')
    BY <1>4, LenProperties DEF MapInv
  <2>3. \A i \in DOMAIN rest : rest[i].co \in Pool
    BY <2>2 DEF Within, MapInv
  <2>4. \A i \in DOMAIN poolMap' : poolMap'[i] = Entry(k, c) \/ \E j \in DOMAIN rest : poolMap'[i] = rest[j]
    BY <2>1 DEF WithinBut
  <2> QED BY <1>2, <1>3, <2>2, <2>3, <2>4
<1>7. Apart' => MapOf(poolMap', workSize', Pool')
  <2>1. SUFFICES ASSUME Apart' PROVE MapOf(poolMap', workSize', Pool)
    BY <1>2
  <2>2. MapOf(rest, workSize, Pool \ {c})
    BY <1>2, <2>1
  <2>3. c \in Coroutines \ (Pool \ {c}) /\ (Pool \ {c}) \cup {c} = Pool
    BY <1>1
  <2>4. MapOf(poolMap', [workSize EXCEPT ![c] = k], (Pool \ {c}) \cup {c})
    BY <1>1, <1>4, <1>5, <2>2, <2>3, MoreMapOf
  <2> QED BY <2>3, <2>4
<1>8. round' \in Nat /\ (Pool' = {} => round' = 0)
  BY <1>2 DEF MapInv
<1> QED BY <1>2, <1>4, <1>6, <1>7, <1>8 DEF MapInv

LEMMA KeyTie ==
  ASSUME NEW load \in Int, NEW tie \in Nat
  PROVE  Key(load, tie) \in Keys /\ Key(load, tie).load = load /\ Key(load, tie).tie \in {tie, 0}
BY DEF Key, Keys

LEMMA PoolKeys ==
  ASSUME MapInv, NEW c \in Pool
  PROVE  /\ c \in Coroutines /\ workSize[c] \in Keys
         /\ workSize[c].load \in Int /\ workSize[c].tie \in Nat
BY KeyType DEF Pool, MapInv

LEMMA ChargeMap ==
  ASSUME MapInv, NEW c \in Pool, Charge(c), UNCHANGED round
  PROVE  /\ MapInv' /\ Pool' = Pool
         /\ \A d \in Pool : workSize'[d].load = workSize[d].load + IF d = c THEN 1 ELSE 0
<1>1. /\ c \in Coroutines /\ workSize[c] \in Keys
      /\ workSize[c].load \in Int /\ workSize[c].tie \in Nat
  BY PoolKeys
<1>2. PICK k : k = Key(workSize[c].load + 1, workSize[c].tie)
  OBVIOUS
<1>3. k \in Keys /\ k.load = workSize[c].load + 1 /\ k.tie \in {workSize[c].tie, 0}
  BY <1>1, <1>2, KeyTie
<1>4. /\ workSize' = [workSize EXCEPT ![c] = k]
      /\ poolMap' = Emplace(Erase(poolMap, workSize[c]), Entry(k, c))
  BY <1>2 DEF Charge, ChargedEntry
<1>5. PICK rest : rest = Erase(poolMap, workSize[c])
  OBVIOUS
<1>6. rest \in Seq(Entries) /\ Sorted(rest) /\ Within(poolMap, rest)
  BY <1>1, <1>5, EraseIs DEF MapInv
<1>7. Apart => MapOf(rest, workSize, Pool \ {c})
  <2>1. SUFFICES ASSUME Apart PROVE MapOf(rest, workSize, Pool \ {c})
    OBVIOUS
  <2>2. PICK i \in 1 .. Len(poolMap) :
          /\ poolMap[i].co = c /\ poolMap[i].key = workSize[c]
          /\ \A j \in 1 .. Len(poolMap) : poolMap[j].key = poolMap[i].key => j = i
    BY <2>1, OneOfKey
  <2>3. poolMap \in Seq(Entries) /\ Sorted(poolMap) /\ MapOf(poolMap, workSize, Pool)
    BY <2>1 DEF MapInv
  <2>4. Erase(poolMap, poolMap[i].key) = RemoveAt(poolMap, i)
    BY <2>2, <2>3, AtKey
  <2>5. rest = RemoveAt(poolMap, i)
    BY <1>5, <2>2, <2>4
  <2>6. Less(poolMap, rest, i)
    BY <2>3, <2>5, RemoveIs
  <2> QED BY <1>6, <2>2, <2>3, <2>6, LessMapOf
<1>8. MapInv' /\ Pool' = Pool
  BY <1>3, <1>4, <1>5, <1>6, <1>7, EntryMoves
<1>9. workSize'[c] = k /\ \A d \in Coroutines : d # c => workSize'[d] = workSize[d]
  BY <1>3, <1>4, LoadMoves
<1>10. \A d \in Pool : d \in Coroutines /\ workSize[d].load \in Int
  BY PoolKeys
<1>11. \A d \in Pool : workSize'[d].load = workSize[d].load + IF d = c THEN 1 ELSE 0
  BY <1>3, <1>9, <1>10
<1> QED BY <1>8, <1>11

LEMMA DischargeMap ==
  ASSUME MapInv, NEW c \in Pool, Discharge(c), UNCHANGED round
  PROVE  \/ /\ MapInv' /\ Pool' = Pool /\ UNCHANGED fault
            /\ \A d \in Pool : workSize'[d].load = workSize[d].load - IF d = c THEN 1 ELSE 0
         \/ ~ Apart /\ fault' = "pool" /\ UNCHANGED <<poolMap, workSize>>
<1>1. /\ c \in Coroutines /\ workSize[c] \in Keys
      /\ workSize[c].load \in Int /\ workSize[c].tie \in Nat
  BY PoolKeys
<1>2. /\ poolMap \in Seq(Entries) /\ Sorted(poolMap)
      /\ DOMAIN poolMap = 1 .. Len(poolMap) /\ Len(poolMap) \in Nat
  BY LenProperties DEF MapInv
<1>3. CASE Find(workSize[c]) = {}
  <2>1. ~ Apart
    BY <1>2, <1>3, OneOfKey DEF Find
  <2> QED BY <1>3, <2>1 DEF Discharge
<1>4. CASE Find(workSize[c]) # {}
  <2>1. PICK k : k = Lower(workSize[c])
    OBVIOUS
  <2>2. k \in Keys /\ k.load = workSize[c].load - 1 /\ k.tie \in {workSize[c].tie, 0}
    BY <1>1, <2>1, KeyTie DEF Lower
  <2>3. PICK first : first = LowerBound(poolMap, workSize[c]) + 1
    OBVIOUS
  <2>4. PICK rest : rest = RemoveAt(poolMap, first)
    OBVIOUS
  <2>5. /\ workSize' = [workSize EXCEPT ![c] = k] /\ UNCHANGED fault
        /\ poolMap' = Emplace(rest, Entry(k, c))
    BY <1>4, <2>1, <2>3, <2>4 DEF Discharge
  <2>6. first \in 1 .. Len(poolMap)
    <3>1. PICK i \in 1 .. Len(poolMap) : poolMap[i].key = workSize[c]
      BY <1>2, <1>4 DEF Find
    <3>2. ~ Before(poolMap[i].key, workSize[c])
      BY <1>1, <3>1, KeysOrder
    <3>3. /\ LowerBound(poolMap, workSize[c]) \in Nat
          /\ ~ (i <= LowerBound(poolMap, workSize[c]))
      BY <1>1, <1>2, <3>2, BoundsAre
    <3> QED BY <1>2, <2>3, <3>3
  <2>7. rest \in Seq(Entries) /\ Less(poolMap, rest, first) /\ Within(poolMap, rest)
    BY <1>2, <2>4, <2>6, RemoveIs, LessWithin
  <2>8. Sorted(rest)
    <3>1. first - 1 \in Nat /\ first \in Nat /\ first - 1 <= first /\ first <= Len(poolMap)
      BY <2>6
    <3>2. rest = Cut(poolMap, first - 1, first)
      BY <2>4 DEF Cut, RemoveAt
    <3> QED BY <1>2, <3>1, <3>2, CutSorted
  <2>9. Apart => MapOf(rest, workSize, Pool \ {c})
    <3>1. SUFFICES ASSUME Apart PROVE MapOf(rest, workSize, Pool \ {c})
      OBVIOUS
    <3>2. PICK i \in 1 .. Len(poolMap) :
            /\ poolMap[i].co = c /\ poolMap[i].key = workSize[c]
            /\ \A j \in 1 .. Len(poolMap) : poolMap[j].key = poolMap[i].key => j = i
      BY <3>1, OneOfKey
    <3>3. MapOf(poolMap, workSize, Pool)
      BY <3>1 DEF MapInv
    <3>4. LowerBound(poolMap, poolMap[i].key) = i - 1
      BY <1>2, <3>2, AtKey
    <3>5. first = i
      BY <2>3, <3>2, <3>4
    <3> QED BY <1>2, <2>7, <3>2, <3>3, <3>5, LessMapOf
  <2>10. MapInv' /\ Pool' = Pool
    BY <2>2, <2>5, <2>7, <2>8, <2>9, EntryMoves
  <2>11. workSize'[c] = k /\ \A d \in Coroutines : d # c => workSize'[d] = workSize[d]
    BY <2>2, <2>5, LoadMoves
  <2>12. \A d \in Pool : d \in Coroutines /\ workSize[d].load \in Int
    BY PoolKeys
  <2>13. \A d \in Pool : workSize'[d].load = workSize[d].load - IF d = c THEN 1 ELSE 0
    BY <2>2, <2>11, <2>12
  <2> QED BY <2>5, <2>10, <2>13
<1> QED BY <1>3, <1>4

(* A coroutine more.                                                       *)
LEMMA FillMap ==
  ASSUME MapInv, NEW c \in Coroutines \ Pool, NEW key, key = Key(0, round + Len(poolMap)),
         poolMap' = Emplace(poolMap, Entry(key, c)),
         workSize' = [workSize EXCEPT ![c] = key], round' = round + 1
  PROVE  /\ MapInv' /\ Pool' = Pool \cup {c}
         /\ workSize'[c].load = 0
         /\ \A d \in Pool : workSize'[d] = workSize[d]
<1>1. /\ poolMap \in Seq(Entries) /\ Sorted(poolMap) /\ round \in Nat
      /\ DOMAIN poolMap = 1 .. Len(poolMap) /\ Len(poolMap) \in Nat
      /\ workSize \in [Coroutines -> Keys \cup {Nil}]
  BY LenProperties DEF MapInv
<1>2. key \in Keys /\ key.load = 0 /\ key.tie \in {round + Len(poolMap), 0}
  <2>1. 0 \in Int /\ round + Len(poolMap) \in Nat
    BY <1>1
  <2> QED BY <2>1, KeyTie
<1>3. Entry(key, c) \in Entries /\ Entry(key, c).co = c
  BY <1>2, KeyType
<1>4. poolMap' \in Seq(Entries) /\ Sorted(poolMap')
  BY <1>1, <1>3, EmplaceIs
<1>5. PICK p \in 1 .. Len(poolMap) + 1 : More(poolMap, poolMap', p, Entry(key, c))
  BY <1>1, <1>3, EmplaceIs
<1>6. /\ workSize' \in [Coroutines -> Keys \cup {Nil}] /\ workSize'[c] = key
      /\ \A d \in Coroutines : d # c => workSize'[d] = workSize[d]
  BY <1>1, <1>2
<1>7. Pool' = Pool \cup {c}
  BY <1>2, <1>6, KeyType DEF Pool
<1>8. \A d \in Pool : workSize'[d] = workSize[d]
  BY <1>6 DEF Pool
<1>9. \A i \in 1 .. Len(poolMap') : poolMap'[i].co \in Pool'
  <2>1. WithinBut(poolMap, poolMap', Entry(key, c))
    BY <1>1, <1>4, <1>5, MoreWithin
  <2>2. DOMAIN poolMap' = 1 .. Len(poolMap')
    BY <1>4, LenProperties
  <2>3. \A i \in DOMAIN poolMap : poolMap[i].co \in Pool
    BY <1>1 DEF MapInv
  <2>4. \A i \in DOMAIN poolMap' :
          poolMap'[i] = Entry(key, c) \/ \E j \in DOMAIN poolMap : poolMap'[i] = poolMap[j]
    BY <2>1 DEF WithinBut
  <2> QED BY <1>3, <1>7, <2>2, <2>3, <2>4
<1>10. \E d \in Pool' : workSize'[d].tie = 0
  <2>1. CASE Pool # {}
    BY <1>7, <1>8, <2>1 DEF MapInv
  <2>2. CASE Pool = {}
    <3>1. round = 0 /\ \A i \in 1 .. Len(poolMap) : FALSE
      BY <2>2 DEF MapInv
    <3>2. Len(poolMap) = 0
      BY <1>1, <3>1
    <3>3. key.tie = 0
      BY <1>2, <3>1, <3>2
    <3> QED BY <1>6, <1>7, <3>3
  <2> QED BY <2>1, <2>2
<1>11. Apart' => MapOf(poolMap', workSize', Pool')
  <2>1. SUFFICES ASSUME Apart' PROVE MapOf(poolMap', workSize', Pool')
    OBVIOUS
  <2>2. Apart
    BY <1>7, <1>8, <2>1 DEF Apart
  <2>3. MapOf(poolMap, workSize, Pool)
    BY <2>2 DEF MapInv
  <2>4. MapOf(poolMap', [workSize EXCEPT ![c] = key], Pool \cup {c})
    BY <1>1, <1>2, <1>4, <1>5, <2>3, MoreMapOf
  <2> QED BY <1>7, <2>4
<1>12. round' \in Nat /\ Pool' # {}
  BY <1>1, <1>7
<1>13. MapInv'
  BY <1>4, <1>6, <1>9, <1>10, <1>11, <1>12 DEF MapInv
<1> QED BY <1>2, <1>6, <1>7, <1>8, <1>13
-----------------------------------------------------------------------------
(* A step of the coroutines: what it leaves of what the pool relies on.    *)

PoolLabels == {"fill", "filling", "choose", "connect", "grow", "growing"}

Registration(x) == Function("register", x, Watch)

(* The functions only the pool posts, and those the coroutines do.         *)
Pools(f) == f.do = "unload" \/ (f.do = "register" /\ f.who = Watch)

Ours == {f \in Posted : ~ Pools(f)}

Unloading(c) == \E i \in DOMAIN queue[c] : queue[c][i].do = "unload"

Adds(f) == \E c \in Coroutines : queue' = [queue EXCEPT ![c] = Append(queue[c], f)]

(* The coroutines run no function of the pool's but a registration.        *)
QueueMoves ==
  \/ queue' = queue
  \/ \E f \in Ours : Adds(f)
  \/ \E c \in Coroutines :
       /\ queue[c] # <<>> /\ Head(queue[c]).do # "unload"
       /\ \/ queue' = [queue EXCEPT ![c] = Tail(queue[c])]
          \/ \E f \in Ours : queue' = [queue EXCEPT ![c] = Append(Tail(queue[c]), f)]

Registering(x) ==
  \E c \in Coroutines : \E i \in DOMAIN queue[c] : queue[c][i] = Registration(x)

WaitersMove ==
  \A x \in Contexts : Watch \in waiters'[x] => Watch \in waiters[x] \/ Registering(x)

(* What becomes of the connections of a context that completes.            *)
Completes(x) ==
  /\ x \notin dead /\ dead' = dead \cup {x}
  /\ todo' = [todo EXCEPT ![x] = waiters[x]] /\ told' = told

Calling(x, j) ==
  /\ j \in todo[x] /\ todo' = [todo EXCEPT ![x] = @ \ {j}] /\ dead' = dead
  /\ told' = IF j = Watch THEN Append(told, x) ELSE told

SignalsMove ==
  \/ UNCHANGED <<todo, told, dead>>
  \/ \E x \in Contexts : Completes(x) \/ \E j \in todo[x] : Calling(x, j)

(* Threads in the pool's functions are left alone, and contexts and        *)
(* coroutines stay what they are.                                          *)
CallersStay ==
  /\ \A x \in Contexts : home[x] # Nil => home'[x] = home[x]
  /\ \A c \in Coroutines : at[c] # "none" => at'[c] # "none"
  /\ \A t \in Threads : pc[t] \in PoolLabels \/ pc'[t] \in PoolLabels =>
                          pc'[t] = pc[t] /\ target'[t] = target[t]
  /\ fault' = "pool" => fault = "pool"

CoQuiet == QueueMoves /\ WaitersMove /\ SignalsMove /\ CallersStay

LEMMA PostOurs ==
  ASSUME TypeInv, NEW c \in Coroutines \cup {Nil}, NEW f \in Ours, Post(c, f)
  PROVE  QueueMoves
<1>1. queue' = [queue EXCEPT ![c] = Append(queue[c], f)]
  BY DEF Post
<1>2. CASE c \in Coroutines
  BY <1>1, <1>2 DEF QueueMoves, Adds
<1>3. CASE c \notin Coroutines
  <2>1. queue' = queue
    BY <1>1, <1>3 DEF TypeInv, QueueType
  <2> QED BY <2>1 DEF QueueMoves
<1> QED BY <1>2, <1>3

LEMMA OursAre ==
  /\ \A x \in Contexts, do \in {"start", "ready", "resume", "slot", "timeout"} : Function(do, x, Nil) \in Ours
  /\ \A x, y \in Contexts : Function("register", x, y) \in Ours
  /\ Function("null", Nil, Nil) \in Ours
<1>1. \A x \in Contexts, do \in {"start", "ready", "resume", "slot", "timeout"} : Function(do, x, Nil) \in Ours
  BY PostedOf, FieldsOf DEF Ours, Pools
<1>2. \A x, y \in Contexts : Function("register", x, y) \in Ours
  BY PostedOf, FieldsOf, CoroutineAssumption DEF Ours, Pools
<1>3. Function("null", Nil, Nil) \in Ours
  BY PostedOf, FieldsOf DEF Ours, Pools
<1> QED BY <1>1, <1>2, <1>3

LEMMA SwitchBackStays ==
  ASSUME TypeInv, NEW x \in Contexts, Executes(x), SwitchBack(home[x])
  PROVE  home[x] \in Coroutines /\ \A c \in Coroutines : at[c] # "none" => at'[c] # "none"
<1>1. TypeOK
  BY DEF TypeInv
<1> QED BY <1>1, ExecutesIs, SwitchBackType

LEMMA HomeIs ==
  ASSUME TypeInv, NEW x \in Contexts
  PROVE  home[x] \in Coroutines \cup {Nil} /\ (Executes(x) => home[x] \in Coroutines)
BY DEF TypeInv, TypeOK, Executes

(* Steps of a coroutine's thread outside contexts.                         *)
LEMMA QuietCoroutine ==
  ASSUME TypeInv, NEW c \in Coroutines,
         Top(c) \/ Drained(c) \/ EndThread(c) \/ Delete(c) \/ (\E t \in Threads : NewInstance(t, c))
  PROVE  CoQuiet
<1>1. UNCHANGED <<home, pc, waiters, todo, target, told, dead>>
  BY DEF Top, Drained, EndThread, Delete, NewInstance, joinVars
<1>2. WaitersMove /\ SignalsMove
  BY <1>1 DEF WaitersMove, SignalsMove
<1>3. QueueMoves
  <2>1. CASE Delete(c)
    BY <2>1, OursAre, PostOurs DEF Delete
  <2>2. CASE ~ Delete(c)
    <3>1. queue' = queue
      BY <2>2 DEF Top, Drained, EndThread, NewInstance, Create
    <3> QED BY <3>1 DEF QueueMoves
  <2> QED BY <2>1, <2>2
<1>4. \A d \in Coroutines : at[d] # "none" => at'[d] # "none"
  <2>1. CASE \E t \in Threads : NewInstance(t, c)
    BY <2>1 DEF NewInstance, Create
  <2>2. CASE Top(c) \/ Drained(c) \/ EndThread(c) \/ Delete(c)
    BY <2>2 DEF Top, Drained, EndThread, Delete, CoGoto, NextStep, TypeInv, TypeOK
  <2> QED BY <2>1, <2>2
<1>5. fault' = "pool" => fault = "pool"
  BY DEF Top, Drained, EndThread, Delete, NewInstance
<1>6. CallersStay
  BY <1>1, <1>4, <1>5 DEF CallersStay
<1> QED BY <1>2, <1>3, <1>6 DEF CoQuiet

LEMMA QuietRun ==
  ASSUME TypeInv, NEW c \in Coroutines, RunFunction(c) PROVE CoQuiet
<1>1. PICK f \in Posted : Runs(c, f)
  BY RunIs
<1>2. UNCHANGED <<home, pc, todo, target, told, dead>>
  BY DEF RunFunction
<1>3. QueueMoves
  <2>1. queue[c] # <<>> /\ Head(queue[c]).do # "unload"
    BY DEF RunFunction
  <2>2. CASE f.do \in Resuming /\ queue' = [queue EXCEPT ![c] = Append(Tail(queue[c]), Resumption(f))]
    <3>1. f.ctx \in Contexts
      BY <2>2, PostedIs DEF Resuming
    <3>2. Resumption(f) \in Ours
      BY <3>1, OursAre DEF Resumption
    <3> QED BY <2>1, <2>2, <3>2 DEF QueueMoves
  <2>3. CASE f.do # "slot" /\ queue' = [queue EXCEPT ![c] = Tail(queue[c])]
    BY <2>1, <2>3 DEF QueueMoves
  <2> QED BY <1>1, <2>2, <2>3 DEF Runs
<1>4. WaitersMove
  <2>1. SUFFICES ASSUME NEW x \in Contexts, Watch \in waiters'[x], Watch \notin waiters[x]
                 PROVE  Registering(x)
    BY DEF WaitersMove
  <2>2. f.do = "register" /\ f.ctx = x /\ f.who = Watch
    BY <1>1, <2>1 DEF Runs, TypeInv, TypeOK
  <2>3. f = Registration(x)
    BY <2>2, PostedIs DEF Registration
  <2>4. 1 \in DOMAIN queue[c] /\ f = queue[c][1]
    BY <1>1, HeadTailProperties, LenProperties, EmptySeq DEF Runs
  <2> QED BY <2>3, <2>4 DEF Registering
<1>5. \A d \in Coroutines : at[d] # "none" => at'[d] # "none"
  BY DEF RunFunction, CoGoto, TypeInv, TypeOK
<1>6. fault' = "pool" => fault = "pool"
  BY DEF RunFunction
<1>7. CallersStay
  BY <1>2, <1>5, <1>6 DEF CallersStay
<1>8. SignalsMove
  BY <1>2 DEF SignalsMove
<1> QED BY <1>3, <1>4, <1>7, <1>8 DEF CoQuiet

LEMMA QuietSwitch ==
  ASSUME TypeInv, NEW c \in Coroutines, Switch(c) PROVE CoQuiet
<1>1. PICK x \in Contexts : Switches(c, x)
  BY SwitchIs
<1>2. UNCHANGED <<queue, home, waiters, todo, told, dead>>
  BY DEF Switch
<1>3. QueueMoves /\ WaitersMove /\ SignalsMove
  BY <1>2 DEF QueueMoves, WaitersMove, SignalsMove
<1>4. \A t \in Threads : pc'[t] = pc[t] /\ target'[t] = target[t]
  BY <1>1, Different DEF Switches, TypeInv, TypeOK, Callers
<1>5. \A d \in Coroutines : at[d] # "none" => at'[d] # "none"
  BY DEF Switch, CoGoto, TypeInv, TypeOK
<1>6. fault' = "pool" => fault = "pool"
  BY DEF Switch
<1>7. CallersStay
  BY <1>2, <1>4, <1>5, <1>6 DEF CallersStay
<1> QED BY <1>3, <1>7 DEF CoQuiet

(* Steps of contexts.                                                      *)
LEMMA QuietComplete ==
  ASSUME TypeInv, NEW x \in Contexts, Complete(x) PROVE CoQuiet
<1>1. UNCHANGED <<queue, at, home, waiters, target, told>>
  BY DEF Complete, coVars
<1>2. x \notin dead
  BY DEF Complete, TypeInv, AtWork
<1>3. Completes(x)
  BY <1>1, <1>2 DEF Complete, Completes
<1>4. \A t \in Threads : pc[t] \in PoolLabels \/ pc'[t] \in PoolLabels => pc'[t] = pc[t]
  BY Different DEF Complete, Callers, PoolLabels
<1>5. fault' = "pool" => fault = "pool"
  BY DEF Complete
<1>6. CallersStay
  BY <1>1, <1>4, <1>5 DEF CallersStay
<1>7. QueueMoves /\ WaitersMove /\ SignalsMove
  BY <1>1, <1>3 DEF QueueMoves, WaitersMove, SignalsMove
<1> QED BY <1>6, <1>7 DEF CoQuiet

LEMMA QuietSlot ==
  ASSUME TypeInv, NEW x \in Contexts, Slot(x) PROVE CoQuiet
<1>1. PICK j \in todo[x] :
       /\ todo' = [todo EXCEPT ![x] = @ \ {j}]
       /\ \/ /\ j = Watch
             /\ told' = Append(told, x)
             /\ UNCHANGED <<queue, pc, coVars, running>>
          \/ /\ j # Watch /\ home[j] # home[x]
             /\ Post(home[j], Function("slot", j, Nil))
             /\ UNCHANGED <<told, pc, coVars, running>>
          \/ /\ j # Watch /\ home[j] = home[x]
             /\ Post(home[j], Function("resume", j, Nil))
             /\ Goto(x, "emitYield")
             /\ UNCHANGED <<told, coVars, running>>
  BY DEF Slot, SlotLoop
<1>2. UNCHANGED <<home, dead, waiters, target, fault, at>>
  BY <1>1 DEF Slot, coVars
<1>3. j # Watch => j \in Contexts /\ home[j] \in Coroutines \cup {Nil}
  BY DEF TypeInv, TypeOK
<1>4. QueueMoves
  <2>1. CASE queue' = queue
    BY <2>1 DEF QueueMoves
  <2>2. CASE j # Watch /\ \E f \in Ours : Post(home[j], f)
    BY <1>3, <2>2, PostOurs
  <2> QED BY <1>1, <1>3, <2>1, <2>2, OursAre
<1>5. Calling(x, j)
  BY <1>1, <1>2 DEF Calling
<1>6. \A t \in Threads : pc'[t] = pc[t]
  BY <1>1, Different DEF Goto, TypeInv, TypeOK, Callers
<1>7. CallersStay
  BY <1>2, <1>6 DEF CallersStay
<1>8. WaitersMove /\ SignalsMove
  BY <1>2, <1>5 DEF WaitersMove, SignalsMove
<1> QED BY <1>4, <1>7, <1>8 DEF CoQuiet

(* Steps with which a context gives its turn back.                         *)
LEMMA QuietBack ==
  ASSUME TypeInv, NEW x \in Contexts,
         EmitYield(x) \/ Leave(x) \/ Yield(x) \/ Pending(x)
  PROVE  CoQuiet
<1>1. UNCHANGED <<home, dead, waiters, todo, target, told, fault>>
  BY DEF EmitYield, Leave, Yield, Pending, joinVars
<1>2. TypeOK
  BY DEF TypeInv
<1>3. Executes(x) /\ SwitchBack(home[x])
  BY <1>2, MayIs DEF EmitYield, Leave, Yield, YieldBody, Pending
<1>4. home[x] \in Coroutines /\ \A c \in Coroutines : at[c] # "none" => at'[c] # "none"
  BY <1>3, SwitchBackStays
<1>5. QueueMoves
  <2>1. CASE queue' = queue
    BY <2>1 DEF QueueMoves
  <2>2. CASE Post(home[x], Function("ready", x, Nil))
    BY <1>4, <2>2, OursAre, PostOurs
  <2> QED BY <2>1, <2>2 DEF EmitYield, Leave, Yield, YieldBody, Pending
<1>6. \A t \in Threads : pc'[t] = pc[t]
  BY Different DEF EmitYield, Leave, Yield, Pending, Goto, TypeInv, TypeOK, Callers
<1>7. CallersStay
  BY <1>1, <1>4, <1>6 DEF CallersStay
<1>8. WaitersMove /\ SignalsMove
  BY <1>1 DEF WaitersMove, SignalsMove
<1> QED BY <1>5, <1>7, <1>8 DEF CoQuiet

LEMMA QuietFires ==
  ASSUME TypeInv, NEW x \in Contexts, TimerFires(x) PROVE CoQuiet
<1>1. UNCHANGED <<at, home, pc, dead, waiters, todo, target, told, fault>>
  BY DEF TimerFires, coVars, joinVars
<1>2. QueueMoves
  <2>1. Post(home[x], Function("timeout", x, Nil))
    BY DEF TimerFires
  <2> QED BY <2>1, HomeIs, OursAre, PostOurs
<1> QED BY <1>1, <1>2 DEF CoQuiet, CallersStay, WaitersMove, SignalsMove

LEMMA QuietJoin ==
  ASSUME TypeInv, NEW x \in Contexts, NEW y \in Contexts, Join(x, y) PROVE CoQuiet
<1>1. UNCHANGED <<home, pc, dead, todo, told, fault>>
  BY DEF Join
<1>2. TypeOK
  BY DEF TypeInv
<1>3. Executes(x)
  BY <1>2, MayIs DEF Join
<1>4. \A t \in Threads : target'[t] = target[t]
  BY Different DEF Join, TypeInv, TypeOK, Callers
<1>5. \A c \in Coroutines : at[c] # "none" => at'[c] # "none"
  BY <1>3, SwitchBackStays DEF Join, coVars
<1>6. QueueMoves
  <2>1. CASE queue' = queue
    BY <2>1 DEF QueueMoves
  <2>2. CASE Post(home[y], Function("register", y, x))
    BY <2>2, HomeIs, OursAre, PostOurs
  <2> QED BY <2>1, <2>2 DEF Join
<1>7. \A z \in Contexts : Watch \in waiters'[z] => Watch \in waiters[z]
  <2>1. Watch # x
    BY CoroutineAssumption
  <2>2. \/ waiters' = waiters
        \/ waiters' = [waiters EXCEPT ![y] = waiters[y] \cup {x}]
    BY DEF Join
  <2>3. waiters \in [Contexts -> SUBSET (Contexts \cup {Watch})]
    BY DEF TypeInv, TypeOK
  <2> QED BY <2>1, <2>2, <2>3
<1>8. CallersStay
  BY <1>1, <1>4, <1>5 DEF CallersStay
<1> QED BY <1>1, <1>6, <1>7, <1>8 DEF CoQuiet, WaitersMove, SignalsMove

(* Steps of other threads, and calls of both.                              *)
LEMMA QuietThread ==
  ASSUME TypeInv, NEW t \in Threads,
         ThreadStep(t) \/ (\E x \in Contexts : ThreadJoin(t, x))
           \/ (\E c \in Coroutines : DeleteLater(t, c))
  PROVE  CoQuiet
<1>1. UNCHANGED <<at, home, dead, waiters, todo, told>>
  BY DEF ThreadStep, ThreadWaits, Terminate, UseLoop, ThreadJoin, DeleteLater, coVars, joinVars
<1>2. QueueMoves
  <2>1. CASE queue' = queue
    BY <2>1 DEF QueueMoves
  <2>2. CASE \E c \in Coroutines : Post(c, Function("null", Nil, Nil))
    BY <2>2, OursAre, PostOurs
  <2>3. CASE UseLoop(t)
    <3>1. target[t] \in Coroutines
      BY <2>3 DEF UseLoop, TypeInv, AtWork
    <3> QED BY <2>1, <2>2, <2>3, <3>1 DEF UseLoop
  <2> QED BY <2>1, <2>2, <2>3 DEF ThreadStep, ThreadWaits, Terminate, ThreadJoin, DeleteLater
<1>3. \A v \in Threads : pc[v] \in PoolLabels \/ pc'[v] \in PoolLabels =>
                           pc'[v] = pc[v] /\ target'[v] = target[v]
  <2>1. CASE ThreadWaits(t)
    BY <2>1 DEF ThreadWaits, Goto, PoolLabels, TypeInv, TypeOK, Callers
  <2>2. CASE Terminate(t) \/ UseLoop(t)
    BY <2>2 DEF Terminate, UseLoop, Goto, PoolLabels, TypeInv, TypeOK, Callers, joinVars
  <2>3. CASE \E x \in Contexts : ThreadJoin(t, x)
    BY <2>3 DEF ThreadJoin, May, Goto, PoolLabels, TypeInv, TypeOK, Callers
  <2>4. CASE \E c \in Coroutines : DeleteLater(t, c)
    BY <2>4 DEF DeleteLater, May, Goto, PoolLabels, TypeInv, TypeOK, Callers
  <2> QED BY <2>1, <2>2, <2>3, <2>4 DEF ThreadStep
<1>4. fault' = "pool" => fault = "pool"
  BY DEF ThreadStep, ThreadWaits, Terminate, UseLoop, ThreadJoin, DeleteLater
<1>5. CallersStay
  BY <1>1, <1>3, <1>4 DEF CallersStay
<1> QED BY <1>1, <1>2, <1>5 DEF CoQuiet, WaitersMove, SignalsMove

LEMMA QuietWork ==
  ASSUME TypeInv, NEW u \in Callers, NEW x \in Contexts, Work(u, x) PROVE CoQuiet
<1>1. UNCHANGED <<at, pc, target, dead, waiters, todo, told, fault>>
  BY DEF Work, coVars, joinVars
<1>2. PICK c \in Coroutines : Hand(c, x)
  BY DEF Work
<1>3. QueueMoves
  BY <1>2, OursAre, PostOurs DEF Hand
<1>4. \A y \in Contexts : home[y] # Nil => home'[y] = home[y]
  BY <1>2 DEF Hand, TypeInv, TypeOK
<1> QED BY <1>1, <1>3, <1>4 DEF CoQuiet, CallersStay, WaitersMove, SignalsMove

LEMMA QuietResume ==
  ASSUME TypeInv, NEW u \in Callers, NEW x \in Contexts, Resume(u, x) PROVE CoQuiet
<1>1. UNCHANGED <<at, home, target, dead, waiters, todo, told, fault>>
  BY DEF Resume, coVars, joinVars
<1>2. Post(home[x], Function("resume", x, Nil))
  BY DEF Resume
<1>3. QueueMoves
  BY <1>2, HomeIs, OursAre, PostOurs
<1>4. \A t \in Threads : pc'[t] = pc[t]
  BY Different DEF Resume, TypeInv, TypeOK, Callers
<1> QED BY <1>1, <1>3, <1>4 DEF CoQuiet, CallersStay, WaitersMove, SignalsMove

LEMMA QuietStep == ASSUME TypeInv, [Next]_vars PROVE CoQuiet
<1>1. CASE UNCHANGED vars
  BY <1>1 DEF vars, coVars, joinVars, CoQuiet, QueueMoves, WaitersMove, SignalsMove, CallersStay
<1> QED
  BY <1>1, StepCases, QuietCoroutine, QuietRun, QuietSwitch, QuietComplete, QuietSlot,
     QuietBack, QuietFires, QuietJoin, QuietThread, QuietWork, QuietResume
-----------------------------------------------------------------------------
(* What the pool's functions rely on.  A thread in them has the context it *)
(* hands over, and the coroutine that has got one is one of the pool; the  *)
(* coroutines of the pool have been created.                               *)

ThreadWork(t) ==
  /\ pc[t] \in {"fill", "filling", "choose", "connect"} =>
       target[t] \in Contexts \cup {Nil} /\ init
  /\ pc[t] = "connect" => target[t] \in Contexts /\ home[target[t]] \in Pool
  /\ pc[t] \in {"grow", "growing"} => target[t] = Nil

PoolWork ==
  /\ init \in BOOLEAN /\ poolSize \in Nat /\ size \in [Threads -> Nat]
  /\ \A t \in Threads : ThreadWork(t)
  /\ \A c \in Pool : at[c] # "none"

(* The connection of x is on its way, made, or being called.               *)
Registered(x) ==
  \/ Watch \in waiters[x] \cup todo[x]
  \/ \E i \in DOMAIN told : told[i] = x
  \/ Registering(x)

(* Whatever will discharge a coroutine is about one of the pool.           *)
OwedInv ==
  /\ \A x \in Contexts : Registered(x) => home[x] \in Pool
  /\ \A c \in Coroutines : Unloading(c) => c \in Pool

PoolInv == TypeInv /\ MapInv /\ PoolWork /\ OwedInv

LEMMA QueueMovesIs ==
  ASSUME TypeInv, QueueMoves, NEW c \in Coroutines, NEW i \in DOMAIN queue'[c], Pools(queue'[c][i])
  PROVE  \E j \in DOMAIN queue[c] : queue[c][j] = queue'[c][i]
<1> USE DEF TypeInv
<1>1. CASE queue' = queue
  BY <1>1
<1>2. CASE \E f \in Ours : Adds(f)
  <2>1. PICK f \in Ours, d \in Coroutines : queue' = [queue EXCEPT ![d] = Append(queue[d], f)]
    BY <1>2 DEF Adds
  <2>2. CASE c = d
    <3>1. queue'[c] = Append(queue[c], f) /\ queue[c] \in Seq(Posted) /\ f \in Posted
      BY <2>1, <2>2 DEF QueueType, Ours
    <3>2. (i \in DOMAIN queue[c] /\ queue'[c][i] = queue[c][i]) \/ queue'[c][i] = f
      BY <3>1, AppendProperties, LenProperties
    <3> QED BY <3>2 DEF Ours
  <2>3. CASE c # d
    BY <2>1, <2>3 DEF QueueType
  <2> QED BY <2>2, <2>3
<1>3. CASE \E d \in Coroutines :
             /\ queue[d] # <<>>
             /\ \/ queue' = [queue EXCEPT ![d] = Tail(queue[d])]
                \/ \E f \in Ours : queue' = [queue EXCEPT ![d] = Append(Tail(queue[d]), f)]
  <2>1. PICK d \in Coroutines :
             /\ queue[d] # <<>>
             /\ \/ queue' = [queue EXCEPT ![d] = Tail(queue[d])]
                \/ \E f \in Ours : queue' = [queue EXCEPT ![d] = Append(Tail(queue[d]), f)]
    BY <1>3
  <2>2. CASE c = d
    <3>1. queue[c] \in Seq(Posted) /\ queue[c] # <<>>
      BY <2>1, <2>2 DEF QueueType
    <3>2. /\ Tail(queue[c]) \in Seq(Posted)
          /\ \A j \in DOMAIN Tail(queue[c]) : j + 1 \in DOMAIN queue[c] /\ Tail(queue[c])[j] = queue[c][j + 1]
      BY <3>1, HeadTailProperties, LenProperties, EmptySeq
    <3>3. CASE queue'[c] = Tail(queue[c])
      BY <3>2, <3>3
    <3>4. CASE \E f \in Ours : queue'[c] = Append(Tail(queue[c]), f)
      <4>1. PICK f \in Ours : queue'[c] = Append(Tail(queue[c]), f)
        BY <3>4
      <4>2. \/ i \in DOMAIN Tail(queue[c]) /\ queue'[c][i] = Tail(queue[c])[i]
            \/ queue'[c][i] = f
        BY <3>2, <4>1, AppendProperties, LenProperties DEF Ours
      <4> QED BY <3>2, <4>2 DEF Ours
    <3>5. queue'[c] = Tail(queue[c]) \/ \E f \in Ours : queue'[c] = Append(Tail(queue[c]), f)
      BY <2>1, <2>2 DEF QueueType
    <3> QED BY <3>3, <3>4, <3>5
  <2>3. CASE c # d
    <3>1. queue'[c] = queue[c]
      BY <2>1, <2>3 DEF QueueType
    <3> QED BY <3>1
  <2> QED BY <2>2, <2>3
<1> QED BY <1>1, <1>2, <1>3 DEF QueueMoves

LEMMA OwedStays ==
  ASSUME TypeInv, CoQuiet
  PROVE  /\ \A x \in Contexts : Registered(x)' => Registered(x)
         /\ \A c \in Coroutines : Unloading(c)' => Unloading(c)
<1>1. \A x \in Contexts : Registering(x)' => Registering(x)
  <2>1. SUFFICES ASSUME NEW x \in Contexts, Registering(x)' PROVE Registering(x)
    OBVIOUS
  <2>2. PICK c \in Coroutines : \E i \in DOMAIN queue'[c] : queue'[c][i] = Registration(x)
    BY <2>1 DEF Registering, Registration
  <2>3. PICK i \in DOMAIN queue'[c] : queue'[c][i] = Registration(x)
    BY <2>2
  <2>4. Pools(Registration(x))
    BY FieldsOf DEF Pools, Registration
  <2>5. \E j \in DOMAIN queue[c] : queue[c][j] = queue'[c][i]
    BY <2>3, <2>4, QueueMovesIs DEF CoQuiet
  <2> QED BY <2>3, <2>5 DEF Registering
<1>2. \A c \in Coroutines : Unloading(c)' => Unloading(c)
  <2>1. SUFFICES ASSUME NEW c \in Coroutines, Unloading(c)' PROVE Unloading(c)
    OBVIOUS
  <2>2. PICK i \in DOMAIN queue'[c] : queue'[c][i].do = "unload"
    BY <2>1 DEF Unloading
  <2>3. \E j \in DOMAIN queue[c] : queue[c][j] = queue'[c][i]
    BY <2>2, QueueMovesIs DEF CoQuiet, Pools
  <2> QED BY <2>2, <2>3 DEF Unloading
<1>3. \A x \in Contexts : Watch \in waiters'[x] => Watch \in waiters[x] \/ Registering(x)
  BY DEF CoQuiet, WaitersMove
<1>4. \A x \in Contexts : Watch \in todo'[x] => Registered(x)
  <2>1. CASE todo' = todo
    BY <2>1 DEF Registered
  <2>2. CASE \E y \in Contexts : Completes(y) \/ \E j \in todo[y] : Calling(y, j)
    <3>1. \A x \in Contexts : todo'[x] \subseteq todo[x] \cup waiters[x]
      <4>1. PICK y \in Contexts : \/ todo' = [todo EXCEPT ![y] = waiters[y]]
                                 \/ \E j \in todo[y] : todo' = [todo EXCEPT ![y] = todo[y] \ {j}]
        BY <2>2 DEF Completes, Calling
      <4>2. todo \in [Contexts -> SUBSET (Contexts \cup {Watch})]
        BY DEF TypeInv, TypeOK
      <4> QED BY <4>1, <4>2
    <3> QED BY <3>1 DEF Registered
  <2> QED BY <2>1, <2>2 DEF CoQuiet, SignalsMove
<1>5. \A x \in Contexts : (\E i \in DOMAIN told' : told'[i] = x) => Registered(x)
  <2>1. CASE told' = told
    BY <2>1 DEF Registered
  <2>2. CASE \E y \in Contexts : Watch \in todo[y] /\ told' = Append(told, y)
    <3>1. PICK y \in Contexts : Watch \in todo[y] /\ told' = Append(told, y)
      BY <2>2
    <3>2. told \in Seq(Contexts)
      BY DEF TypeInv, TypeOK
    <3>3. \A i \in DOMAIN told' : (i \in DOMAIN told /\ told'[i] = told[i]) \/ told'[i] = y
      BY <3>1, <3>2, AppendProperties, LenProperties
    <3> QED BY <3>1, <3>3 DEF Registered
  <2> QED BY <2>1, <2>2 DEF CoQuiet, SignalsMove, Completes, Calling
<1> QED BY <1>1, <1>2, <1>3, <1>4, <1>5 DEF Registered

(* The coroutines go on.                                                   *)
LEMMA CoroutinesKeep ==
  ASSUME PoolInv, [Next]_vars, UNCHANGED poolVars PROVE PoolInv' /\ Pool' = Pool
<1>1. TypeInv' /\ CoQuiet
  BY TypeStep, QuietStep DEF PoolInv
<1>2. Pool' = Pool /\ UNCHANGED <<poolMap, workSize, round, init, poolSize, size>>
  BY DEF Pool, poolVars, mapVars
<1>3. MapInv'
  <2>1. Apart' <=> Apart
    BY <1>2 DEF Apart
  <2> QED BY <1>2, <2>1 DEF PoolInv, MapInv
<1>4. PoolWork'
  <2>1. \A t \in Threads : ThreadWork(t)'
    <3>1. SUFFICES ASSUME NEW t \in Threads, pc'[t] \in PoolLabels PROVE ThreadWork(t)'
      BY DEF ThreadWork, PoolLabels
    <3>2. pc'[t] = pc[t] /\ target'[t] = target[t]
      BY <1>1, <3>1 DEF CoQuiet, CallersStay
    <3>3. target[t] \in Contexts /\ home[target[t]] \in Pool => home'[target[t]] = home[target[t]]
      BY <1>1, Different DEF CoQuiet, CallersStay, Pool
    <3> QED BY <1>2, <3>2, <3>3 DEF PoolInv, PoolWork, ThreadWork
  <2>2. \A c \in Pool : at'[c] # "none"
    BY <1>1 DEF PoolInv, PoolWork, CoQuiet, CallersStay, Pool
  <2> QED BY <1>2, <2>1, <2>2 DEF PoolInv, PoolWork
<1>5. OwedInv'
  <2>1. /\ \A x \in Contexts : Registered(x)' => Registered(x)
        /\ \A c \in Coroutines : Unloading(c)' => Unloading(c)
    BY <1>1, OwedStays DEF PoolInv
  <2>2. \A x \in Contexts : home[x] \in Pool => home'[x] = home[x]
    BY <1>1, Different DEF CoQuiet, CallersStay, Pool
  <2> QED BY <1>2, <2>1, <2>2 DEF PoolInv, OwedInv
<1> QED BY <1>1, <1>2, <1>3, <1>4, <1>5 DEF PoolInv
-----------------------------------------------------------------------------
(* The steps of the pool.                                                  *)

(* A thread stays where it is, or is where it knows what it does.          *)
Moved(t) ==
  \/ pc'[t] = pc[t] /\ target'[t] = target[t]
  \/ /\ pc'[t] \notin {"terminate", "run", "post"}
     /\ pc'[t] = "user" => target'[t] = Nil
     /\ ThreadWork(t)'

LEMMA PoolMoves ==
  ASSUME PoolInv,
         UNCHANGED <<ready, members, current, terminate, idVars, begun, dead, waiters, todo, timers>>,
         QueueType', at' \in [Coroutines -> Labels],
         \A d \in Coroutines : at'[d] = at[d] \/ (at[d] # "none" /\ at'[d] = "drain"),
         home' \in [Contexts -> Coroutines \cup {Nil}],
         \A x \in Contexts : home[x] # Nil => home'[x] = home[x],
         running' \subseteq Contexts, told' \in Seq(Contexts),
         calls' \in 0 .. MaxCalls, fault' \in Faults,
         pc' \in [Callers -> CallerLabels],
         target' \in [Callers -> Contexts \cup Coroutines \cup {Nil}],
         \A x \in Contexts : pc'[x] = pc[x] /\ target'[x] = target[x],
         \A t \in Threads : Moved(t),
         MapInv', Pool' = Pool,
         init' \in BOOLEAN, init => init', poolSize' \in Nat, size' \in [Threads -> Nat],
         \A x \in Contexts : Registered(x)' => Registered(x) \/ home'[x] \in Pool,
         \A c \in Coroutines : Unloading(c)' => Unloading(c) \/ c \in Pool
  PROVE  PoolInv'
<1>1. TypeOK'
  BY QueueGives DEF PoolInv, TypeInv, TypeOK, QueueType, idVars
<1>2. AtWork'
  <2>1. AtWork /\ TypeOK
    BY DEF PoolInv, TypeInv
  <2>2. \A d \in Coroutines : /\ at'[d] = "poll" => at[d] = "poll"
                              /\ at'[d] = "context" => at[d] = "context"
    OBVIOUS
  <2>3. \A x \in Contexts : Executes(x)' => Executes(x) \/ home[x] = Nil
    BY <2>1, <2>2 DEF Executes, TypeOK
  <2>4. \A d \in Coroutines : at'[d] = "poll" => ready'[d] # <<>>
    BY <2>1, <2>2 DEF AtWork
  <2>5. \A t \in Threads : /\ pc'[t] \in {"terminate", "run", "post"} => target'[t] \in Coroutines
                           /\ pc'[t] = "user" => target'[t] = Nil
    BY <2>1 DEF Moved, AtWork
  <2>6. \A x \in Contexts : /\ x \in dead' <=> pc'[x] \in {"emit", "emitYield", "done"}
                            /\ Executes(x)' => target'[x] = Nil
                            /\ target'[x] # Nil => home'[x] # Nil
    BY <2>1, <2>3 DEF AtWork
  <2>7. \A c \in Coroutines : current'[c] # Nil => current'[c] \in begun'
    BY <2>1 DEF AtWork
  <2> QED BY <2>4, <2>5, <2>6, <2>7 DEF AtWork
<1>3. PoolWork'
  <2>1. \A t \in Threads : ThreadWork(t)'
    <3>1. SUFFICES ASSUME NEW t \in Threads, pc'[t] = pc[t], target'[t] = target[t]
                   PROVE  ThreadWork(t)'
      BY DEF Moved
    <3>2. ThreadWork(t)
      BY DEF PoolInv, PoolWork
    <3>3. target[t] \in Contexts /\ home[target[t]] \in Pool => home'[target[t]] = home[target[t]]
      BY Different DEF Pool
    <3> QED BY <3>1, <3>2, <3>3 DEF ThreadWork
  <2>2. \A c \in Pool : at'[c] # "none"
    BY DEF PoolInv, PoolWork, Pool
  <2> QED BY <2>1, <2>2 DEF PoolWork
<1>4. OwedInv'
  <2>1. \A x \in Contexts : home[x] \in Pool => home'[x] = home[x]
    BY Different DEF Pool
  <2> QED BY <2>1 DEF PoolInv, OwedInv
<1> QED BY <1>1, <1>2, <1>3, <1>4 DEF PoolInv, TypeInv

(* The thread t goes to label, with the target to.                         *)
Moves(t, label, to) ==
  pc' = [pc EXCEPT ![t] = label] /\ target' = [target EXCEPT ![t] = to]

LEMMA MovesIs ==
  ASSUME TypeOK, NEW t \in Threads, NEW label \in CallerLabels,
         NEW to \in Contexts \cup Coroutines \cup {Nil}, Moves(t, label, to)
  PROVE  /\ pc' \in [Callers -> CallerLabels]
         /\ target' \in [Callers -> Contexts \cup Coroutines \cup {Nil}]
         /\ \A x \in Contexts : pc'[x] = pc[x] /\ target'[x] = target[x]
         /\ \A v \in Threads : v # t => pc'[v] = pc[v] /\ target'[v] = target[v]
         /\ pc'[t] = label /\ target'[t] = to
<1>1. t \in Callers /\ \A x \in Contexts : x # t /\ x \in Callers
  BY Different DEF Callers
<1>2. \A v \in Threads : v \in Callers
  BY DEF Callers
<1> QED BY <1>1, <1>2 DEF TypeOK, Moves

LEMMA LabelsAre ==
  PoolLabels \cup {"user"} \subseteq CallerLabels
    /\ PoolLabels \cap {"user", "terminate", "run", "post"} = {}
BY DEF PoolLabels, CallerLabels

LEMMA MapKept ==
  ASSUME MapInv, UNCHANGED <<poolMap, workSize>>, round' \in Nat, round' = round \/ round' = 0
  PROVE  MapInv' /\ Pool' = Pool
<1>1. Pool' = Pool
  BY DEF Pool
<1>2. Apart' <=> Apart
  BY <1>1 DEF Apart
<1> QED BY <1>1, <1>2 DEF MapInv

(* A thread moves, and nothing else.                                       *)
LEMMA ThreadMoves ==
  ASSUME PoolInv, NEW t \in Threads, NEW label \in PoolLabels \cup {"user"},
         NEW to \in Contexts \cup {Nil}, Moves(t, label, to),
         label \in {"fill", "filling", "choose"} => init',
         label # "connect", label \in {"grow", "growing", "user"} => to = Nil,
         UNCHANGED <<queue, coVars, idVars, home, begun, dead, running, waiters,
                     todo, timers, told, fault, poolMap, workSize>>,
         calls' \in 0 .. MaxCalls, round' = round \/ round' = 0,
         init' \in BOOLEAN, init => init', poolSize' \in Nat, size' \in [Threads -> Nat]
  PROVE  PoolInv' /\ Pool' = Pool
<1>1. TypeOK /\ QueueType /\ MapInv
  BY DEF PoolInv, TypeInv
<1>2. MapInv' /\ Pool' = Pool
  BY <1>1, MapKept DEF MapInv
<1>3. /\ pc' \in [Callers -> CallerLabels]
      /\ target' \in [Callers -> Contexts \cup Coroutines \cup {Nil}]
      /\ \A x \in Contexts : pc'[x] = pc[x] /\ target'[x] = target[x]
      /\ \A v \in Threads : v # t => pc'[v] = pc[v] /\ target'[v] = target[v]
      /\ pc'[t] = label /\ target'[t] = to
  BY <1>1, MovesIs, LabelsAre
<1>4. \A v \in Threads : Moved(v)
  <2>1. ThreadWork(t)'
    BY <1>3 DEF ThreadWork
  <2>2. label \notin {"terminate", "run", "post"}
    BY LabelsAre
  <2> QED BY <1>3, <2>1, <2>2 DEF Moved
<1>5. /\ \A x \in Contexts : Registered(x)' => Registered(x)
      /\ \A c \in Coroutines : Unloading(c)' => Unloading(c)
  BY DEF Registered, Registering, Registration, Unloading
<1>6. QueueType' /\ UNCHANGED <<at, ready, members, current, terminate>>
  BY <1>1 DEF QueueType, coVars
<1>7. /\ at' \in [Coroutines -> Labels] /\ home' \in [Contexts -> Coroutines \cup {Nil}]
      /\ running' \subseteq Contexts /\ told' \in Seq(Contexts) /\ fault' \in Faults
  BY <1>1, <1>6 DEF TypeOK
<1>8. PoolInv'
  BY <1>2, <1>3, <1>4, <1>5, <1>6, <1>7, PoolMoves
<1> QED BY <1>2, <1>8

LEMMA EnterKeeps ==
  ASSUME PoolInv, NEW t \in Threads, NEW x \in Contexts \cup {Nil}, EnterPool(t, x)
  PROVE  PoolInv' /\ Pool' = Pool
<1>1. init \in BOOLEAN /\ size \in [Threads -> Nat] /\ poolSize \in Nat /\ round \in Nat
  BY DEF PoolInv, PoolWork, MapInv
<1>2. PICK label \in {"fill", "choose"} : pc' = [pc EXCEPT ![t] = label]
  BY DEF EnterPool, Goto
<1>3. Moves(t, label, x)
  BY <1>2 DEF EnterPool, Moves
<1>4. calls' \in 0 .. MaxCalls
  <2>1. TypeOK
    BY DEF PoolInv, TypeInv
  <2> QED BY <2>1, MayIs DEF EnterPool
<1>5. label \in PoolLabels
  BY DEF PoolLabels
<1> QED BY <1>1, <1>3, <1>4, <1>5, ThreadMoves DEF EnterPool, mapVars

LEMMA SetSizeKeeps ==
  ASSUME PoolInv, NEW t \in Threads, NEW n \in Nat, SetPoolSize(t, n)
  PROVE  PoolInv' /\ Pool' = Pool
<1>1. init \in BOOLEAN /\ size \in [Threads -> Nat] /\ poolSize \in Nat
  BY DEF PoolInv, PoolWork
<1>2. TypeOK /\ AtWork
  BY DEF PoolInv, TypeInv
<1>3. calls' \in 0 .. MaxCalls /\ pc[t] = "user"
  BY <1>2, MayIs DEF SetPoolSize
<1>4. Moves(t, "grow", Nil)
  <2>1. target[t] = Nil /\ target' = target
    BY <1>2, <1>3 DEF AtWork, SetPoolSize, joinVars
  <2>2. target' = [target EXCEPT ![t] = Nil]
    BY <1>2, <2>1 DEF TypeOK
  <2> QED BY <2>2 DEF SetPoolSize, Goto, Moves
<1>5. "grow" \in PoolLabels
  BY DEF PoolLabels
<1>6. poolSize' \in Nat /\ size' \in [Threads -> Nat] /\ init' = init
  BY <1>1 DEF SetPoolSize
<1> QED BY <1>1, <1>3, <1>4, <1>5, <1>6, ThreadMoves DEF SetPoolSize, mapVars, joinVars

(* A thread goes on, with the target it has.                               *)
LEMMA StaysMoves ==
  ASSUME PoolInv, NEW t \in Threads, NEW label, Goto(t, label), UNCHANGED target
  PROVE  Moves(t, label, target[t])
<1>1. target = [target EXCEPT ![t] = target[t]]
  BY DEF PoolInv, TypeInv, TypeOK
<1> QED BY <1>1 DEF Moves, Goto

LEMMA FillingThread ==
  ASSUME PoolInv, NEW t \in Threads, pc[t] \in {"fill", "filling", "grow", "growing"}
  PROVE  /\ target[t] \in Contexts \cup {Nil}
         /\ pc[t] \in {"fill", "filling"} => init
         /\ pc[t] \in {"grow", "growing"} => target[t] = Nil
BY DEF PoolInv, PoolWork, ThreadWork

LEMMA TakePoolKeeps ==
  ASSUME PoolInv, NEW t \in Threads, TakePool(t)
  PROVE  PoolInv' /\ Pool' = Pool
<1>1. init \in BOOLEAN /\ size \in [Threads -> Nat] /\ poolSize \in Nat
  BY DEF PoolInv, PoolWork
<1>2. PICK label \in {"filling", "growing", "choose", "user"} :
        /\ Goto(t, label)
        /\ label \in {"filling", "choose"} <=> pc[t] = "fill"
  BY DEF TakePool, AfterFill
<1>3. /\ target[t] \in Contexts \cup {Nil}
      /\ pc[t] = "fill" => init
      /\ pc[t] = "grow" => target[t] = Nil
  BY FillingThread DEF TakePool
<1>4. Moves(t, label, target[t])
  BY <1>2, StaysMoves DEF TakePool, joinVars
<1>5. label \in PoolLabels \cup {"user"}
  BY DEF PoolLabels
<1>6. round' = round \/ round' = 0
  BY DEF TakePool
<1>7. label \in {"growing", "user"} => target[t] = Nil
  BY <1>2, <1>3 DEF TakePool
<1>8. calls' \in 0 .. MaxCalls
  BY DEF TakePool, PoolInv, TypeInv, TypeOK
<1> QED BY <1>1, <1>2, <1>3, <1>4, <1>5, <1>6, <1>7, <1>8, ThreadMoves DEF TakePool, joinVars

LEMMA LeaveKeeps ==
  ASSUME PoolInv, NEW t \in Threads, LeavePool(t)
  PROVE  PoolInv' /\ Pool' = Pool
<1>1. init \in BOOLEAN /\ size \in [Threads -> Nat] /\ poolSize \in Nat
  BY DEF PoolInv, PoolWork
<1>2. PICK label \in {"choose", "user"} : Goto(t, label) /\ (label = "choose" <=> pc[t] = "filling")
  BY DEF LeavePool, AfterFill
<1>3. /\ target[t] \in Contexts \cup {Nil}
      /\ pc[t] = "filling" => init
      /\ pc[t] = "growing" => target[t] = Nil
  BY FillingThread DEF LeavePool
<1>4. Moves(t, label, target[t])
  BY <1>2, StaysMoves DEF LeavePool, joinVars
<1>5. label \in PoolLabels \cup {"user"}
  BY DEF PoolLabels
<1>6. label = "user" => target[t] = Nil
  BY <1>2, <1>3 DEF LeavePool
<1>7. calls' \in 0 .. MaxCalls
  BY DEF LeavePool, PoolInv, TypeInv, TypeOK
<1> QED
  BY <1>1, <1>2, <1>3, <1>4, <1>5, <1>6, <1>7, ThreadMoves
  DEF LeavePool, joinVars, poolVars, mapVars

LEMMA FillKeeps ==
  ASSUME PoolInv, NEW t \in Threads, NEW c \in Coroutines, FillPool(t, c)
  PROVE  /\ PoolInv' /\ c \notin Pool /\ Pool' = Pool \cup {c}
         /\ workSize'[c].load = 0 /\ \A d \in Pool : workSize'[d] = workSize[d]
<1>1. PICK i \in FreeIds : Create({c}, [d \in {c} |-> i])
  BY DEF FillPool
<1>2. UNCHANGED <<queue, home, pc, begun, dead, running, joinVars, timers, told, calls,
                  fault, init, poolSize, size>>
  BY <1>1 DEF FillPool, Create
<1>3. at[c] = "none" /\ at' = [d \in Coroutines |-> IF d = c THEN "top" ELSE at[d]]
  BY <1>1 DEF FillPool, Create
<1>4. c \notin Pool
  BY <1>3 DEF PoolInv, PoolWork
<1>5. TypeInv'
  <2>1. calls' \in 0 .. MaxCalls
    BY <1>2 DEF PoolInv, TypeInv, TypeOK
  <2>2. TypeInv
    BY DEF PoolInv
  <2> QED BY <1>1, <1>2, <2>1, <2>2, CreateType
<1>6. /\ MapInv' /\ Pool' = Pool \cup {c}
      /\ workSize'[c].load = 0 /\ \A d \in Pool : workSize'[d] = workSize[d]
  <2>1. PICK key : key = Key(0, round + Len(poolMap))
    OBVIOUS
  <2>2. /\ poolMap' = Emplace(poolMap, Entry(key, c))
        /\ workSize' = [workSize EXCEPT ![c] = key] /\ round' = round + 1
    BY <2>1 DEF FillPool
  <2>3. MapInv /\ c \in Coroutines \ Pool
    BY <1>4 DEF PoolInv
  <2> QED BY <2>1, <2>2, <2>3, FillMap
<1>7. PoolWork'
  <2>1. \A v \in Threads : ThreadWork(v)'
    BY <1>2, <1>6 DEF PoolInv, PoolWork, ThreadWork, joinVars
  <2>2. \A d \in Pool' : at'[d] # "none"
    BY <1>3, <1>6 DEF PoolInv, PoolWork, Pool
  <2> QED BY <1>2, <2>1, <2>2 DEF PoolInv, PoolWork
<1>8. OwedInv'
  <2>1. /\ \A x \in Contexts : Registered(x)' => Registered(x)
        /\ \A d \in Coroutines : Unloading(d)' => Unloading(d)
    BY <1>2 DEF Registered, Registering, Registration, Unloading, joinVars
  <2> QED BY <1>2, <1>6, <2>1 DEF PoolInv, OwedInv
<1> QED BY <1>4, <1>5, <1>6, <1>7, <1>8 DEF PoolInv

LEMMA PostGives ==
  ASSUME QueueType, NEW c \in Coroutines, NEW f \in Posted, Post(c, f)
  PROVE  /\ QueueType'
         /\ \A d \in Coroutines : \A i \in DOMAIN queue'[d] :
              \/ i \in DOMAIN queue[d] /\ queue'[d][i] = queue[d][i]
              \/ d = c /\ queue'[d][i] = f
<1>1. queue \in [Coroutines -> Seq(Posted)] /\ queue' = [queue EXCEPT ![c] = Append(queue[c], f)]
  BY DEF QueueType, Post
<1>2. \A d \in Coroutines : \A i \in DOMAIN queue'[d] :
        \/ i \in DOMAIN queue[d] /\ queue'[d][i] = queue[d][i]
        \/ d = c /\ queue'[d][i] = f
  <2>1. TAKE d \in Coroutines
  <2>2. CASE d = c
    <3>1. queue'[d] = Append(queue[d], f) /\ queue[d] \in Seq(Posted)
      BY <1>1, <2>2
    <3> QED BY <2>2, <3>1, AppendProperties, LenProperties
  <2>3. CASE d # c
    BY <1>1, <2>3
  <2> QED BY <2>2, <2>3
<1> QED BY <1>2, PostType

(* The map the threads choose from.                                        *)
LEMMA FirstIs ==
  ASSUME PoolInv, poolMap # <<>>
  PROVE  poolMap[1].co \in Pool /\ poolMap[1].co \in Coroutines
<1>1. poolMap \in Seq(Entries) /\ \A i \in 1 .. Len(poolMap) : poolMap[i].co \in Pool
  BY DEF PoolInv, MapInv
<1>2. 1 \in 1 .. Len(poolMap)
  BY <1>1, LenProperties, EmptySeq
<1> QED BY <1>1, <1>2 DEF Pool

(* A call that finds the map empty.                                        *)
LEMMA MissKeeps ==
  ASSUME PoolInv, fault' = "pool",
         UNCHANGED <<queue, coVars, idVars, home, pc, begun, dead, running, joinVars,
                     timers, told, calls, poolVars>>
  PROVE  PoolInv' /\ Pool' = Pool
<1>1. TypeOK /\ QueueType /\ MapInv /\ PoolWork
  BY DEF PoolInv, TypeInv
<1>2. UNCHANGED <<at, ready, members, current, terminate, waiters, todo, target, poolMap,
                  workSize, round, init, poolSize, size>>
  BY DEF coVars, joinVars, poolVars, mapVars
<1>3. MapInv' /\ Pool' = Pool
  BY <1>1, <1>2, MapKept DEF MapInv
<1>4. \A t \in Threads : Moved(t)
  BY <1>2 DEF Moved
<1>5. /\ \A x \in Contexts : Registered(x)' => Registered(x)
      /\ \A c \in Coroutines : Unloading(c)' => Unloading(c)
  BY <1>2 DEF Registered, Registering, Registration, Unloading
<1>6. QueueType' /\ fault' \in Faults
  BY <1>1 DEF QueueType, Faults
<1>7. /\ at' \in [Coroutines -> Labels] /\ home' \in [Contexts -> Coroutines \cup {Nil}]
      /\ running' \subseteq Contexts /\ told' \in Seq(Contexts) /\ calls' \in 0 .. MaxCalls
      /\ pc' \in [Callers -> CallerLabels]
      /\ target' \in [Callers -> Contexts \cup Coroutines \cup {Nil}]
  BY <1>1, <1>2 DEF TypeOK
<1>8. init' \in BOOLEAN /\ poolSize' \in Nat /\ size' \in [Threads -> Nat]
  BY <1>1, <1>2 DEF PoolWork
<1>9. PoolInv'
  BY <1>2, <1>3, <1>4, <1>5, <1>6, <1>7, <1>8, PoolMoves
<1> QED BY <1>3, <1>9

LEMMA WorkKeeps ==
  ASSUME PoolInv, NEW t \in Threads, CoroutineWork(t)
  PROVE  PoolInv' /\ Pool' = Pool
<1>1. TypeOK /\ QueueType /\ MapInv /\ PoolWork
  BY DEF PoolInv, TypeInv
<1>2. CASE poolMap = <<>>
  BY <1>2, MissKeeps DEF CoroutineWork, coVars, joinVars, poolVars, mapVars
<1>3. CASE poolMap # <<>>
  <2>1. PICK x \in Contexts : x = target[t]
    BY <1>1 DEF CoroutineWork, PoolWork, ThreadWork
  <2>2. PICK c \in Pool : c = poolMap[1].co
    BY <1>3, FirstIs
  <2>3. /\ Hand(c, x) /\ Charge(c) /\ Goto(t, "connect")
        /\ UNCHANGED <<fault, coVars, idVars, begun, dead, joinVars, timers, told, calls,
                       init, poolSize, size, round>>
    BY <1>3, <2>1, <2>2 DEF CoroutineWork
  <2>4. c \in Coroutines
    BY DEF Pool
  <2>5. MapInv' /\ Pool' = Pool
    BY <1>1, <2>3, ChargeMap
  <2>6. /\ home[x] = Nil /\ home' = [home EXCEPT ![x] = c]
        /\ running' = running \cup {x}
        /\ Post(c, Function("start", x, Nil))
    BY <2>3 DEF Hand
  <2>7. PICK f \in Posted : f = Function("start", x, Nil)
    BY PostedOf
  <2>8. /\ QueueType'
        /\ \A d \in Coroutines : \A i \in DOMAIN queue'[d] :
             \/ i \in DOMAIN queue[d] /\ queue'[d][i] = queue[d][i]
             \/ d = c /\ queue'[d][i] = f
    BY <1>1, <2>4, <2>6, <2>7, PostGives
  <2>9. f.do = "start"
    BY <2>7, FieldsOf
  <2>10. Registration(x).do = "register" /\ \A y : Registration(y).do = "register"
    BY FieldsOf DEF Registration
  <2>11. UNCHANGED <<waiters, todo, target, at, ready, members, current, terminate>>
    BY <2>3 DEF coVars, joinVars
  <2>12. \A y \in Contexts : Registered(y)' => Registered(y)
    <3>1. \A y \in Contexts : Registering(y)' => Registering(y)
      BY <2>8, <2>9, <2>10 DEF Registering, Registration
    <3> QED BY <2>3, <2>11, <3>1 DEF Registered
  <2>13. \A d \in Coroutines : Unloading(d)' => Unloading(d)
    BY <2>8, <2>9 DEF Unloading
  <2>14. Moves(t, "connect", x)
    BY <2>1, <2>3, <2>11, StaysMoves
  <2>15. "connect" \in PoolLabels
    BY DEF PoolLabels
  <2>16. /\ pc' \in [Callers -> CallerLabels]
         /\ target' \in [Callers -> Contexts \cup Coroutines \cup {Nil}]
         /\ \A y \in Contexts : pc'[y] = pc[y] /\ target'[y] = target[y]
         /\ \A v \in Threads : v # t => pc'[v] = pc[v] /\ target'[v] = target[v]
         /\ pc'[t] = "connect" /\ target'[t] = x
    BY <1>1, <2>14, <2>15, MovesIs, LabelsAre
  <2>17. /\ home' \in [Contexts -> Coroutines \cup {Nil}] /\ home'[x] = c
         /\ \A y \in Contexts : home[y] # Nil => home'[y] = home[y]
         /\ running' \subseteq Contexts
    BY <1>1, <2>4, <2>6 DEF TypeOK
  <2>18. \A v \in Threads : Moved(v)
    <3>1. init
      BY <1>1 DEF CoroutineWork, PoolWork, ThreadWork
    <3>2. ThreadWork(t)'
      BY <2>3, <2>5, <2>16, <2>17, <3>1 DEF ThreadWork
    <3> QED BY <2>16, <3>2 DEF Moved
  <2>19. /\ at' \in [Coroutines -> Labels] /\ told' \in Seq(Contexts)
         /\ calls' \in 0 .. MaxCalls /\ fault' \in Faults
    BY <1>1, <2>3, <2>11 DEF TypeOK
  <2>20. init' \in BOOLEAN /\ (init => init') /\ poolSize' \in Nat /\ size' \in [Threads -> Nat]
    BY <1>1, <2>3 DEF PoolWork
  <2>21. PoolInv'
    BY <2>3, <2>5, <2>8, <2>11, <2>12, <2>13, <2>16, <2>17, <2>18, <2>19, <2>20, PoolMoves
  <2> QED BY <2>5, <2>21
<1> QED BY <1>2, <1>3

LEMMA ConnectKeeps ==
  ASSUME PoolInv, NEW t \in Threads, ConnectPool(t)
  PROVE  PoolInv' /\ Pool' = Pool
<1>1. TypeOK /\ QueueType /\ MapInv /\ PoolWork
  BY DEF PoolInv, TypeInv
<1>2. PICK x \in Contexts : x = target[t]
  BY <1>1 DEF ConnectPool, PoolWork, ThreadWork
<1>3. home[x] \in Pool /\ home[x] \in Coroutines
  BY <1>1, <1>2 DEF ConnectPool, PoolWork, ThreadWork, Pool
<1>4. PICK f \in Posted : f = Registration(x)
  BY PostedOf DEF Registration
<1>5. /\ QueueType'
      /\ \A d \in Coroutines : \A i \in DOMAIN queue'[d] :
           \/ i \in DOMAIN queue[d] /\ queue'[d][i] = queue[d][i]
           \/ d = home[x] /\ queue'[d][i] = f
  <2>1. Post(home[x], f)
    BY <1>2, <1>4 DEF ConnectPool, Registration
  <2> QED BY <1>1, <1>3, <2>1, PostGives
<1>6. /\ UNCHANGED <<coVars, idVars, home, begun, dead, running, waiters, todo, timers, told,
                     calls, fault>>
      /\ UNCHANGED <<poolMap, workSize, round, init, poolSize, size>>
  BY DEF ConnectPool, poolVars, mapVars
<1>7. f.do = "register" /\ f.ctx = x
  BY <1>4, FieldsOf DEF Registration
<1>8. \A y \in Contexts : Registered(y)' => Registered(y) \/ home'[y] \in Pool
  <2>1. \A y \in Contexts : Registering(y)' => Registering(y) \/ y = x
    <3>1. \A y : Registration(y).ctx = y
      BY FieldsOf DEF Registration
    <3> QED BY <1>5, <1>7, <3>1 DEF Registering, Registration
  <2> QED BY <1>3, <1>6, <2>1 DEF Registered
<1>9. \A d \in Coroutines : Unloading(d)' => Unloading(d)
  BY <1>5, <1>7 DEF Unloading
<1>10. Moves(t, "user", Nil)
  BY DEF ConnectPool, Moves, Goto
<1>11. /\ pc' \in [Callers -> CallerLabels]
       /\ target' \in [Callers -> Contexts \cup Coroutines \cup {Nil}]
       /\ \A y \in Contexts : pc'[y] = pc[y] /\ target'[y] = target[y]
       /\ \A v \in Threads : v # t => pc'[v] = pc[v] /\ target'[v] = target[v]
       /\ pc'[t] = "user" /\ target'[t] = Nil
  BY <1>1, <1>10, MovesIs, LabelsAre
<1>12. \A v \in Threads : Moved(v)
  BY <1>11 DEF Moved, ThreadWork
<1>13. MapInv' /\ Pool' = Pool
  BY <1>1, <1>6, MapKept DEF MapInv
<1>14. UNCHANGED <<at, ready, members, current, terminate>>
  BY <1>6 DEF coVars
<1>15. /\ at' \in [Coroutines -> Labels] /\ told' \in Seq(Contexts)
       /\ home' \in [Contexts -> Coroutines \cup {Nil}] /\ running' \subseteq Contexts
       /\ calls' \in 0 .. MaxCalls /\ fault' \in Faults
  BY <1>1, <1>6, <1>14 DEF TypeOK
<1>16. init' \in BOOLEAN /\ (init => init') /\ poolSize' \in Nat /\ size' \in [Threads -> Nat]
  BY <1>1, <1>6 DEF PoolWork
<1>17. PoolInv'
  BY <1>5, <1>6, <1>8, <1>9, <1>11, <1>12, <1>13, <1>14, <1>15, <1>16, PoolMoves
<1> QED BY <1>13, <1>17

(* What loopWork posts.                                                    *)
LEMMA LoopWorkGives ==
  ASSUME QueueType, NEW c \in Coroutines, NEW f \in Posted, NEW g \in Posted,
         queue' = [queue EXCEPT ![c] = queue[c] \o <<f, g>>]
  PROVE  /\ QueueType'
         /\ queue'[c] = Append(Append(queue[c], f), g)
         /\ \A d \in Coroutines : \A i \in DOMAIN queue'[d] :
              \/ i \in DOMAIN queue[d] /\ queue'[d][i] = queue[d][i]
              \/ d = c /\ queue'[d][i] \in {f, g}
<1>1. queue \in [Coroutines -> Seq(Posted)] /\ queue[c] \in Seq(Posted)
  BY DEF QueueType
<1>2. PICK q \in Seq(Posted) : q = queue[c]
  BY <1>1
<1>3. PICK r \in Seq(Posted) : r = Append(q, f)
  BY AppendProperties
<1>4. /\ Len(q) \in Nat /\ Len(r) = Len(q) + 1 /\ r[Len(q) + 1] = f
      /\ \A i \in 1 .. Len(q) : r[i] = q[i]
  BY <1>3, AppendProperties, LenProperties
<1>5. /\ Append(r, g) \in Seq(Posted) /\ Len(Append(r, g)) = Len(q) + 2
      /\ Append(r, g)[Len(q) + 2] = g
      /\ \A i \in 1 .. Len(q) + 1 : Append(r, g)[i] = r[i]
  <2>1. /\ Append(r, g) \in Seq(Posted) /\ Len(Append(r, g)) = Len(r) + 1
        /\ Append(r, g)[Len(r) + 1] = g
        /\ \A i \in 1 .. Len(r) : Append(r, g)[i] = r[i]
    BY AppendProperties
  <2>2. Len(r) = Len(q) + 1 /\ Len(r) + 1 = Len(q) + 2
    BY <1>4
  <2> QED BY <2>1, <2>2
<1>6. /\ q \o <<f, g>> \in Seq(Posted) /\ Len(q \o <<f, g>>) = Len(q) + 2
      /\ \A i \in 1 .. Len(q) + 2 :
           (q \o <<f, g>>)[i] = IF i <= Len(q) THEN q[i] ELSE <<f, g>>[i - Len(q)]
  <2>1. <<f, g>> \in Seq(Posted) /\ Len(<<f, g>>) = 2
    OBVIOUS
  <2>2. /\ q \o <<f, g>> \in Seq(Posted) /\ Len(q \o <<f, g>>) = Len(q) + Len(<<f, g>>)
        /\ \A i \in 1 .. Len(q) + Len(<<f, g>>) :
             (q \o <<f, g>>)[i] = IF i <= Len(q) THEN q[i] ELSE <<f, g>>[i - Len(q)]
    BY <2>1, ConcatProperties
  <2> QED BY <2>1, <2>2
<1>7. \A i \in 1 .. Len(q) + 2 : (q \o <<f, g>>)[i] = Append(r, g)[i]
  <2>1. TAKE i \in 1 .. Len(q) + 2
  <2>2. CASE i \in 1 .. Len(q)
    BY <1>4, <1>5, <1>6, <2>2
  <2>3. CASE i = Len(q) + 1
    <3>1. i \in 1 .. Len(q) + 1 /\ ~ (i <= Len(q)) /\ i - Len(q) = 1
      BY <1>4, <2>3
    <3>2. (q \o <<f, g>>)[i] = <<f, g>>[1]
      BY <1>6, <3>1
    <3>3. Append(r, g)[i] = f
      BY <1>4, <1>5, <2>3, <3>1
    <3> QED BY <3>2, <3>3
  <2>4. CASE i = Len(q) + 2
    <3>1. ~ (i <= Len(q)) /\ i - Len(q) = 2
      BY <1>4, <2>4
    <3>2. (q \o <<f, g>>)[i] = <<f, g>>[2]
      BY <1>6, <3>1
    <3> QED BY <1>5, <2>4, <3>2
  <2> QED BY <1>4, <2>2, <2>3, <2>4
<1>8. q \o <<f, g>> = Append(r, g)
  BY <1>5, <1>6, <1>7, SeqEqual
<1>9. queue'[c] = Append(r, g) /\ \A d \in Coroutines : d # c => queue'[d] = queue[d]
  BY <1>1, <1>2, <1>8
<1>10. queue' = [queue EXCEPT ![c] = Append(r, g)]
  BY <1>2, <1>8
<1>11. QueueType'
  BY <1>1, <1>5, <1>10 DEF QueueType
<1>12. \A d \in Coroutines : \A i \in DOMAIN queue'[d] :
         \/ i \in DOMAIN queue[d] /\ queue'[d][i] = queue[d][i]
         \/ d = c /\ queue'[d][i] \in {f, g}
  <2>1. \A i \in DOMAIN Append(r, g) : (i \in DOMAIN q /\ Append(r, g)[i] = q[i]) \/ Append(r, g)[i] \in {f, g}
    <3>1. DOMAIN Append(r, g) = 1 .. Len(q) + 2 /\ DOMAIN q = 1 .. Len(q)
      BY <1>5, LenProperties
    <3>2. \A i \in 1 .. Len(q) + 2 : i \in 1 .. Len(q) \/ i = Len(q) + 1 \/ i = Len(q) + 2
      BY <1>4
    <3>3. \A i \in 1 .. Len(q) : i \in 1 .. Len(q) + 1
      BY <1>4
    <3>4. Len(q) + 1 \in 1 .. Len(q) + 1
      BY <1>4
    <3> QED BY <1>4, <1>5, <3>1, <3>2, <3>3, <3>4
  <2> QED BY <1>2, <1>9, <2>1
<1> QED BY <1>2, <1>3, <1>9, <1>11, <1>12

LEMMA LoopWorkKeeps ==
  ASSUME PoolInv, NEW t \in Threads, LoopWork(t)
  PROVE  PoolInv' /\ Pool' = Pool
<1>1. TypeOK /\ QueueType /\ MapInv /\ PoolWork
  BY DEF PoolInv, TypeInv
<1>2. CASE poolMap = <<>>
  BY <1>2, MissKeeps DEF LoopWork, coVars, joinVars, poolVars, mapVars
<1>3. CASE poolMap # <<>>
  <2>1. PICK c \in Pool : c = poolMap[1].co
    BY <1>3, FirstIs
  <2>2. PICK f \in Posted : f = Function("null", Nil, Nil)
    BY PostedOf
  <2>3. PICK g \in Posted : g = Function("unload", Nil, Nil)
    BY PostedOf
  <2>4. f.do = "null" /\ g.do = "unload"
    BY <2>2, <2>3, FieldsOf
  <2>5. /\ queue' = [queue EXCEPT ![c] = queue[c] \o <<f, g>>]
        /\ Charge(c) /\ Goto(t, "user")
        /\ UNCHANGED <<fault, coVars, idVars, home, begun, dead, running, joinVars, timers,
                       told, calls, init, poolSize, size, round>>
    BY <1>3, <2>1, <2>2, <2>3 DEF LoopWork
  <2>6. c \in Coroutines
    BY DEF Pool
  <2>7. MapInv' /\ Pool' = Pool
    BY <1>1, <2>5, ChargeMap
  <2>8. /\ QueueType'
        /\ \A d \in Coroutines : \A i \in DOMAIN queue'[d] :
             \/ i \in DOMAIN queue[d] /\ queue'[d][i] = queue[d][i]
             \/ d = c /\ queue'[d][i] \in {f, g}
    BY <1>1, <2>5, <2>6, LoopWorkGives
  <2>9. UNCHANGED <<waiters, todo, target, at, ready, members, current, terminate>>
    BY <2>5 DEF coVars, joinVars
  <2>10. \A y \in Contexts : Registered(y)' => Registered(y)
    <3>1. \A y : Registration(y).do = "register"
      BY FieldsOf DEF Registration
    <3>2. \A y \in Contexts : Registering(y)' => Registering(y)
      BY <2>4, <2>8, <3>1 DEF Registering, Registration
    <3> QED BY <2>5, <2>9, <3>2 DEF Registered
  <2>11. \A d \in Coroutines : Unloading(d)' => Unloading(d) \/ d \in Pool
    BY <2>8 DEF Unloading
  <2>12. Moves(t, "user", Nil)
    <3>1. target[t] = Nil
      BY DEF LoopWork
    <3> QED BY <2>5, <2>9, <3>1, StaysMoves
  <2>13. /\ pc' \in [Callers -> CallerLabels]
         /\ target' \in [Callers -> Contexts \cup Coroutines \cup {Nil}]
         /\ \A y \in Contexts : pc'[y] = pc[y] /\ target'[y] = target[y]
         /\ \A v \in Threads : v # t => pc'[v] = pc[v] /\ target'[v] = target[v]
         /\ pc'[t] = "user" /\ target'[t] = Nil
    BY <1>1, <2>12, MovesIs, LabelsAre
  <2>14. \A v \in Threads : Moved(v)
    BY <2>13 DEF Moved, ThreadWork
  <2>15. /\ at' \in [Coroutines -> Labels] /\ told' \in Seq(Contexts)
         /\ home' \in [Contexts -> Coroutines \cup {Nil}] /\ running' \subseteq Contexts
         /\ calls' \in 0 .. MaxCalls /\ fault' \in Faults
    BY <1>1, <2>5, <2>9 DEF TypeOK
  <2>16. init' \in BOOLEAN /\ (init => init') /\ poolSize' \in Nat /\ size' \in [Threads -> Nat]
    BY <1>1, <2>5 DEF PoolWork
  <2>17. PoolInv'
    BY <2>5, <2>7, <2>8, <2>9, <2>10, <2>11, <2>13, <2>14, <2>15, <2>16, PoolMoves
  <2> QED BY <2>7, <2>17
<1> QED BY <1>2, <1>3

(* A coroutine is discharged, or was not found.                            *)
LEMMA DischargeKeeps ==
  ASSUME MapInv, NEW c \in Pool, Discharge(c), UNCHANGED round, fault \in Faults
  PROVE  MapInv' /\ Pool' = Pool /\ fault' \in Faults
<1>1. \/ MapInv' /\ Pool' = Pool /\ UNCHANGED fault
      \/ fault' = "pool" /\ UNCHANGED <<poolMap, workSize>>
  BY DischargeMap
<1>2. CASE fault' = "pool" /\ UNCHANGED <<poolMap, workSize>>
  <2>1. MapInv' /\ Pool' = Pool
    BY <1>2, MapKept DEF MapInv
  <2> QED BY <1>2, <2>1 DEF Faults
<1> QED BY <1>1, <1>2

LEMMA UnloadKeeps ==
  ASSUME PoolInv, NEW c \in Coroutines, RunUnload(c)
  PROVE  PoolInv' /\ Pool' = Pool /\ c \in Pool
<1>1. TypeOK /\ QueueType /\ MapInv /\ PoolWork /\ OwedInv
  BY DEF PoolInv, TypeInv
<1>2. queue[c] # <<>> /\ queue[c] \in Seq(Posted) /\ Head(queue[c]).do = "unload"
  BY <1>1 DEF RunUnload, QueueType
<1>3. c \in Pool
  <2>1. 1 \in DOMAIN queue[c] /\ Head(queue[c]) = queue[c][1]
    BY <1>2, HeadTailProperties, LenProperties, EmptySeq
  <2> QED BY <1>1, <1>2, <2>1 DEF OwedInv, Unloading
<1>4. MapInv' /\ Pool' = Pool /\ fault' \in Faults
  BY <1>1, <1>3, DischargeKeeps DEF RunUnload, TypeOK
<1>5. /\ queue' = [queue EXCEPT ![c] = Tail(queue[c])]
      /\ Tail(queue[c]) \in Seq(Posted)
      /\ \A j \in DOMAIN Tail(queue[c]) : j + 1 \in DOMAIN queue[c] /\ Tail(queue[c])[j] = queue[c][j + 1]
  BY <1>2, HeadTailProperties, LenProperties, EmptySeq DEF RunUnload
<1>6. QueueType'
  BY <1>1, <1>5 DEF QueueType
<1>7. \A d \in Coroutines : \A i \in DOMAIN queue'[d] : \E j \in DOMAIN queue[d] : queue'[d][i] = queue[d][j]
  BY <1>1, <1>5 DEF QueueType
<1>8. UNCHANGED <<ready, members, current, terminate, idVars, home, pc, begun, dead, running,
                  waiters, todo, target, timers, told, calls, init, poolSize, size, round>>
  BY DEF RunUnload, joinVars
<1>9. /\ at' \in [Coroutines -> Labels]
      /\ \A d \in Coroutines : at'[d] = at[d] \/ (at[d] # "none" /\ at'[d] = "drain")
  <2>1. at[c] # "none" /\ at' = [at EXCEPT ![c] = IF at[c] = "wait" THEN "drain" ELSE at[c]]
    BY DEF RunUnload, CoGoto
  <2> QED BY <1>1, <2>1 DEF TypeOK, Labels
<1>10. \A y \in Contexts : Registered(y)' => Registered(y)
  <2>1. \A y \in Contexts : Registering(y)' => Registering(y)
    BY <1>7 DEF Registering, Registration
  <2> QED BY <1>8, <2>1 DEF Registered
<1>11. \A d \in Coroutines : Unloading(d)' => Unloading(d)
  BY <1>7 DEF Unloading
<1>12. \A t \in Threads : Moved(t)
  BY <1>8 DEF Moved
<1>13. /\ told' \in Seq(Contexts) /\ home' \in [Contexts -> Coroutines \cup {Nil}]
       /\ running' \subseteq Contexts /\ calls' \in 0 .. MaxCalls
       /\ pc' \in [Callers -> CallerLabels]
       /\ target' \in [Callers -> Contexts \cup Coroutines \cup {Nil}]
  BY <1>1, <1>8 DEF TypeOK
<1>14. init' \in BOOLEAN /\ (init => init') /\ poolSize' \in Nat /\ size' \in [Threads -> Nat]
  BY <1>1, <1>8 DEF PoolWork
<1>15. PoolInv'
  BY <1>4, <1>6, <1>8, <1>9, <1>10, <1>11, <1>12, <1>13, <1>14, PoolMoves
<1> QED BY <1>3, <1>4, <1>15

LEMMA DefaultKeeps ==
  ASSUME PoolInv, DefaultLoop
  PROVE  PoolInv' /\ Pool' = Pool /\ home[Head(told)] \in Pool
<1>1. TypeOK /\ QueueType /\ MapInv /\ PoolWork /\ OwedInv
  BY DEF PoolInv, TypeInv
<1>2. told # <<>> /\ told \in Seq(Contexts) /\ told' = Tail(told)
  BY <1>1 DEF DefaultLoop, TypeOK
<1>3. /\ Head(told) \in Contexts /\ 1 \in DOMAIN told /\ Head(told) = told[1]
      /\ Tail(told) \in Seq(Contexts)
      /\ \A j \in DOMAIN Tail(told) : j + 1 \in DOMAIN told /\ Tail(told)[j] = told[j + 1]
  BY <1>2, HeadTailProperties, LenProperties, EmptySeq
<1>4. home[Head(told)] \in Pool
  BY <1>1, <1>3 DEF OwedInv, Registered
<1>5. MapInv' /\ Pool' = Pool /\ fault' \in Faults
  BY <1>1, <1>4, DischargeKeeps DEF DefaultLoop, TypeOK
<1>6. UNCHANGED <<queue, at, ready, members, current, terminate, idVars, home, pc, begun, dead,
                  running, waiters, todo, target, timers, calls, init, poolSize, size, round>>
  BY DEF DefaultLoop, coVars, joinVars
<1>7. \A y \in Contexts : Registered(y)' => Registered(y)
  <2>1. \A y \in Contexts : (\E i \in DOMAIN told' : told'[i] = y) => \E i \in DOMAIN told : told[i] = y
    BY <1>2, <1>3
  <2> QED BY <1>6, <2>1 DEF Registered, Registering, Registration
<1>8. \A d \in Coroutines : Unloading(d)' => Unloading(d)
  BY <1>6 DEF Unloading
<1>9. \A t \in Threads : Moved(t)
  BY <1>6 DEF Moved
<1>10. /\ told' \in Seq(Contexts) /\ home' \in [Contexts -> Coroutines \cup {Nil}]
       /\ at' \in [Coroutines -> Labels]
       /\ running' \subseteq Contexts /\ calls' \in 0 .. MaxCalls
       /\ pc' \in [Callers -> CallerLabels]
       /\ target' \in [Callers -> Contexts \cup Coroutines \cup {Nil}]
  BY <1>1, <1>2, <1>3, <1>6 DEF TypeOK
<1>11. init' \in BOOLEAN /\ (init => init') /\ poolSize' \in Nat /\ size' \in [Threads -> Nat]
  BY <1>1, <1>6 DEF PoolWork
<1>12. QueueType'
  BY <1>1, <1>6 DEF QueueType
<1>13. PoolInv'
  BY <1>5, <1>6, <1>7, <1>8, <1>9, <1>10, <1>11, <1>12, PoolMoves
<1> QED BY <1>4, <1>5, <1>13

LEMMA PoolInitially == ASSUME PoolInit PROVE PoolInv /\ Pool = {} /\ poolMap = <<>>
<1>1. TypeInv
  BY TypeInit DEF PoolInit
<1>2. Pool = {} /\ poolMap = <<>> /\ workSize = [c \in Coroutines |-> Nil]
  BY DEF PoolInit, Pool
<1>3. MapInv
  <2>1. poolMap \in Seq(Entries) /\ Len(poolMap) = 0 /\ DOMAIN poolMap = {}
    BY <1>2
  <2>2. MapOf(poolMap, workSize, Pool)
    BY <1>2, <2>1 DEF MapOf
  <2> QED BY <1>2, <2>1, <2>2 DEF MapInv, Sorted, PoolInit
<1>4. PoolWork
  <2>1. poolSize \in Nat /\ init = FALSE /\ size \in [Threads -> Nat]
    BY PoolAssumption DEF PoolInit
  <2>2. \A t \in Threads : pc[t] = "user"
    BY Different DEF PoolInit, Init, Callers
  <2> QED BY <1>2, <2>1, <2>2 DEF PoolWork, ThreadWork
<1>5. OwedInv
  BY DEF PoolInit, Init, OwedInv, Registered, Registering, Unloading
<1> QED BY <1>1, <1>2, <1>3, <1>4, <1>5 DEF PoolInv

LEMMA PoolStep == ASSUME PoolInv, [PoolNext]_allVars PROVE PoolInv'
<1>1. CASE UNCHANGED allVars
  BY <1>1, CoroutinesKeep DEF allVars
<1>2. CASE Next /\ UNCHANGED poolVars
  BY <1>2, CoroutinesKeep
<1>3. CASE \E t \in Threads : PoolThreadStep(t)
  BY <1>3, TakePoolKeeps, LeaveKeeps, WorkKeeps, ConnectKeeps, LoopWorkKeeps DEF PoolThreadStep
<1>4. CASE \E t \in Threads : \E c \in Coroutines : FillPool(t, c)
  BY <1>4, FillKeeps
<1>5. CASE \E t \in Threads : \E x \in Contexts \cup {Nil} : EnterPool(t, x)
  BY <1>5, EnterKeeps
<1>6. CASE \E t \in Threads : \E n \in 0 .. MaxSize : SetPoolSize(t, n)
  <2>1. 0 .. MaxSize \subseteq Nat
    BY PoolAssumption
  <2> QED BY <1>6, <2>1, SetSizeKeeps
<1>7. CASE (\E c \in Coroutines : RunUnload(c)) \/ DefaultLoop
  BY <1>7, UnloadKeeps, DefaultKeeps
<1> QED BY <1>1, <1>2, <1>3, <1>4, <1>5, <1>6, <1>7 DEF PoolNext

LEMMA PoolInvariant == PoolSpec => []PoolInv
<1>1. PoolInit => PoolInv
  BY PoolInitially
<1>2. PoolInv /\ [PoolNext]_allVars => PoolInv'
  BY PoolStep
<1> QED BY <1>1, <1>2, PTL DEF PoolSpec

(* The values of the pool's variables have their types: whatever the       *)
(* threads and the two loops do, the first entry of g_poolMap is that of a *)
(* coroutine of the pool, and a context is handed to no other              *)
(* (coroutine_pool.cc:23, :91, :117).                                      *)
THEOREM PoolTypeCorrect == PoolSpec => []PoolTypeOK
<1>1. PoolInv => PoolTypeOK
  BY DEF PoolInv, TypeInv, MapInv, PoolWork, PoolTypeOK, Entries
<1> QED BY <1>1, PoolInvariant, PTL
-----------------------------------------------------------------------------
(* MapsAgree.                                                              *)

(* The map has as many entries as the pool has coroutines.                 *)
LEMMA MapOfLength ==
  ASSUME NEW keys, NEW P, NEW map \in Seq(Entries), MapOf(map, keys, P)
  PROVE  Len(map) = Cardinality(P) /\ IsFiniteSet(P)
<1>1. Len(map) \in Nat
  BY LenProperties
<1>2. PICK co : co = [i \in 1 .. Len(map) |-> map[i].co]
  OBVIOUS
<1>3. co \in Bijection(1 .. Len(map), P)
  <2>1. co \in [1 .. Len(map) -> P]
    BY <1>2 DEF MapOf
  <2>2. \A i, j \in 1 .. Len(map) : co[i] = co[j] => i = j
    BY <1>2 DEF MapOf
  <2>3. \A c \in P : \E i \in 1 .. Len(map) : co[i] = c
    BY <1>2 DEF MapOf
  <2> QED BY <2>1, <2>2, <2>3, Fun_IsBij
<1>4. ExistsBijection(1 .. Len(map), P)
  BY <1>3 DEF ExistsBijection
<1>5. IsFiniteSet(1 .. Len(map)) /\ Cardinality(1 .. Len(map)) = Len(map)
  BY <1>1, FS_Interval
<1> QED BY <1>4, <1>5, FS_Bijection

(* The sizes asked for are none of 0: hardware_concurrency knows how many  *)
(* threads the machine has, and no user sets the size 0.                   *)
PositiveSizes ==
  /\ HardwareThreads >= 1
  /\ \A call \in Calls : call[2] = "size" => call[3] >= 1

(* Somebody fills the pool as long as it is empty, and a call that misses  *)
(* is one that comes before that.                                          *)
Filling == \E t \in Threads : pc[t] \in {"fill", "filling"}

AgreeInv ==
  /\ poolSize >= 1
  /\ init /\ Pool = {} => Filling
  /\ Apart /\ fault = "pool" => poolMap = <<>> /\ \E t \in Threads : pc[t] = "fill"

LEMMA EmptyMap ==
  ASSUME PoolInv
  PROVE  /\ Pool = {} => poolMap = <<>>
         /\ Apart /\ poolMap = <<>> => Pool = {}
         /\ Len(poolMap) \in Nat /\ (poolMap = <<>> => Len(poolMap) = 0)
<1>1. MapInv /\ poolMap \in Seq(Entries)
  BY DEF PoolInv, MapInv
<1>2. Len(poolMap) \in Nat /\ (poolMap = <<>> <=> Len(poolMap) = 0)
  BY <1>1, LenProperties, EmptySeq
<1>3. Pool = {} => poolMap = <<>>
  BY <1>1, <1>2 DEF MapInv
<1>4. Apart /\ poolMap = <<>> => Pool = {}
  BY <1>1, <1>2 DEF MapInv, MapOf
<1> QED BY <1>2, <1>3, <1>4

LEMMA AgreeCoroutines ==
  ASSUME PoolInv, AgreeInv, [Next]_vars, UNCHANGED poolVars PROVE AgreeInv'
<1>1. CoQuiet
  BY QuietStep DEF PoolInv
<1>2. UNCHANGED <<poolMap, workSize, init, poolSize>> /\ Pool' = Pool
  BY DEF poolVars, mapVars, Pool
<1>3. Apart' <=> Apart
  BY <1>2 DEF Apart
<1>4. \A t \in Threads : pc[t] \in PoolLabels => pc'[t] = pc[t]
  BY <1>1 DEF CoQuiet, CallersStay
<1>5. fault' = "pool" => fault = "pool"
  BY <1>1 DEF CoQuiet, CallersStay
<1>6. Filling => Filling'
  BY <1>4 DEF Filling, PoolLabels
<1>7. (\E t \in Threads : pc[t] = "fill") => \E t \in Threads : pc'[t] = "fill"
  BY <1>4 DEF PoolLabels
<1> QED BY <1>2, <1>3, <1>5, <1>6, <1>7 DEF AgreeInv

(* One thread moves.                                                       *)
LEMMA OthersFill ==
  ASSUME TypeOK, NEW t \in Threads, NEW label, Goto(t, label)
  PROVE  /\ pc'[t] = label /\ \A v \in Threads : v # t => pc'[v] = pc[v]
         /\ (pc[t] \notin {"fill", "filling"} \/ label \in {"fill", "filling"}) /\ Filling => Filling'
<1>1. pc'[t] = label /\ \A v \in Threads : v # t => pc'[v] = pc[v]
  BY DEF TypeOK, Goto, Callers
<1> QED BY <1>1 DEF Filling

(* A thread finds the map empty only while another is about to fill it.    *)
LEMMA AgreeMisses ==
  ASSUME PoolInv, AgreeInv, NEW t \in Threads, pc[t] = "choose", PoolFree, Apart, poolMap = <<>>
  PROVE  \E v \in Threads : pc[v] = "fill"
<1>1. init
  BY DEF PoolInv, PoolWork, ThreadWork
<1>2. Pool = {}
  BY EmptyMap
<1> QED BY <1>1, <1>2 DEF AgreeInv, Filling, PoolFree

LEMMA AgreeChoose ==
  ASSUME PoolInv, AgreeInv, fault = "none", NEW t \in Threads, CoroutineWork(t) \/ LoopWork(t)
  PROVE  AgreeInv'
<1>1. Pool' = Pool /\ UNCHANGED <<init, poolSize>> /\ PoolFree /\ pc[t] = "choose"
  BY WorkKeeps, LoopWorkKeeps DEF CoroutineWork, LoopWork
<1>2. CASE poolMap = <<>>
  <2>1. fault' = "pool" /\ UNCHANGED <<pc, poolMap, workSize>>
    BY <1>2 DEF CoroutineWork, LoopWork
  <2>2. Apart' => Apart
    BY <1>1, <2>1 DEF Apart
  <2>3. Filling => Filling'
    BY <2>1 DEF Filling
  <2>4. Apart => \E v \in Threads : pc'[v] = "fill"
    BY <1>1, <1>2, <2>1, AgreeMisses
  <2> QED BY <1>1, <1>2, <2>1, <2>2, <2>3, <2>4 DEF AgreeInv
<1>3. CASE poolMap # <<>>
  <2>1. fault' = "none"
    BY <1>3 DEF CoroutineWork, LoopWork
  <2>2. Pool # {}
    BY <1>3, EmptyMap
  <2> QED BY <1>1, <2>1, <2>2 DEF AgreeInv
<1> QED BY <1>2, <1>3

LEMMA AgreeDischarge ==
  ASSUME PoolInv, AgreeInv, fault = "none", NEW c \in Pool, Discharge(c), Pool' = Pool,
         UNCHANGED <<pc, init, poolSize, round>>
  PROVE  AgreeInv'
<1>1. fault' = "none" \/ (~ Apart /\ UNCHANGED <<poolMap, workSize>>)
  BY DischargeMap DEF PoolInv
<1>2. Filling => Filling'
  BY DEF Filling
<1>3. CASE fault' = "none"
  BY <1>2, <1>3 DEF AgreeInv
<1>4. CASE ~ Apart /\ UNCHANGED <<poolMap, workSize>>
  <2>1. ~ Apart'
    BY <1>4 DEF Apart
  <2> QED BY <1>2, <2>1 DEF AgreeInv
<1> QED BY <1>1, <1>3, <1>4

LEMMA AgreeThread ==
  ASSUME PoolInv, AgreeInv, fault = "none", NEW t \in Threads, PoolThreadStep(t)
  PROVE  AgreeInv'
<1>1. TypeOK /\ poolSize \in Nat
  BY DEF PoolInv, TypeInv, PoolWork
<1>2. Pool = {} => Len(poolMap) = 0 /\ round = 0
  <2>1. Pool = {} => round = 0
    BY DEF PoolInv, MapInv
  <2> QED BY <2>1, EmptyMap
<1>3. CASE TakePool(t)
  <2>1. Pool' = Pool /\ UNCHANGED <<fault, init, poolSize>>
    BY <1>3, TakePoolKeeps DEF TakePool
  <2>2. PICK label : Goto(t, label) /\ (Pool = {} /\ pc[t] = "fill" => label = "filling")
    <3>1. Pool = {} /\ pc[t] = "fill" => Len(poolMap) < Wanted(t)
      BY <1>1, <1>2 DEF Wanted, AgreeInv
    <3> QED BY <1>3, <3>1 DEF TakePool, AfterFill
  <2>3. Pool = {} /\ Filling => Filling'
    BY <1>1, <1>3, <2>2, OthersFill DEF TakePool
  <2> QED BY <2>1, <2>3 DEF AgreeInv
<1>4. CASE LeavePool(t)
  <2>1. Pool' = Pool /\ UNCHANGED <<fault, init, poolSize>>
    BY <1>4, LeaveKeeps DEF LeavePool, poolVars
  <2>2. PICK label : Goto(t, label)
    BY <1>4 DEF LeavePool, AfterFill
  <2>3. Pool = {} => pc[t] = "growing"
    <3>1. Pool = {} /\ pc[t] = "filling" => FillsOn(t)
      BY <1>1, <1>2 DEF FillsOn, Wanted, AgreeInv
    <3> QED BY <1>4, <3>1 DEF LeavePool
  <2>4. Pool = {} /\ Filling => Filling'
    BY <1>1, <2>2, <2>3, OthersFill
  <2> QED BY <2>1, <2>4 DEF AgreeInv
<1>5. CASE CoroutineWork(t) \/ LoopWork(t)
  BY <1>5, AgreeChoose
<1>6. CASE ConnectPool(t)
  <2>1. Pool' = Pool /\ UNCHANGED <<fault, init, poolSize>> /\ Goto(t, "user") /\ pc[t] = "connect"
    BY <1>6, ConnectKeeps DEF ConnectPool, poolVars
  <2>2. Filling => Filling'
    BY <1>1, <2>1, OthersFill
  <2> QED BY <2>1, <2>2 DEF AgreeInv
<1> QED BY <1>3, <1>4, <1>5, <1>6 DEF PoolThreadStep

LEMMA AgreeCall ==
  ASSUME PositiveSizes, PoolInv, AgreeInv, fault = "none", NEW t \in Threads,
         \/ \E x \in Contexts \cup {Nil} : EnterPool(t, x)
         \/ \E n \in 0 .. MaxSize : SetPoolSize(t, n)
  PROVE  AgreeInv'
<1>1. TypeOK
  BY DEF PoolInv, TypeInv
<1>2. CASE \E x \in Contexts \cup {Nil} : EnterPool(t, x)
  <2>1. PICK x \in Contexts \cup {Nil} : EnterPool(t, x)
    BY <1>2
  <2>2. Pool' = Pool /\ UNCHANGED <<fault, poolSize>>
    BY <2>1, EnterKeeps DEF EnterPool
  <2>3. Goto(t, IF init THEN "choose" ELSE "fill") /\ pc[t] = "user"
    BY <2>1 DEF EnterPool, May
  <2>4. pc'[t] = (IF init THEN "choose" ELSE "fill") /\ (Filling => Filling')
    BY <1>1, <2>3, OthersFill
  <2>5. Pool = {} => Filling'
    <3>1. CASE init
      BY <2>4, <3>1 DEF AgreeInv
    <3>2. CASE ~ init
      BY <2>4, <3>2 DEF Filling
    <3> QED BY <3>1, <3>2
  <2> QED BY <2>2, <2>5 DEF AgreeInv
<1>3. CASE \E n \in 0 .. MaxSize : SetPoolSize(t, n)
  <2>1. PICK n \in 0 .. MaxSize : SetPoolSize(t, n)
    BY <1>3
  <2>2. n \in Nat
    BY PoolAssumption
  <2>3. Pool' = Pool /\ UNCHANGED <<fault, init>> /\ poolSize' = n
    BY <2>1, <2>2, SetSizeKeeps DEF SetPoolSize
  <2>4. Goto(t, "grow") /\ pc[t] = "user" /\ <<t, "size", n>> \in Calls
    BY <2>1 DEF SetPoolSize, May
  <2>5. n >= 1
    BY <2>4 DEF PositiveSizes
  <2>6. Filling => Filling'
    BY <1>1, <2>4, OthersFill
  <2> QED BY <2>3, <2>5, <2>6 DEF AgreeInv
<1> QED BY <1>2, <1>3

LEMMA AgreeStep ==
  ASSUME PositiveSizes, PoolInv, AgreeInv, [PoolNext]_allVars PROVE AgreeInv'
<1>1. CASE UNCHANGED allVars \/ (Next /\ UNCHANGED poolVars)
  BY <1>1, AgreeCoroutines DEF allVars
<1>2. CASE fault = "none" /\ \E t \in Threads : PoolThreadStep(t)
  BY <1>2, AgreeThread
<1>3. CASE fault = "none" /\ \E t \in Threads : \E c \in Coroutines : FillPool(t, c)
  <2>1. PICK t \in Threads, c \in Coroutines : FillPool(t, c)
    BY <1>3
  <2>2. Pool' # {}
    BY <2>1, FillKeeps
  <2>3. fault' = "none" /\ poolSize' = poolSize
    BY <1>3, <2>1 DEF FillPool
  <2> QED BY <2>2, <2>3 DEF AgreeInv
<1>4. CASE /\ fault = "none"
           /\ \E t \in Threads : \/ \E x \in Contexts \cup {Nil} : EnterPool(t, x)
                                 \/ \E n \in 0 .. MaxSize : SetPoolSize(t, n)
  BY <1>4, AgreeCall
<1>5. CASE fault = "none" /\ \E c \in Coroutines : RunUnload(c)
  BY <1>5, UnloadKeeps, AgreeDischarge DEF RunUnload
<1>6. CASE fault = "none" /\ DefaultLoop
  BY <1>6, DefaultKeeps, AgreeDischarge DEF DefaultLoop
<1> QED BY <1>1, <1>2, <1>3, <1>4, <1>5, <1>6 DEF PoolNext

(* Calls and completions leave each coroutine of the pool in g_poolMap     *)
(* once, under the load of g_coroutineWorkSizeMap, and only a call that    *)
(* comes before the pool is filled finds no coroutine, as long as the      *)
(* loads are different and no size is 0 (coroutine_pool.cc:69, :91, :103). *)
THEOREM LoadsInOneMap ==
  ASSUME PositiveSizes
  PROVE  PoolSpec => []MapsAgree
<1>1. PoolInit => PoolInv /\ AgreeInv
  BY PoolInitially DEF PoolInit, Init, AgreeInv, PositiveSizes
<1>2. PoolInv /\ AgreeInv /\ [PoolNext]_allVars => PoolInv' /\ AgreeInv'
  BY PoolStep, AgreeStep
<1>3. PoolInv /\ AgreeInv => MapsAgree
  <2>1. SUFFICES ASSUME PoolInv, AgreeInv, Apart
                 PROVE  /\ Len(poolMap) = Cardinality(Pool)
                        /\ \A c \in Pool : \E i \in DOMAIN poolMap : poolMap[i] = Entry(workSize[c], c)
    BY DEF MapsAgree, AgreeInv
  <2>2. MapOf(poolMap, workSize, Pool) /\ poolMap \in Seq(Entries)
    BY <2>1 DEF PoolInv, MapInv
  <2>3. ASSUME NEW c \in Pool
        PROVE  \E i \in DOMAIN poolMap : poolMap[i] = Entry(workSize[c], c)
    <3>1. PICK i \in 1 .. Len(poolMap) : poolMap[i].co = c /\ poolMap[i].key = workSize[c]
      BY <2>2 DEF MapOf
    <3>2. i \in DOMAIN poolMap /\ poolMap[i] \in Entries
      BY <2>2, <3>1, ElementKeys
    <3> QED BY <3>1, <3>2 DEF Entries, Entry
  <2> QED BY <2>2, <2>3, MapOfLength
<1> QED BY <1>1, <1>2, <1>3, PTL DEF PoolSpec
-----------------------------------------------------------------------------
(* LoadCoversWork.                                                         *)

(* The functions of a queue that discharge its coroutine, and the contexts *)
(* that have not.                                                          *)
Unloads(q) == {i \in DOMAIN q : q[i].do = "unload"}

Told(x) == \E i \in DOMAIN told : told[i] = x

Unfinished(c) == {x \in Contexts : home[x] = c /\ (x \notin dead \/ Watch \in todo[x] \/ Told(x))}

Handed == {x \in Contexts : home[x] # Nil}

(* A context is handed to the default loop once, and not before its end.   *)
ToldInv ==
  /\ \A i, j \in DOMAIN told : told[i] = told[j] => i = j
  /\ \A i \in DOMAIN told : told[i] \in dead /\ Watch \notin todo[told[i]]
  /\ \A x \in Contexts : Watch \in todo[x] => x \in dead

(* What a coroutine owes is covered by its load.                           *)
Covered(c) ==
  workSize[c].load >= Cardinality(Unloads(queue[c])) + Cardinality(Unfinished(c))

LoadInv ==
  /\ IsFiniteSet(Handed)
  /\ \A x \in Contexts : home[x] # Nil => home[x] \in Pool
  /\ \A c \in Pool : Covered(c)

(* Contexts come to a coroutine through the pool only.                     *)
NoWork == \A call \in Calls : call[2] # "work"

LEMMA UnloadsFinite ==
  ASSUME NEW q \in Seq(Posted)
  PROVE  IsFiniteSet(Unloads(q)) /\ Cardinality(Unloads(q)) \in Nat
<1>1. DOMAIN q = 1 .. Len(q) /\ Len(q) \in Nat
  BY LenProperties
<1>2. IsFiniteSet(1 .. Len(q)) /\ Unloads(q) \in SUBSET (1 .. Len(q))
  BY <1>1, FS_Interval DEF Unloads
<1>3. IsFiniteSet(Unloads(q))
  BY <1>2, FS_Subset
<1> QED BY <1>3, FS_CardinalityType

LEMMA UnloadsAppend ==
  ASSUME NEW q \in Seq(Posted), NEW f \in Posted
  PROVE  Cardinality(Unloads(Append(q, f))) = Cardinality(Unloads(q)) + IF f.do = "unload" THEN 1 ELSE 0
<1>1. PICK r : r = Append(q, f)
  OBVIOUS
<1>2. /\ DOMAIN q = 1 .. Len(q) /\ Len(q) \in Nat /\ DOMAIN r = 1 .. Len(q) + 1
      /\ r[Len(q) + 1] = f /\ \A i \in 1 .. Len(q) : r[i] = q[i]
  BY <1>1, AppendProperties, LenProperties
<1>3. IsFiniteSet(Unloads(q)) /\ Cardinality(Unloads(q)) \in Nat
  BY UnloadsFinite
<1>4. \A i \in 1 .. Len(q) + 1 : i \in 1 .. Len(q) \/ i = Len(q) + 1
  BY <1>2
<1>5. \A i \in 1 .. Len(q) : i \in 1 .. Len(q) + 1 /\ i # Len(q) + 1
  BY <1>2
<1>6. Len(q) + 1 \in 1 .. Len(q) + 1
  BY <1>2
<1>7. CASE f.do = "unload"
  <2>1. Unloads(r) = Unloads(q) \cup {Len(q) + 1}
    BY <1>2, <1>4, <1>5, <1>6, <1>7 DEF Unloads
  <2>2. Len(q) + 1 \notin Unloads(q)
    BY <1>2, <1>5 DEF Unloads
  <2>3. Cardinality(Unloads(q) \cup {Len(q) + 1}) = Cardinality(Unloads(q)) + 1
    BY <1>3, <2>2, FS_AddElement
  <2> QED BY <1>1, <1>7, <2>1, <2>3
<1>8. CASE f.do # "unload"
  <2>1. Unloads(r) = Unloads(q)
    BY <1>2, <1>4, <1>5, <1>6, <1>8 DEF Unloads
  <2> QED BY <1>1, <1>3, <1>8, <2>1
<1> QED BY <1>7, <1>8

LEMMA UnloadsTail ==
  ASSUME NEW q \in Seq(Posted), q # <<>>
  PROVE  Cardinality(Unloads(Tail(q))) = Cardinality(Unloads(q)) - IF Head(q).do = "unload" THEN 1 ELSE 0
<1>1. PICK r : r = Tail(q)
  OBVIOUS
<1>2. PICK n \in Nat : n = Len(q)
  BY LenProperties
<1>3. n # 0 /\ DOMAIN q = 1 .. n
  BY <1>2, EmptySeq, LenProperties
<1>4. /\ r \in Seq(Posted) /\ Len(r) = n - 1 /\ Head(q) = q[1]
      /\ \A i \in 1 .. Len(r) : r[i] = q[i + 1]
  BY <1>1, <1>2, HeadTailProperties
<1>5. DOMAIN r = 1 .. n - 1
  BY <1>4, LenProperties
<1>6. PICK f : f = [i \in Unloads(r) |-> i + 1]
  OBVIOUS
<1>7. PICK S : S = Unloads(q) \ {1}
  OBVIOUS
<1>8. f \in Bijection(Unloads(r), S)
  <2>1. \A i \in Unloads(r) : i \in 1 .. n - 1 /\ r[i].do = "unload" /\ r[i] = q[i + 1]
    BY <1>4, <1>5 DEF Unloads
  <2>2. \A i \in 1 .. n - 1 : i + 1 \in 1 .. n /\ i + 1 # 1
    BY <1>2
  <2>3. \A i \in Unloads(r) : i + 1 \in S
    BY <1>3, <1>7, <2>1, <2>2 DEF Unloads
  <2>4. f \in [Unloads(r) -> S]
    BY <1>6, <2>3
  <2>5. \A i, j \in Unloads(r) : f[i] = f[j] => i = j
    BY <1>6, <2>1
  <2>6. \A k \in S : \E i \in Unloads(r) : f[i] = k
    <3>1. TAKE k \in S
    <3>2. k \in 1 .. n /\ k # 1 /\ q[k].do = "unload"
      BY <1>3, <1>7 DEF Unloads
    <3>3. k - 1 \in 1 .. n - 1 /\ (k - 1) + 1 = k
      BY <1>2, <3>2
    <3>4. k - 1 \in Unloads(r)
      <4>1. r[k - 1] = q[(k - 1) + 1]
        BY <1>4, <3>3
      <4> QED BY <1>5, <3>2, <3>3, <4>1 DEF Unloads
    <3>5. f[k - 1] = k
      BY <1>6, <3>3, <3>4
    <3> QED BY <3>4, <3>5
  <2> QED BY <2>4, <2>5, <2>6, Fun_IsBij
<1>9. IsFiniteSet(Unloads(r)) /\ Cardinality(S) = Cardinality(Unloads(r))
  <2>1. IsFiniteSet(Unloads(r)) /\ ExistsBijection(Unloads(r), S)
    BY <1>4, <1>8, UnloadsFinite DEF ExistsBijection
  <2> QED BY <2>1, FS_Bijection
<1>10. IsFiniteSet(Unloads(q)) /\ Cardinality(Unloads(q)) \in Nat
  BY UnloadsFinite
<1>11. Cardinality(S) = IF 1 \in Unloads(q) THEN Cardinality(Unloads(q)) - 1 ELSE Cardinality(Unloads(q))
  BY <1>7, <1>10, FS_RemoveElement
<1>12. 1 \in Unloads(q) <=> Head(q).do = "unload"
  <2>1. 1 \in 1 .. n
    BY <1>2, <1>3
  <2> QED BY <1>3, <1>4, <2>1 DEF Unloads
<1> QED BY <1>1, <1>9, <1>10, <1>11, <1>12

LEMMA QueueOf ==
  ASSUME TypeInv, NEW c \in Coroutines
  PROVE  queue[c] \in Seq(Posted) /\ Cardinality(Unloads(queue[c])) \in Nat
BY UnloadsFinite DEF TypeInv, QueueType

(* The coroutines post no such function, and run none.                     *)
LEMMA UnloadsMove ==
  ASSUME TypeInv, QueueMoves, NEW c \in Coroutines
  PROVE  Cardinality(Unloads(queue'[c])) = Cardinality(Unloads(queue[c]))
<1>1. queue \in [Coroutines -> Seq(Posted)]
  BY DEF TypeInv, QueueType
<1>2. \A f \in Ours : f \in Posted /\ f.do # "unload"
  BY DEF Ours, Pools
<1>3. \A d \in Coroutines : Cardinality(Unloads(queue[d])) \in Nat
  BY QueueOf
<1>4. CASE queue' = queue
  BY <1>4
<1>5. CASE \E f \in Ours : Adds(f)
  <2>1. PICK f \in Ours, d \in Coroutines : queue' = [queue EXCEPT ![d] = Append(queue[d], f)]
    BY <1>5 DEF Adds
  <2>2. queue'[c] = queue[c] \/ queue'[c] = Append(queue[c], f)
    BY <1>1, <2>1
  <2>3. Cardinality(Unloads(Append(queue[c], f))) = Cardinality(Unloads(queue[c])) + 0
    BY <1>1, <1>2, UnloadsAppend
  <2>4. CASE queue'[c] = queue[c]
    BY <2>4
  <2>5. CASE queue'[c] = Append(queue[c], f)
    <3>1. Cardinality(Unloads(queue[c])) \in Nat
      BY <1>3
    <3> QED BY <2>3, <2>5, <3>1
  <2> QED BY <2>2, <2>4, <2>5
<1>6. CASE \E d \in Coroutines :
             /\ queue[d] # <<>> /\ Head(queue[d]).do # "unload"
             /\ \/ queue' = [queue EXCEPT ![d] = Tail(queue[d])]
                \/ \E f \in Ours : queue' = [queue EXCEPT ![d] = Append(Tail(queue[d]), f)]
  <2>1. PICK d \in Coroutines :
             /\ queue[d] # <<>> /\ Head(queue[d]).do # "unload"
             /\ \/ queue' = [queue EXCEPT ![d] = Tail(queue[d])]
                \/ \E f \in Ours : queue' = [queue EXCEPT ![d] = Append(Tail(queue[d]), f)]
    BY <1>6
  <2>2. PICK q \in Seq(Posted) : q = Tail(queue[d])
    BY <1>1, <2>1, HeadTailProperties
  <2>3. Cardinality(Unloads(q)) = Cardinality(Unloads(queue[d]))
    BY <1>1, <1>3, <2>1, <2>2, UnloadsTail
  <2>4. CASE c = d
    <3>1. queue'[c] = q \/ \E f \in Ours : queue'[c] = Append(q, f)
      BY <1>1, <2>1, <2>2, <2>4
    <3>2. \A f \in Ours : Cardinality(Unloads(Append(q, f))) = Cardinality(Unloads(q))
      BY <1>2, <1>3, <2>3, UnloadsAppend
    <3> QED BY <2>3, <2>4, <3>1, <3>2
  <2>5. CASE c # d
    <3>1. queue'[c] = queue[c]
      BY <1>1, <2>1, <2>5
    <3> QED BY <3>1
  <2> QED BY <2>4, <2>5
<1> QED BY <1>4, <1>5, <1>6 DEF QueueMoves

LEMMA LoadTypes ==
  ASSUME PoolInv, LoadInv, NEW c \in Pool
  PROVE  /\ c \in Coroutines /\ workSize[c].load \in Int
         /\ Cardinality(Unloads(queue[c])) \in Nat
         /\ IsFiniteSet(Unfinished(c)) /\ Cardinality(Unfinished(c)) \in Nat
<1>1. c \in Coroutines /\ workSize[c].load \in Int
  BY PoolKeys DEF PoolInv
<1>2. Cardinality(Unloads(queue[c])) \in Nat
  BY <1>1, QueueOf DEF PoolInv
<1>3. Unfinished(c) \in SUBSET Handed
  BY <1>1, Different DEF Unfinished, Handed
<1>4. IsFiniteSet(Unfinished(c))
  BY <1>3, FS_Subset DEF LoadInv
<1> QED BY <1>1, <1>2, <1>4, FS_CardinalityType

(* What is owed changes no more than the load does.                        *)
LEMMA CoverKept ==
  ASSUME PoolInv, LoadInv, NEW c \in Pool, NEW more \in Int,
         workSize'[c].load \in Int, workSize'[c].load >= workSize[c].load + more,
         Cardinality(Unloads(queue'[c])) = Cardinality(Unloads(queue[c])) + more,
         Unfinished(c)' \subseteq Unfinished(c)
  PROVE  Covered(c)'
<1>1. /\ workSize[c].load \in Int
      /\ Cardinality(Unloads(queue[c])) \in Nat
      /\ IsFiniteSet(Unfinished(c)) /\ Cardinality(Unfinished(c)) \in Nat
  BY LoadTypes
<1>2. PICK U : U = Unfinished(c)'
  OBVIOUS
<1>3. U \in SUBSET Unfinished(c)
  BY <1>2
<1>4. IsFiniteSet(U) /\ Cardinality(U) <= Cardinality(Unfinished(c))
  BY <1>1, <1>3, FS_Subset
<1>5. Cardinality(U) \in Nat
  BY <1>4, FS_CardinalityType
<1>6. workSize[c].load >= Cardinality(Unloads(queue[c])) + Cardinality(Unfinished(c))
  BY DEF LoadInv, Covered
<1>7. workSize'[c].load >= Cardinality(Unloads(queue'[c])) + Cardinality(U)
  BY <1>1, <1>4, <1>5, <1>6
<1> QED BY <1>2, <1>7 DEF Covered

(* Only work hands a context over, but for the pool.                       *)
LEMMA HomesStay ==
  ASSUME NoWork, TypeInv, [Next]_vars PROVE home' = home
<1>1. \A u \in Callers, x \in Contexts : ~ Work(u, x)
  <2>1. SUFFICES ASSUME NEW u \in Callers, NEW x \in Contexts, NEW c, <<u, "work", <<x, c>>>> \in Calls
                 PROVE  FALSE
    BY DEF Work, May
  <2>2. <<u, "work", <<x, c>>>>[2] = "work"
    OBVIOUS
  <2> QED BY <2>1, <2>2 DEF NoWork
<1>2. CASE \E t \in Threads, c \in Coroutines : NewInstance(t, c)
  BY <1>2 DEF NewInstance
<1>3. CASE \E c \in Coroutines :
             Delete(c) \/ Top(c) \/ RunFunction(c) \/ Drained(c) \/ Switch(c) \/ EndThread(c)
  BY <1>3 DEF Delete, Top, RunFunction, Drained, Switch, EndThread
<1>4. CASE \E x \in Contexts :
             \/ Complete(x) \/ Slot(x) \/ EmitYield(x) \/ Leave(x) \/ Yield(x)
             \/ Pending(x) \/ TimerFires(x) \/ (\E y \in Contexts : Join(x, y))
  BY <1>4 DEF Complete, Slot, EmitYield, Leave, Yield, Pending, TimerFires, Join
<1>5. CASE \E t \in Threads :
             \/ ThreadStep(t) \/ (\E x \in Contexts : ThreadJoin(t, x))
             \/ (\E c \in Coroutines : DeleteLater(t, c))
  BY <1>5 DEF ThreadStep, ThreadWaits, Terminate, UseLoop, ThreadJoin, DeleteLater
<1>6. CASE \E u \in Callers, x \in Contexts : Resume(u, x)
  BY <1>6 DEF Resume
<1>7. CASE UNCHANGED vars
  BY <1>7 DEF vars
<1> QED BY <1>1, <1>2, <1>3, <1>4, <1>5, <1>6, <1>7, StepCases

LEMMA ToldAppends ==
  ASSUME TypeOK, NEW x \in Contexts, told' = Append(told, x)
  PROVE  /\ \A i \in DOMAIN told' : (i \in DOMAIN told /\ told'[i] = told[i]) \/ (i = Len(told) + 1 /\ told'[i] = x)
         /\ Len(told) + 1 \notin DOMAIN told
<1>1. told \in Seq(Contexts)
  BY DEF TypeOK
<1> QED BY <1>1, AppendProperties, LenProperties

(* The end of a context takes nothing from what its coroutine owes.        *)
LEMMA SignalsKeep ==
  ASSUME TypeOK, ToldInv, SignalsMove, home' = home
  PROVE  ToldInv' /\ \A c \in Coroutines : Unfinished(c)' \subseteq Unfinished(c)
<1>1. todo \in [Contexts -> SUBSET (Contexts \cup {Watch})]
  BY DEF TypeOK
<1>2. CASE UNCHANGED <<todo, told, dead>>
  <2>1. ToldInv'
    BY <1>2 DEF ToldInv
  <2>2. \A c \in Coroutines : Unfinished(c)' = Unfinished(c)
    BY <1>2 DEF Unfinished, Told
  <2> QED BY <2>1, <2>2
<1>3. CASE \E x \in Contexts : Completes(x)
  <2>1. PICK x \in Contexts : Completes(x)
    BY <1>3
  <2>2. /\ x \notin dead /\ dead' = dead \cup {x} /\ told' = told
        /\ \A y \in Contexts : y # x => todo'[y] = todo[y]
    BY <1>1, <2>1 DEF Completes
  <2>3. told \in Seq(Contexts) /\ \A i \in DOMAIN told : told[i] \in Contexts
    BY LenProperties, ElementOfSeq DEF TypeOK
  <2>4. ToldInv'
    BY <2>2, <2>3 DEF ToldInv
  <2>5. \A c \in Coroutines : Unfinished(c)' \subseteq Unfinished(c)
    BY <2>2 DEF Unfinished, Told
  <2> QED BY <2>4, <2>5
<1>4. CASE \E x \in Contexts : \E j \in todo[x] : Calling(x, j)
  <2>1. PICK x \in Contexts : \E j \in todo[x] : Calling(x, j)
    BY <1>4
  <2>2. PICK j \in todo[x] : Calling(x, j)
    BY <2>1
  <2>3. /\ dead' = dead /\ todo'[x] = todo[x] \ {j}
        /\ \A y \in Contexts : y # x => todo'[y] = todo[y]
    BY <1>1, <2>2 DEF Calling
  <2>4. CASE j # Watch
    <3>1. told' = told
      BY <2>2, <2>4 DEF Calling
    <3>2. \A y \in Contexts : Watch \in todo'[y] <=> Watch \in todo[y]
      BY <2>3, <2>4
    <3>3. told \in Seq(Contexts) /\ \A i \in DOMAIN told : told[i] \in Contexts
      BY LenProperties, ElementOfSeq DEF TypeOK
    <3>4. ToldInv'
      BY <2>3, <3>1, <3>2, <3>3 DEF ToldInv
    <3>5. \A c \in Coroutines : Unfinished(c)' \subseteq Unfinished(c)
      BY <2>3, <3>1, <3>2 DEF Unfinished, Told
    <3> QED BY <3>4, <3>5
  <2>5. CASE j = Watch
    <3>1. told' = Append(told, x)
      BY <2>2, <2>5 DEF Calling
    <3>2. /\ \A i \in DOMAIN told' :
               \/ i \in DOMAIN told /\ told'[i] = told[i]
               \/ i = Len(told) + 1 /\ told'[i] = x
          /\ Len(told) + 1 \notin DOMAIN told
      BY <3>1, ToldAppends
    <3>3. x \in dead /\ \A i \in DOMAIN told : told[i] # x
      BY <2>5 DEF ToldInv
    <3>4. \A y \in Contexts : Watch \in todo'[y] => Watch \in todo[y] /\ y # x
      BY <2>3, <2>5
    <3>5. told \in Seq(Contexts) /\ \A i \in DOMAIN told : told[i] \in Contexts
      BY LenProperties, ElementOfSeq DEF TypeOK
    <3>6. ToldInv'
      <4>1. \A i, k \in DOMAIN told' : told'[i] = told'[k] => i = k
        BY <3>2, <3>3 DEF ToldInv
      <4>2. \A i \in DOMAIN told' : told'[i] \in dead' /\ Watch \notin todo'[told'[i]]
        BY <2>3, <3>2, <3>3, <3>4, <3>5 DEF ToldInv
      <4>3. \A y \in Contexts : Watch \in todo'[y] => y \in dead'
        BY <2>3, <3>4 DEF ToldInv
      <4> QED BY <4>1, <4>2, <4>3 DEF ToldInv
    <3>7. \A c \in Coroutines : Unfinished(c)' \subseteq Unfinished(c)
      <4>1. \A y \in Contexts : Told(y)' => Told(y) \/ y = x
        BY <3>2 DEF Told
      <4> QED BY <2>3, <2>5, <3>4, <4>1 DEF Unfinished
    <3> QED BY <3>6, <3>7
  <2> QED BY <2>4, <2>5
<1> QED BY <1>2, <1>3, <1>4 DEF SignalsMove

LEMMA LoadCoroutines ==
  ASSUME NoWork, PoolInv, ToldInv, LoadInv, [Next]_vars, UNCHANGED poolVars
  PROVE  ToldInv' /\ LoadInv'
<1>1. TypeInv /\ TypeOK
  BY DEF PoolInv, TypeInv
<1>2. CoQuiet /\ home' = home
  BY <1>1, QuietStep, HomesStay
<1>3. ToldInv' /\ \A c \in Coroutines : Unfinished(c)' \subseteq Unfinished(c)
  BY <1>1, <1>2, SignalsKeep DEF CoQuiet
<1>4. workSize' = workSize /\ Pool' = Pool
  BY DEF poolVars, mapVars, Pool
<1>5. \A c \in Pool : Covered(c)'
  <2>1. SUFFICES ASSUME NEW c \in Pool PROVE Covered(c)'
    OBVIOUS
  <2>2. /\ c \in Coroutines /\ workSize[c].load \in Int
        /\ Cardinality(Unloads(queue[c])) \in Nat
    BY LoadTypes
  <2>3. Cardinality(Unloads(queue'[c])) = Cardinality(Unloads(queue[c])) + 0
    BY <1>1, <1>2, <2>2, UnloadsMove DEF CoQuiet
  <2>4. workSize'[c].load \in Int /\ workSize'[c].load >= workSize[c].load + 0
    BY <1>4, <2>2
  <2> QED BY <1>3, <2>2, <2>3, <2>4, CoverKept
<1>6. Handed' = Handed
  BY <1>2 DEF Handed
<1>7. LoadInv'
  BY <1>2, <1>4, <1>5, <1>6 DEF LoadInv
<1> QED BY <1>3, <1>7

(* Steps of the pool that leave the contexts alone.                        *)
LEMMA LoadSame ==
  ASSUME PoolInv, ToldInv, LoadInv, UNCHANGED <<home, dead, todo, told>>, Pool' = Pool,
         \A c \in Pool : \E more \in Int :
           /\ workSize'[c].load \in Int /\ workSize'[c].load >= workSize[c].load + more
           /\ Cardinality(Unloads(queue'[c])) = Cardinality(Unloads(queue[c])) + more
  PROVE  ToldInv' /\ LoadInv'
<1>1. ToldInv' /\ Handed' = Handed
  BY DEF ToldInv, Handed
<1>2. \A c \in Pool : Unfinished(c)' = Unfinished(c)
  BY DEF Unfinished, Told
<1>3. \A c \in Pool : Covered(c)'
  BY <1>2, CoverKept
<1> QED BY <1>1, <1>3 DEF LoadInv

LEMMA LoadUntouched ==
  ASSUME PoolInv, ToldInv, LoadInv, UNCHANGED <<queue, home, dead, todo, told, workSize>>, Pool' = Pool
  PROVE  ToldInv' /\ LoadInv'
<1>1. \A c \in Pool : \E more \in Int :
        /\ workSize'[c].load \in Int /\ workSize'[c].load >= workSize[c].load + more
        /\ Cardinality(Unloads(queue'[c])) = Cardinality(Unloads(queue[c])) + more
  <2>1. TAKE c \in Pool
  <2>2. workSize[c].load \in Int /\ Cardinality(Unloads(queue[c])) \in Nat
    BY LoadTypes
  <2>3. /\ 0 \in Int /\ workSize'[c].load \in Int
        /\ workSize'[c].load >= workSize[c].load + 0
        /\ Cardinality(Unloads(queue'[c])) = Cardinality(Unloads(queue[c])) + 0
    BY <2>2
  <2> QED BY <2>3
<1> QED BY <1>1, LoadSame

LEMMA LoadFill ==
  ASSUME PoolInv, ToldInv, LoadInv, NEW t \in Threads, NEW c \in Coroutines, FillPool(t, c)
  PROVE  ToldInv' /\ LoadInv'
<1>1. /\ c \notin Pool /\ Pool' = Pool \cup {c}
      /\ workSize'[c].load = 0 /\ \A d \in Pool : workSize'[d] = workSize[d]
  BY FillKeeps
<1>2. UNCHANGED <<queue, home, dead, todo, told>>
  BY DEF FillPool, Create, joinVars
<1>3. ToldInv' /\ Handed' = Handed
  BY <1>2 DEF ToldInv, Handed
<1>4. \A d \in Coroutines : Unfinished(d)' = Unfinished(d)
  BY <1>2 DEF Unfinished, Told
<1>5. \A d \in Pool : Covered(d)'
  BY <1>1, <1>2, <1>4 DEF LoadInv, Covered, Pool
<1>6. Covered(c)'
  <2>1. Unfinished(c) = {}
    BY <1>1, Different DEF Unfinished, LoadInv
  <2>2. Unloads(queue[c]) = {}
    BY <1>1 DEF Unloads, PoolInv, OwedInv, Unloading
  <2>3. Cardinality(Unloads(queue[c])) = 0 /\ Cardinality(Unfinished(c)') = 0
    BY <1>4, <2>1, <2>2, FS_EmptySet
  <2> QED BY <1>1, <1>2, <2>3 DEF Covered
<1> QED BY <1>1, <1>2, <1>3, <1>5, <1>6 DEF LoadInv

LEMMA LoadConnect ==
  ASSUME PoolInv, ToldInv, LoadInv, NEW t \in Threads, ConnectPool(t)
  PROVE  ToldInv' /\ LoadInv'
<1>1. Pool' = Pool /\ UNCHANGED <<home, dead, todo, told, workSize>>
  BY ConnectKeeps DEF ConnectPool, poolVars, mapVars
<1>2. PICK x \in Contexts : x = target[t]
  BY DEF ConnectPool, PoolInv, PoolWork, ThreadWork
<1>3. home[x] \in Coroutines
  BY <1>2 DEF ConnectPool, PoolInv, PoolWork, ThreadWork, Pool
<1>4. PICK f \in Posted : f = Registration(x)
  BY PostedOf DEF Registration
<1>5. f.do # "unload"
  BY <1>4, FieldsOf DEF Registration
<1>6. queue' = [queue EXCEPT ![home[x]] = Append(queue[home[x]], f)]
  BY <1>2, <1>4 DEF ConnectPool, Post, Registration
<1>7. \A c \in Pool : \E more \in Int :
        /\ workSize'[c].load \in Int /\ workSize'[c].load >= workSize[c].load + more
        /\ Cardinality(Unloads(queue'[c])) = Cardinality(Unloads(queue[c])) + more
  <2>1. TAKE c \in Pool
  <2>2. c \in Coroutines /\ workSize[c].load \in Int /\ Cardinality(Unloads(queue[c])) \in Nat
    BY LoadTypes
  <2>3. queue[c] \in Seq(Posted)
    BY <2>2 DEF PoolInv, TypeInv, QueueType
  <2>4. Cardinality(Unloads(Append(queue[c], f))) = Cardinality(Unloads(queue[c])) + 0
    BY <1>5, <2>3, UnloadsAppend
  <2>5. queue'[c] = queue[c] \/ queue'[c] = Append(queue[c], f)
    BY <1>6, <2>2 DEF PoolInv, TypeInv, QueueType
  <2>6. Cardinality(Unloads(queue'[c])) = Cardinality(Unloads(queue[c])) + 0
    <3>1. CASE queue'[c] = queue[c]
      BY <2>2, <3>1
    <3>2. CASE queue'[c] = Append(queue[c], f)
      BY <2>4, <3>2
    <3> QED BY <2>5, <3>1, <3>2
  <2>7. workSize'[c].load \in Int /\ workSize'[c].load >= workSize[c].load + 0 /\ 0 \in Int
    BY <1>1, <2>2
  <2> QED BY <2>6, <2>7
<1> QED BY <1>1, <1>7, LoadSame

LEMMA LoadLoopWork ==
  ASSUME PoolInv, ToldInv, LoadInv, NEW t \in Threads, LoopWork(t)
  PROVE  ToldInv' /\ LoadInv'
<1>1. Pool' = Pool /\ UNCHANGED <<home, dead, todo, told>>
  BY LoopWorkKeeps DEF LoopWork, joinVars
<1>2. CASE poolMap = <<>>
  <2>1. UNCHANGED <<queue, workSize>>
    BY <1>2 DEF LoopWork
  <2> QED BY <1>1, <2>1, LoadUntouched
<1>3. CASE poolMap # <<>>
  <2>1. PICK c \in Pool : c = poolMap[1].co
    BY <1>3, FirstIs
  <2>2. PICK f \in Posted : f = Function("null", Nil, Nil)
    BY PostedOf
  <2>3. PICK g \in Posted : g = Function("unload", Nil, Nil)
    BY PostedOf
  <2>4. f.do = "null" /\ g.do = "unload"
    BY <2>2, <2>3, FieldsOf
  <2>5. queue' = [queue EXCEPT ![c] = queue[c] \o <<f, g>>] /\ Charge(c) /\ round' = round
    BY <1>3, <2>1, <2>2, <2>3 DEF LoopWork
  <2>6. \A d \in Pool : workSize'[d].load = workSize[d].load + IF d = c THEN 1 ELSE 0
    BY <2>5, ChargeMap DEF PoolInv
  <2>7. \A d \in Pool : \E more \in Int :
          /\ workSize'[d].load \in Int /\ workSize'[d].load >= workSize[d].load + more
          /\ Cardinality(Unloads(queue'[d])) = Cardinality(Unloads(queue[d])) + more
    <3>1. TAKE d \in Pool
    <3>2. d \in Coroutines /\ workSize[d].load \in Int /\ Cardinality(Unloads(queue[d])) \in Nat
      BY LoadTypes
    <3>3. queue \in [Coroutines -> Seq(Posted)] /\ QueueType
      BY DEF PoolInv, TypeInv, QueueType
    <3>4. CASE d = c
      <4>1. PICK q \in Seq(Posted) : q = Append(queue[c], f)
        BY <3>2, <3>3, <3>4, AppendProperties
      <4>2. Cardinality(Unloads(q)) = Cardinality(Unloads(queue[c])) + 0
        BY <2>4, <3>2, <3>3, <3>4, <4>1, UnloadsAppend
      <4>3. Cardinality(Unloads(Append(q, g))) = Cardinality(Unloads(q)) + 1
        BY <2>4, UnloadsAppend
      <4>4. queue'[c] = Append(q, g)
        BY <2>5, <3>2, <3>3, <3>4, <4>1, LoopWorkGives
      <4>5. Cardinality(Unloads(queue'[c])) = Cardinality(Unloads(queue[c])) + 1
        BY <3>2, <3>4, <4>2, <4>3, <4>4
      <4>6. workSize'[c].load \in Int /\ workSize'[c].load >= workSize[c].load + 1 /\ 1 \in Int
        BY <2>6, <3>2, <3>4
      <4> QED BY <3>4, <4>5, <4>6
    <3>5. CASE d # c
      <4>1. queue'[d] = queue[d]
        BY <2>5, <3>2, <3>3, <3>5
      <4>2. workSize'[d].load \in Int /\ workSize'[d].load >= workSize[d].load + 0 /\ 0 \in Int
        BY <2>6, <3>2, <3>5
      <4>3. Cardinality(Unloads(queue'[d])) = Cardinality(Unloads(queue[d])) + 0
        BY <3>2, <4>1
      <4> QED BY <4>2, <4>3
    <3> QED BY <3>4, <3>5
  <2> QED BY <1>1, <2>7, LoadSame
<1> QED BY <1>2, <1>3

(* A context more, for the coroutine charged with it.                      *)
LEMMA LoadWork ==
  ASSUME PoolInv, ToldInv, LoadInv, NEW t \in Threads, CoroutineWork(t)
  PROVE  ToldInv' /\ LoadInv'
<1>1. Pool' = Pool /\ UNCHANGED <<dead, todo, told>>
  BY WorkKeeps DEF CoroutineWork, joinVars
<1>2. CASE poolMap = <<>>
  <2>1. UNCHANGED <<queue, home, workSize>>
    BY <1>2 DEF CoroutineWork
  <2> QED BY <1>1, <2>1, LoadUntouched
<1>3. CASE poolMap # <<>>
  <2>1. PICK x \in Contexts : x = target[t]
    BY DEF CoroutineWork, PoolInv, PoolWork, ThreadWork
  <2>2. PICK c \in Pool : c = poolMap[1].co
    BY <1>3, FirstIs
  <2>3. Hand(c, x) /\ Charge(c) /\ round' = round
    BY <1>3, <2>1, <2>2 DEF CoroutineWork
  <2>4. \A d \in Pool : workSize'[d].load = workSize[d].load + IF d = c THEN 1 ELSE 0
    BY <2>3, ChargeMap DEF PoolInv
  <2>5. PICK f \in Posted : f = Function("start", x, Nil)
    BY PostedOf
  <2>6. f.do # "unload"
    BY <2>5, FieldsOf
  <2>7. home[x] = Nil /\ home' = [home EXCEPT ![x] = c] /\ Post(c, f)
    BY <2>3, <2>5 DEF Hand
  <2>8. queue' = [queue EXCEPT ![c] = Append(queue[c], f)]
    BY <2>7 DEF Post
  <2>9. home'[x] = c /\ \A y \in Contexts : y # x => home'[y] = home[y]
    BY <2>7 DEF PoolInv, TypeInv, TypeOK
  <2>10. c # Nil
    BY Different DEF Pool
  <2>11. ToldInv'
    BY <1>1 DEF ToldInv
  <2>12. IsFiniteSet(Handed')
    <3>1. IsFiniteSet(Handed \cup {x})
      BY FS_AddElement DEF LoadInv
    <3>2. Handed' \in SUBSET (Handed \cup {x})
      BY <2>9 DEF Handed
    <3> QED BY <3>1, <3>2, FS_Subset
  <2>13. \A y \in Contexts : home'[y] # Nil => home'[y] \in Pool'
    BY <1>1, <2>9 DEF LoadInv
  <2>14. ASSUME NEW d \in Pool
         PROVE  Cardinality(Unloads(queue'[d])) = Cardinality(Unloads(queue[d])) + 0
    <3>1. d \in Coroutines /\ Cardinality(Unloads(queue[d])) \in Nat
      BY LoadTypes
    <3>2. queue \in [Coroutines -> Seq(Posted)]
      BY DEF PoolInv, TypeInv, QueueType
    <3>3. Cardinality(Unloads(Append(queue[d], f))) = Cardinality(Unloads(queue[d])) + 0
      BY <2>6, <3>1, <3>2, UnloadsAppend
    <3>4. queue'[d] = queue[d] \/ queue'[d] = Append(queue[d], f)
      BY <2>8, <3>1, <3>2
    <3>5. CASE queue'[d] = queue[d]
      BY <3>1, <3>5
    <3>6. CASE queue'[d] = Append(queue[d], f)
      BY <3>3, <3>6
    <3> QED BY <3>4, <3>5, <3>6
  <2>15. ASSUME NEW d \in Pool, d # c
         PROVE  Covered(d)'
    <3>1. workSize[d].load \in Int
      BY LoadTypes
    <3>2. workSize'[d].load \in Int /\ workSize'[d].load >= workSize[d].load + 0 /\ 0 \in Int
      BY <2>4, <2>15, <3>1
    <3>3. Unfinished(d)' \subseteq Unfinished(d)
      BY <1>1, <2>9, <2>15 DEF Unfinished, Told
    <3> QED BY <2>14, <3>2, <3>3, CoverKept
  <2>16. Covered(c)'
    <3>1. /\ workSize[c].load \in Int
          /\ Cardinality(Unloads(queue[c])) \in Nat
          /\ IsFiniteSet(Unfinished(c)) /\ Cardinality(Unfinished(c)) \in Nat
      BY LoadTypes
    <3>2. PICK U : U = Unfinished(c)'
      OBVIOUS
    <3>3. U \in SUBSET (Unfinished(c) \cup {x})
      BY <1>1, <2>9, <3>2 DEF Unfinished, Told
    <3>4. /\ IsFiniteSet(Unfinished(c) \cup {x})
          /\ \/ Cardinality(Unfinished(c) \cup {x}) = Cardinality(Unfinished(c))
             \/ Cardinality(Unfinished(c) \cup {x}) = Cardinality(Unfinished(c)) + 1
      BY <3>1, FS_AddElement
    <3>5. IsFiniteSet(U) /\ Cardinality(U) <= Cardinality(Unfinished(c) \cup {x})
      BY <3>3, <3>4, FS_Subset
    <3>6. Cardinality(U) \in Nat
      BY <3>5, FS_CardinalityType
    <3>7. workSize[c].load >= Cardinality(Unloads(queue[c])) + Cardinality(Unfinished(c))
      BY DEF LoadInv, Covered
    <3>8. workSize'[c].load = workSize[c].load + 1
      BY <2>4
    <3>9. Cardinality(Unloads(queue'[c])) = Cardinality(Unloads(queue[c])) + 0
      BY <2>14
    <3>10. workSize'[c].load >= Cardinality(Unloads(queue'[c])) + Cardinality(U)
      BY <3>1, <3>4, <3>5, <3>6, <3>7, <3>8, <3>9
    <3> QED BY <3>2, <3>10 DEF Covered
  <2>17. \A d \in Pool' : Covered(d)'
    BY <1>1, <2>15, <2>16
  <2> QED BY <2>11, <2>12, <2>13, <2>17 DEF LoadInv
<1> QED BY <1>2, <1>3

(* A function after loopWork's has discharged its coroutine.               *)
LEMMA LoadUnload ==
  ASSUME PoolInv, ToldInv, LoadInv, NEW c \in Coroutines, RunUnload(c)
  PROVE  ToldInv' /\ LoadInv'
<1>1. c \in Pool /\ Pool' = Pool /\ UNCHANGED <<home, dead, todo, told, round>>
  BY UnloadKeeps DEF RunUnload, joinVars
<1>2. /\ queue \in [Coroutines -> Seq(Posted)]
      /\ queue[c] # <<>> /\ Head(queue[c]).do = "unload"
      /\ queue' = [queue EXCEPT ![c] = Tail(queue[c])] /\ Discharge(c)
  BY DEF RunUnload, PoolInv, TypeInv, QueueType
<1>3. \/ \A d \in Pool : workSize'[d].load = workSize[d].load - IF d = c THEN 1 ELSE 0
      \/ workSize' = workSize
  BY <1>1, <1>2, DischargeMap DEF PoolInv
<1>4. \A d \in Pool : \E more \in Int :
        /\ workSize'[d].load \in Int /\ workSize'[d].load >= workSize[d].load + more
        /\ Cardinality(Unloads(queue'[d])) = Cardinality(Unloads(queue[d])) + more
  <2>1. TAKE d \in Pool
  <2>2. d \in Coroutines /\ workSize[d].load \in Int /\ Cardinality(Unloads(queue[d])) \in Nat
    BY LoadTypes
  <2>3. CASE d = c
    <3>1. Cardinality(Unloads(Tail(queue[c]))) = Cardinality(Unloads(queue[c])) - 1
      BY <1>2, UnloadsTail
    <3>2. queue'[c] = Tail(queue[c])
      BY <1>2
    <3>3. Cardinality(Unloads(queue'[c])) = Cardinality(Unloads(queue[c])) + (-1)
      BY <2>2, <2>3, <3>1, <3>2
    <3>4. workSize'[c].load = workSize[c].load - 1 \/ workSize'[c].load = workSize[c].load
      BY <1>1, <1>3
    <3>5. workSize'[c].load \in Int /\ workSize'[c].load >= workSize[c].load + (-1) /\ -1 \in Int
      BY <2>2, <2>3, <3>4
    <3> QED BY <2>3, <3>3, <3>5
  <2>4. CASE d # c
    <3>1. queue'[d] = queue[d]
      BY <1>2, <2>2, <2>4
    <3>2. workSize'[d].load = workSize[d].load - 0 \/ workSize'[d].load = workSize[d].load
      BY <1>3, <2>4
    <3>3. workSize'[d].load \in Int /\ workSize'[d].load >= workSize[d].load + 0 /\ 0 \in Int
      BY <2>2, <3>2
    <3>4. Cardinality(Unloads(queue'[d])) = Cardinality(Unloads(queue[d])) + 0
      BY <2>2, <3>1
    <3> QED BY <3>3, <3>4
  <2> QED BY <2>3, <2>4
<1> QED BY <1>1, <1>4, LoadSame

(* The default loop was told of the end of a context.                      *)
LEMMA LoadDefault ==
  ASSUME PoolInv, ToldInv, LoadInv, DefaultLoop
  PROVE  ToldInv' /\ LoadInv'
<1>1. /\ home[Head(told)] \in Pool /\ Pool' = Pool
      /\ UNCHANGED <<queue, home, dead, todo, round>>
  BY DefaultKeeps DEF DefaultLoop, joinVars
<1>2. told # <<>> /\ told \in Seq(Contexts) /\ told' = Tail(told)
  BY DEF DefaultLoop, PoolInv, TypeInv, TypeOK
<1>3. /\ Head(told) \in Contexts /\ 1 \in DOMAIN told /\ Head(told) = told[1]
      /\ \A j \in DOMAIN Tail(told) :
           /\ j \in Nat /\ j # 0 /\ j + 1 \in DOMAIN told /\ Tail(told)[j] = told[j + 1]
  BY <1>2, HeadTailProperties, LenProperties, EmptySeq
<1>4. PICK h \in Contexts : h = Head(told)
  BY <1>3
<1>5. PICK c \in Pool : c = home[h]
  BY <1>1, <1>4
<1>6. ToldInv'
  <2>1. \A i, j \in DOMAIN told' : told'[i] = told'[j] => i = j
    <3>1. TAKE i, j \in DOMAIN told'
    <3>2. HAVE told'[i] = told'[j]
    <3>3. i \in DOMAIN Tail(told) /\ j \in DOMAIN Tail(told)
      BY <1>2, <3>1
    <3>4. i \in Nat /\ j \in Nat /\ told[i + 1] = told[j + 1] /\ i + 1 \in DOMAIN told /\ j + 1 \in DOMAIN told
      BY <1>2, <1>3, <3>2, <3>3
    <3>5. i + 1 = j + 1
      BY <3>4 DEF ToldInv
    <3> QED BY <3>4, <3>5
  <2>2. \A i \in DOMAIN told' : told'[i] \in dead' /\ Watch \notin todo'[told'[i]]
    BY <1>1, <1>2, <1>3 DEF ToldInv
  <2>3. \A x \in Contexts : Watch \in todo'[x] => x \in dead'
    BY <1>1 DEF ToldInv
  <2> QED BY <2>1, <2>2, <2>3 DEF ToldInv
<1>7. \A x \in Contexts : Told(x)' => Told(x) /\ x # h
  <2>1. ASSUME NEW i \in DOMAIN told' PROVE told'[i] # h /\ \E j \in DOMAIN told : told[j] = told'[i]
    <3>1. i \in Nat /\ i # 0 /\ i + 1 \in DOMAIN told /\ told'[i] = told[i + 1]
      BY <1>2, <1>3, <2>1
    <3>2. i + 1 # 1
      BY <3>1
    <3>3. told[i + 1] # told[1]
      BY <1>3, <3>1, <3>2 DEF ToldInv
    <3> QED BY <1>3, <1>4, <3>1, <3>3
  <2> QED BY <2>1 DEF Told
<1>8. h \in dead /\ Watch \notin todo[h] /\ Told(h)
  BY <1>3, <1>4 DEF ToldInv, Told
<1>9. \A d \in Coroutines : Unfinished(d)' \subseteq Unfinished(d) \ {h}
  BY <1>1, <1>7, <1>8 DEF Unfinished
<1>10. Handed' = Handed
  BY <1>1 DEF Handed
<1>11. Discharge(c)
  BY <1>4, <1>5 DEF DefaultLoop
<1>12. \/ \A d \in Pool : workSize'[d].load = workSize[d].load - IF d = c THEN 1 ELSE 0
       \/ workSize' = workSize
  BY <1>1, <1>11, DischargeMap DEF PoolInv
<1>13. ASSUME NEW d \in Pool, d # c \/ workSize' = workSize
       PROVE  Covered(d)'
  <2>1. d \in Coroutines /\ workSize[d].load \in Int /\ Cardinality(Unloads(queue[d])) \in Nat
    BY LoadTypes
  <2>2. workSize'[d].load = workSize[d].load - 0 \/ workSize'[d].load = workSize[d].load
    BY <1>12, <1>13
  <2>3. workSize'[d].load \in Int /\ workSize'[d].load >= workSize[d].load + 0 /\ 0 \in Int
    BY <2>1, <2>2
  <2>4. Cardinality(Unloads(queue'[d])) = Cardinality(Unloads(queue[d])) + 0
    BY <1>1, <2>1
  <2>5. Unfinished(d)' \subseteq Unfinished(d)
    BY <1>9, <2>1
  <2> QED BY <2>3, <2>4, <2>5, CoverKept
<1>14. ASSUME \A d \in Pool : workSize'[d].load = workSize[d].load - IF d = c THEN 1 ELSE 0
       PROVE  Covered(c)'
  <2>1. /\ c \in Coroutines /\ workSize[c].load \in Int
        /\ Cardinality(Unloads(queue[c])) \in Nat
        /\ IsFiniteSet(Unfinished(c)) /\ Cardinality(Unfinished(c)) \in Nat
    BY LoadTypes
  <2>2. h \in Unfinished(c)
    BY <1>5, <1>8 DEF Unfinished
  <2>3. PICK S : S = Unfinished(c) \ {h}
    OBVIOUS
  <2>4. IsFiniteSet(S) /\ Cardinality(S) = Cardinality(Unfinished(c)) - 1
    BY <2>1, <2>2, <2>3, FS_RemoveElement
  <2>5. PICK U : U = Unfinished(c)'
    OBVIOUS
  <2>6. U \in SUBSET S
    BY <1>9, <2>1, <2>3, <2>5
  <2>7. IsFiniteSet(U) /\ Cardinality(U) <= Cardinality(S)
    BY <2>4, <2>6, FS_Subset
  <2>8. Cardinality(U) \in Nat
    BY <2>7, FS_CardinalityType
  <2>9. workSize[c].load >= Cardinality(Unloads(queue[c])) + Cardinality(Unfinished(c))
    BY DEF LoadInv, Covered
  <2>10. workSize'[c].load = workSize[c].load - 1 /\ queue' = queue
    BY <1>1, <1>14
  <2>11. workSize'[c].load >= Cardinality(Unloads(queue'[c])) + Cardinality(U)
    BY <2>1, <2>4, <2>7, <2>8, <2>9, <2>10
  <2> QED BY <2>5, <2>11 DEF Covered
<1>15. \A d \in Pool : Covered(d)'
  BY <1>12, <1>13, <1>14
<1>16. LoadInv'
  BY <1>1, <1>10, <1>15 DEF LoadInv
<1> QED BY <1>6, <1>16

LEMMA LoadStep ==
  ASSUME NoWork, PoolInv, ToldInv, LoadInv, [PoolNext]_allVars
  PROVE  ToldInv' /\ LoadInv'
<1>1. CASE UNCHANGED allVars \/ (Next /\ UNCHANGED poolVars)
  BY <1>1, LoadCoroutines DEF allVars
<1>2. CASE \E t \in Threads : TakePool(t) \/ LeavePool(t)
  <2>1. Pool' = Pool
    BY <1>2, TakePoolKeeps, LeaveKeeps
  <2>2. UNCHANGED <<queue, home, dead, todo, told, workSize>>
    BY <1>2 DEF TakePool, LeavePool, joinVars, poolVars, mapVars
  <2> QED BY <2>1, <2>2, LoadUntouched
<1>3. CASE \E t \in Threads : CoroutineWork(t) \/ ConnectPool(t) \/ LoopWork(t)
  BY <1>3, LoadWork, LoadConnect, LoadLoopWork
<1>4. CASE \E t \in Threads : \E c \in Coroutines : FillPool(t, c)
  BY <1>4, LoadFill
<1>5. CASE \E t \in Threads : \E x \in Contexts \cup {Nil} : EnterPool(t, x)
  <2>1. Pool' = Pool
    BY <1>5, EnterKeeps
  <2>2. UNCHANGED <<queue, home, dead, todo, told, workSize>>
    BY <1>5 DEF EnterPool, mapVars
  <2> QED BY <2>1, <2>2, LoadUntouched
<1>6. CASE \E t \in Threads : \E n \in 0 .. MaxSize : SetPoolSize(t, n)
  <2>1. 0 .. MaxSize \subseteq Nat
    BY PoolAssumption
  <2>2. Pool' = Pool
    BY <1>6, <2>1, SetSizeKeeps
  <2>3. UNCHANGED <<queue, home, dead, todo, told, workSize>>
    BY <1>6 DEF SetPoolSize, mapVars, joinVars
  <2> QED BY <2>2, <2>3, LoadUntouched
<1>7. CASE (\E c \in Coroutines : RunUnload(c)) \/ DefaultLoop
  BY <1>7, LoadUnload, LoadDefault
<1> QED BY <1>1, <1>2, <1>3, <1>4, <1>5, <1>6, <1>7 DEF PoolNext, PoolThreadStep

LEMMA LoadInitially ==
  ASSUME PoolInit PROVE ToldInv /\ LoadInv
<1>1. /\ told = <<>> /\ home = [x \in Contexts |-> Nil] /\ todo = [x \in Contexts |-> {}]
  BY DEF PoolInit, Init
<1>2. DOMAIN told = {} /\ Pool = {} /\ Handed = {}
  BY <1>1, PoolInitially DEF Handed
<1>3. IsFiniteSet(Handed)
  BY <1>2, FS_EmptySet
<1> QED BY <1>1, <1>2, <1>3 DEF ToldInv, LoadInv

(* A completion discharges a coroutine once at most, and for a charge: the *)
(* load of a coroutine is never below the number of its contexts of the    *)
(* pool that have not completed, as long as contexts come to coroutines    *)
(* through the pool (coroutine_pool.cc:97, :117).                          *)
THEOREM LoadsCoverWork ==
  ASSUME NoWork
  PROVE  PoolSpec => []LoadCoversWork
<1>1. PoolInit => PoolInv /\ ToldInv /\ LoadInv
  BY PoolInitially, LoadInitially
<1>2. PoolInv /\ ToldInv /\ LoadInv /\ [PoolNext]_allVars => PoolInv' /\ ToldInv' /\ LoadInv'
  BY PoolStep, LoadStep
<1>3. PoolInv /\ LoadInv => LoadCoversWork
  <2>1. SUFFICES ASSUME PoolInv, LoadInv, NEW c \in Pool
                 PROVE  workSize[c].load >= Cardinality({x \in Contexts : home[x] = c /\ x \notin dead})
    BY DEF LoadCoversWork
  <2>2. /\ workSize[c].load \in Int
        /\ Cardinality(Unloads(queue[c])) \in Nat
        /\ IsFiniteSet(Unfinished(c)) /\ Cardinality(Unfinished(c)) \in Nat
    BY <2>1, LoadTypes
  <2>3. PICK W : W = {x \in Contexts : home[x] = c /\ x \notin dead}
    OBVIOUS
  <2>4. W \in SUBSET Unfinished(c)
    BY <2>3 DEF Unfinished
  <2>5. IsFiniteSet(W) /\ Cardinality(W) <= Cardinality(Unfinished(c))
    BY <2>2, <2>4, FS_Subset
  <2>6. Cardinality(W) \in Nat
    BY <2>5, FS_CardinalityType
  <2>7. workSize[c].load >= Cardinality(Unloads(queue[c])) + Cardinality(Unfinished(c))
    BY <2>1 DEF LoadInv, Covered
  <2>8. workSize[c].load >= Cardinality(W)
    BY <2>2, <2>5, <2>6, <2>7
  <2> QED BY <2>3, <2>8
<1> QED BY <1>1, <1>2, <1>3, PTL DEF PoolSpec
=============================================================================
