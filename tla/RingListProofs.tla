--------------------------- MODULE RingListProofs ---------------------------
(***************************************************************************)
(* Proofs about ring_list, for any size of a chunk and any number of       *)
(* pushes: types (RingTypeCorrect), that the writer and the reader never   *)
(* touch one field of a node at once (RingRaceFree), that the nodes stay   *)
(* one ring (RingStaysOne), and that the ring implements a FIFO queue      *)
(* (RingIsFifo).                                                           *)
(*                                                                         *)
(* RingInv carries all of them.  It says that there is an order of the     *)
(* nodes, starting with the reader's, in which each links to the next and  *)
(* the last to the first, and that in this order the writer's node is as   *)
(* far from the reader's as items are held.                                *)
(*                                                                         *)
(* The library's induction theorems cannot be used here, so what is needed *)
(* of induction comes from counting: a set of numbers that is closed       *)
(* downwards has as many elements as its largest one says (Inductive).     *)
(***************************************************************************)
EXTENDS RingList, SequenceTheorems, FiniteSetTheorems, TLAPS

-----------------------------------------------------------------------------
(* Numbers up to n that contain 0 and, with each, the next, are all.       *)
LEMMA Inductive ==
  ASSUME NEW n \in Nat, NEW G \in SUBSET (0 .. n), 0 \in G,
         \A i \in 0 .. n : i \in G /\ i + 1 \in 0 .. n => i + 1 \in G
  PROVE  G = 0 .. n
<1> DEFINE D == {m \in 1 .. n : \A i \in 0 .. m : i \in G}
           k == Cardinality(D)
<1>1. IsFiniteSet(1 .. n) /\ D \in SUBSET (1 .. n)
  BY FS_Interval
<1>2. IsFiniteSet(D) /\ k \in Nat
  BY <1>1, FS_Subset, FS_CardinalityType
<1>3. \A m \in D : m <= k
  <2>1. TAKE m \in D
  <2>2. m \in 1 .. n /\ 1 .. m \subseteq D
    <3>1. m \in 1 .. n /\ \A i \in 0 .. m : i \in G
      BY <2>1
    <3>2. ASSUME NEW j \in 1 .. m PROVE j \in D
      <4>1. j \in 1 .. n /\ \A i \in 0 .. j : i \in 0 .. m
        BY <3>1
      <4> QED BY <3>1, <4>1
    <3> QED BY <3>1, <3>2
  <2>3. Cardinality(1 .. m) = m
    BY <2>2, FS_Interval
  <2>4. Cardinality(1 .. m) <= k
    BY <1>2, <2>2, FS_Subset
  <2> QED BY <2>3, <2>4
<1>4. D = 1 .. k
  <2>1. D \subseteq 1 .. k
    <3> HIDE DEF k
    <3>1. ASSUME NEW m \in D PROVE m \in 1 .. k
      <4>1. m \in 1 .. n /\ m <= k
        BY <1>3, <3>1
      <4> QED BY <1>2, <4>1
    <3> QED BY <3>1
  <2>2. IsFiniteSet(1 .. k) /\ Cardinality(1 .. k) = k
    <3> HIDE DEF k
    <3> QED BY <1>2, FS_Interval
  <2> QED BY <2>1, <2>2, FS_Subset
<1> HIDE DEF k
<1>5. CASE k = n
  <2>1. CASE n = 0
    <3>1. \A i \in 0 .. n : i = 0
      BY <2>1
    <3>2. 0 .. n \subseteq G
      BY <3>1
    <3> QED BY <3>2
  <2>2. CASE n # 0
    <3>1. n \in D
      BY <1>4, <1>5, <2>2
    <3> QED BY <3>1
  <2> QED BY <2>1, <2>2
<1>6. CASE k # n
  <2>1. k \in 0 .. n /\ k + 1 \in 1 .. n
    <3>1. k = 0 \/ k \in D
      BY <1>2, <1>4
    <3> QED BY <1>2, <1>6, <3>1
  <2>2. \A i \in 0 .. k : i \in G
    <3>1. CASE k = 0
      BY <3>1
    <3>2. CASE k # 0
      <4>1. k \in D
        BY <1>2, <1>4, <3>2
      <4> QED BY <4>1
    <3> QED BY <3>1, <3>2
  <2>3. k + 1 \in G
    BY <2>1, <2>2
  <2>4. \A i \in 0 .. k + 1 : i \in 0 .. k \/ i = k + 1
    BY <2>1
  <2>5. k + 1 \in D
    BY <2>1, <2>2, <2>3, <2>4
  <2>6. k + 1 \notin 1 .. k
    BY <1>2
  <2> QED BY <1>4, <2>5, <2>6
<1> QED BY <1>5, <1>6

(* The walk along the links is the one that g lists.                       *)
LEMMA WalkIs ==
  ASSUME NEW k \in Nat, NEW g,
         \A i \in 1 .. k : g[i] = next[g[i - 1]]
  PROVE  After(g[0], k) = g[k]
<1> DEFINE R(f) == f = [i \in 0 .. k |-> IF i = 0 THEN g[0] ELSE next[f[i - 1]]]
           walk == CHOOSE f : R(f)
<1>1. R([i \in 0 .. k |-> g[i]])
  <2> DEFINE f == [i \in 0 .. k |-> g[i]]
  <2>1. \A i \in 0 .. k : f[i] = IF i = 0 THEN g[0] ELSE next[f[i - 1]]
    <3>1. TAKE i \in 0 .. k
    <3>2. CASE i = 0
      BY <3>2
    <3>3. CASE i # 0
      <4>1. i \in 1 .. k /\ i - 1 \in 0 .. k
        BY <3>3
      <4> QED BY <3>3, <4>1
    <3> QED BY <3>2, <3>3
  <2> QED BY <2>1
<1>2. R(walk)
  BY <1>1
<1>3. After(g[0], k) = walk[k]
  BY DEF After
<1> HIDE DEF walk
<1> DEFINE G == {i \in 0 .. k : walk[i] = g[i]}
<1>4. 0 \in G
  BY <1>2
<1>5. \A i \in 0 .. k : i \in G /\ i + 1 \in 0 .. k => i + 1 \in G
  <2>1. TAKE i \in 0 .. k
  <2>2. HAVE i \in G /\ i + 1 \in 0 .. k
  <2>3. walk[i + 1] = next[walk[i]]
    <3>1. walk[i + 1] = IF i + 1 = 0 THEN g[0] ELSE next[walk[i + 1 - 1]]
      BY <1>2, <2>2
    <3>2. i + 1 # 0 /\ i + 1 - 1 = i
      BY <2>1
    <3> QED BY <3>1, <3>2
  <2>4. g[i + 1] = next[g[i]]
    <3>1. i + 1 \in 1 .. k /\ i + 1 - 1 = i
      BY <2>1, <2>2
    <3> QED BY <3>1
  <2> QED BY <2>2, <2>3, <2>4
<1>6. G = 0 .. k
  <2>1. G \in SUBSET (0 .. k)
    OBVIOUS
  <2> HIDE DEF G
  <2> QED BY <1>4, <1>5, <2>1, Inductive
<1>7. k \in 0 .. k
  OBVIOUS
<1> QED BY <1>3, <1>6, <1>7
-----------------------------------------------------------------------------
(* The invariant.                                                          *)

(* The nodes that have links: while a chunk is being added, its nodes too. *)
Linked == 0 .. (IF writer = "splice" THEN size + Chunk ELSE size) - 1

Types ==
  /\ size \in Nat /\ size >= Chunk
  /\ item \in [Linked -> Values \cup {Nothing}]
  /\ next \in [Linked -> Linked]
  /\ available \in Nat
  /\ writer \in {"idle", "chain", "splice", "write", "step", "count"}
  /\ reader \in {"idle", "take", "step", "uncount"}
  /\ pushes \in 0 .. MaxPushes
  /\ out \in Values \cup {Nothing}

(* One node is always free, for the writer to go to.                       *)
Counts ==
  /\ available <= size - 1
  /\ writer \in {"write", "step", "count"} => available <= size - 2
  /\ reader # "idle" => available >= 1
  /\ writer # "idle" => pushes >= 1

(* The chunk that is being added leads to the node after the writer's.     *)
NewChunk ==
  writer = "splice" =>
    /\ \A n \in size .. size + Chunk - 2 : next[n] = n + 1
    /\ next[size + Chunk - 1] = next[itemWrite]

(* How far the writer's node is from the reader's.                         *)
Held ==
  (IF writer = "count" THEN available + 1 ELSE available)
    - (IF reader = "uncount" THEN 1 ELSE 0)

Succ(i) == IF i = size - 1 THEN 0 ELSE i + 1

(* g is the ring, from the reader's node on.                               *)
Ring(g) ==
  /\ g \in [Nodes -> Nodes]
  /\ \A i, j \in Nodes : g[i] = g[j] => i = j
  /\ \A n \in Nodes : \E i \in Nodes : g[i] = n
  /\ \A i \in Nodes : next[g[i]] = g[Succ(i)]
  /\ itemRead = g[0] /\ itemWrite = g[Held]

(* The value of a push is in its node before it is counted.                *)
Written(g) ==
  /\ writer = "step" => item[itemWrite] = pushes
  /\ writer = "count" => item[g[Held - 1]] = pushes

RingInv ==
  /\ Types /\ Counts /\ NewChunk
  /\ \E g : Ring(g) /\ Written(g)

LEMMA HeldBounds ==
  ASSUME RingAssumption, Types, Counts
  PROVE  /\ Chunk \in Nat /\ Chunk > 1 /\ size \in Nat /\ size > 1
         /\ Held \in Nodes /\ 0 \in Nodes /\ Nodes \subseteq Linked
         /\ available \in Nat
         /\ \A i \in Nodes : Succ(i) \in Nodes
         /\ reader \in {"take", "step"} => Held >= 1
         /\ writer \in {"write", "step"} => Held <= size - 2
         /\ writer = "count" => Held >= 1 /\ (reader = "take" => Held >= 2)
<1>1. Chunk \in Nat /\ Chunk > 1 /\ size \in Nat /\ size > 1 /\ available \in Nat
  BY DEF RingAssumption, Types
<1>2. Nodes \subseteq Linked /\ 0 \in Nodes
  BY <1>1 DEF Nodes, Linked
<1>3. Held \in Nodes
  BY <1>1 DEF Held, Nodes, Counts, Types
<1>4. \A i \in Nodes : Succ(i) \in Nodes
  BY <1>1 DEF Succ, Nodes
<1>5. reader \in {"take", "step"} => Held >= 1
  BY <1>1 DEF Held, Counts
<1>6. writer \in {"write", "step"} => Held <= size - 2
  BY <1>1 DEF Held, Counts
<1>7. writer = "count" => Held >= 1 /\ (reader = "take" => Held >= 2)
  BY <1>1 DEF Held, Counts
<1> QED BY <1>1, <1>2, <1>3, <1>4, <1>5, <1>6, <1>7

(* What the invariant says without the order.                              *)
LEMMA RingGives ==
  ASSUME RingAssumption, RingInv
  PROVE  TypeOK /\ RaceFree
<1>1. PICK g : Ring(g)
  BY DEF RingInv
<1>2. Types /\ Counts
  BY DEF RingInv
<1>3. itemRead \in Nodes /\ itemWrite \in Nodes
  BY <1>1, <1>2, HeldBounds DEF Ring
<1>4. TypeOK
  BY <1>2, <1>3 DEF Types, TypeOK
<1>5. RaceFree
  <2>1. itemRead = itemWrite => Held = 0
    BY <1>1, <1>2, HeldBounds DEF Ring
  <2>2. reader \in {"take", "step"} => Held # 0
    BY <1>2, HeldBounds
  <2> QED BY <2>1, <2>2 DEF RaceFree
<1> QED BY <1>4, <1>5

LEMMA RingInit == ASSUME RingAssumption, Init PROVE RingInv
<1>1. Chunk \in Nat /\ Chunk > 1 /\ MaxPushes \in Nat
  BY DEF RingAssumption
<1>2. /\ size = Chunk /\ writer = "idle" /\ reader = "idle" /\ available = 0
      /\ itemRead = 0 /\ itemWrite = 0 /\ pushes = 0 /\ out = Nothing
      /\ Nodes = 0 .. Chunk - 1 /\ Linked = 0 .. Chunk - 1
  BY DEF Init, Nodes, Linked
<1>3. item \in [Linked -> Values \cup {Nothing}]
  BY <1>1, <1>2 DEF Init, FreshItems
<1>4. /\ DOMAIN next = 0 .. Chunk - 1
      /\ \A i \in 0 .. Chunk - 1 : next[i] = IF i = Chunk - 1 THEN 0 ELSE i + 1
  <2>1. next = Over(Chained(0), [k \in {Chunk - 1} |-> 0])
    BY DEF Init
  <2>2. /\ DOMAIN Chained(0) = 0 .. Chunk - 2
        /\ \A i \in 0 .. Chunk - 2 : Chained(0)[i] = i + 1
    BY <1>1 DEF Chained
  <2>3. DOMAIN Chained(0) \cup {Chunk - 1} = 0 .. Chunk - 1
    BY <1>1, <2>2
  <2>4. \A i \in 0 .. Chunk - 1 : i # Chunk - 1 => i \in 0 .. Chunk - 2
    BY <1>1
  <2> QED BY <1>1, <2>1, <2>2, <2>3, <2>4 DEF Over
<1>5. next \in [Linked -> Linked]
  <2>1. \A i \in 0 .. Chunk - 1 : next[i] \in 0 .. Chunk - 1
    BY <1>1, <1>4
  <2>2. next = [i \in 0 .. Chunk - 1 |-> next[i]]
    BY <1>4 DEF Init, Over
  <2> QED BY <1>2, <2>1, <2>2
<1>6. Types /\ Counts /\ NewChunk
  BY <1>1, <1>2, <1>3, <1>5 DEF Types, Counts, NewChunk
<1>7. Ring([i \in Nodes |-> i]) /\ Written([i \in Nodes |-> i])
  <2> DEFINE g == [i \in Nodes |-> i]
  <2>1. Held = 0 /\ 0 \in Nodes
    BY <1>1, <1>2 DEF Held
  <2>2. \A i \in Nodes : g[i] = i /\ Succ(i) \in Nodes /\ next[i] = Succ(i)
    BY <1>1, <1>2, <1>4 DEF Succ
  <2>3. g \in [Nodes -> Nodes]
    OBVIOUS
  <2> HIDE DEF g
  <2>4. Ring(g)
    BY <1>2, <2>1, <2>2, <2>3 DEF Ring
  <2>5. Written(g)
    BY <1>2 DEF Written
  <2> QED BY <2>4, <2>5 DEF g
<1> QED BY <1>6, <1>7 DEF RingInv

-----------------------------------------------------------------------------
(* The queue, as the order of the nodes gives it.                          *)

Taken == IF reader \in {"step", "uncount"} THEN 1 ELSE 0
Offset == IF reader = "step" THEN 1 ELSE 0
Listed(g) == [i \in 1 .. available - Taken |-> item[g[Offset + i - 1]]]

(* Where the counted items end.                                            *)
Top == IF writer = "count" THEN Held - 1 ELSE Held

LEMMA Positions ==
  ASSUME RingAssumption, Types, Counts
  PROVE  /\ available - Taken \in Nat /\ Offset \in {0, 1}
         /\ Offset + (available - Taken) = Top /\ Top \in Nodes
         /\ \A i \in 1 .. available - Taken :
              Offset + i - 1 \in Nodes /\ Offset + i - 1 < Top
<1>1. available \in Nat /\ size \in Nat /\ size > 1
  BY HeldBounds
<1>2. available - Taken \in Nat /\ Offset \in {0, 1}
  BY <1>1 DEF Taken, Offset, Counts
<1>3. Offset + (available - Taken) = Top
  BY <1>1 DEF Offset, Taken, Top, Held
<1>4. Top \in Nodes
  BY <1>1, HeldBounds DEF Top, Nodes
<1>5. \A i \in 1 .. available - Taken : Offset + i - 1 < Top /\ Offset + i - 1 >= 0
  BY <1>1, <1>2, <1>3
<1>6. \A i \in 1 .. available - Taken : Offset + i - 1 \in Nodes
  BY <1>1, <1>2, <1>3, <1>4, <1>5 DEF Nodes
<1> QED BY <1>2, <1>3, <1>4, <1>5, <1>6

LEMMA ListedType ==
  ASSUME RingAssumption, Types, Counts, NEW g, Ring(g)
  PROVE  Listed(g) \in [1 .. available - Taken -> Values \cup {Nothing}]
<1>1. \A i \in 1 .. available - Taken : g[Offset + i - 1] \in Linked
  BY Positions, HeldBounds DEF Ring
<1> QED BY <1>1 DEF Listed, Types

(* The links walk through the order of the nodes, from any of them.        *)
LEMMA WalkAlong ==
  ASSUME RingAssumption, Types, Counts, NEW g, Ring(g),
         NEW p \in Nodes, NEW k \in Nat, p + k <= size - 1
  PROVE  After(g[p], k) = g[p + k]
<1> DEFINE h == [i \in 0 .. k |-> g[p + i]]
<1>1. size \in Nat /\ p \in Nat
  BY DEF Types, Nodes
<1>2. \A i \in 1 .. k : h[i] = next[h[i - 1]]
  <2>1. TAKE i \in 1 .. k
  <2>2. p + i - 1 \in Nodes /\ Succ(p + i - 1) = p + i /\ p + (i - 1) = p + i - 1
    BY <1>1 DEF Nodes, Succ
  <2>3. next[g[p + i - 1]] = g[p + i]
    BY <2>2 DEF Ring
  <2>4. i \in 0 .. k /\ i - 1 \in 0 .. k
    OBVIOUS
  <2> QED BY <2>2, <2>3, <2>4
<1>3. h[0] = g[p] /\ h[k] = g[p + k]
  <2>1. 0 \in 0 .. k /\ k \in 0 .. k /\ p + 0 = p
    BY <1>1
  <2> QED BY <2>1
<1> HIDE DEF h
<1> QED BY <1>2, <1>3, WalkIs

LEMMA ContentsListed ==
  ASSUME RingAssumption, Types, Counts, NEW g, Ring(g)
  PROVE  Contents = Listed(g)
<1> DEFINE first == IF reader = "step" THEN next[itemRead] ELSE itemRead
<1>1. size \in Nat /\ size > 1 /\ 0 \in Nodes /\ 1 \in Nodes
  BY HeldBounds DEF Nodes
<1>2. first = g[Offset] /\ Offset \in Nodes /\ Offset \in Nat
  <2>1. Succ(0) = 1
    BY <1>1 DEF Succ
  <2> QED BY <1>1, <2>1 DEF Ring, Offset
<1>3. \A i \in 1 .. available - Taken : After(first, i - 1) = g[Offset + i - 1]
  <2>1. TAKE i \in 1 .. available - Taken
  <2>2. i - 1 \in Nat /\ Offset + (i - 1) = Offset + i - 1
    BY <1>2, Positions
  <2>3. Offset + (i - 1) <= size - 1
    BY <1>1, <2>2, Positions DEF Nodes
  <2>4. After(g[Offset], i - 1) = g[Offset + (i - 1)]
    BY <1>2, <2>2, <2>3, WalkAlong
  <2> QED BY <1>2, <2>2, <2>4
<1>4. Contents = [i \in 1 .. available - Taken |-> item[After(first, i - 1)]]
  BY DEF Contents, Taken
<1> HIDE DEF first
<1> QED BY <1>3, <1>4 DEF Listed

(* From any node the links meet all of them.                               *)
LEMMA WalkAll ==
  ASSUME RingAssumption, Types, Counts, NEW g, Ring(g), NEW n \in Nodes
  PROVE  {After(n, k) : k \in 0 .. size - 1} = Nodes
<1>1. size \in Nat /\ size > 1 /\ Nodes = 0 .. size - 1
  BY HeldBounds DEF Nodes
<1>2. PICK p \in Nodes : g[p] = n
  BY DEF Ring
<1>3. p \in 0 .. size - 1
  BY <1>1
<1> DEFINE at(i) == IF p + i <= size - 1 THEN p + i ELSE p + i - size
           h == [i \in 0 .. size - 1 |-> g[at(i)]]
<1>4. \A i \in 0 .. size - 1 : at(i) \in Nodes
  BY <1>1, <1>3
<1>5. \A i \in 1 .. size - 1 : Succ(at(i - 1)) = at(i)
  BY <1>1, <1>3 DEF Succ
<1>6. \A j \in Nodes : \E i \in 0 .. size - 1 : at(i) = j
  <2>1. TAKE j \in Nodes
  <2>2. CASE j >= p
    <3>1. j - p \in 0 .. size - 1 /\ at(j - p) = j
      BY <1>1, <1>3, <2>2
    <3> QED BY <3>1
  <2>3. CASE j < p
    <3>1. j + size - p \in 0 .. size - 1 /\ at(j + size - p) = j
      BY <1>1, <1>3, <2>3
    <3> QED BY <3>1
  <2> QED BY <1>1, <1>3, <2>2, <2>3
<1>7. at(0) = p
  BY <1>1, <1>3
<1> HIDE DEF at
<1>8. \A i \in 1 .. size - 1 : h[i] = next[h[i - 1]]
  <2>1. TAKE i \in 1 .. size - 1
  <2>2. i \in 0 .. size - 1 /\ i - 1 \in 0 .. size - 1
    BY <1>1
  <2>3. next[g[at(i - 1)]] = g[Succ(at(i - 1))]
    BY <1>4, <2>2 DEF Ring
  <2>4. Succ(at(i - 1)) = at(i)
    BY <1>5
  <2> QED BY <2>2, <2>3, <2>4
<1>9. h[0] = n /\ \A i \in 0 .. size - 1 : h[i] = g[at(i)]
  BY <1>1, <1>2, <1>7
<1> HIDE DEF h
<1>10. \A k \in 0 .. size - 1 : After(n, k) = g[at(k)]
  <2>1. TAKE k \in 0 .. size - 1
  <2>2. k \in Nat /\ \A i \in 1 .. k : i \in 1 .. size - 1
    BY <1>1
  <2>3. After(h[0], k) = h[k]
    BY <1>8, <2>2, WalkIs
  <2> QED BY <1>9, <2>3
<1>11. \A k \in 0 .. size - 1 : After(n, k) \in Nodes
  BY <1>4, <1>10 DEF Ring
<1>12. \A m \in Nodes : \E k \in 0 .. size - 1 : After(n, k) = m
  <2>1. TAKE m \in Nodes
  <2>2. PICK j \in Nodes : g[j] = m
    BY DEF Ring
  <2>3. PICK k \in 0 .. size - 1 : at(k) = j
    BY <1>6
  <2> QED BY <1>10, <2>2, <2>3
<1> QED BY <1>11, <1>12

-----------------------------------------------------------------------------
(* What a chunk adds.                                                      *)
LEMMA ChainLinks ==
  ASSUME RingAssumption, Types, Counts, itemWrite \in Nodes, Chain
  PROVE  /\ \A n \in Nodes : next'[n] = next[n]
         /\ \A n \in size .. size + Chunk - 2 : next'[n] = n + 1
         /\ next'[size + Chunk - 1] = next[itemWrite]
         /\ next' \in [0 .. size + Chunk - 1 -> 0 .. size + Chunk - 1]
         /\ item' \in [0 .. size + Chunk - 1 -> Values \cup {Nothing}]
         /\ \A n \in Nodes : item'[n] = item[n]
<1> DEFINE links == Chained(size)
           one == [k \in {size + Chunk - 1} |-> next[itemWrite]]
           both == Over(next, links)
<1>1. /\ Chunk \in Nat /\ Chunk > 1 /\ size \in Nat /\ size > 1
      /\ Linked = 0 .. size - 1 /\ Nodes = 0 .. size - 1
  BY HeldBounds DEF Chain, Linked, Nodes
<1>2. next' = Over(both, one) /\ item' = Over(item, FreshItems(size))
  BY DEF Chain
<1>3. /\ DOMAIN links = size .. size + Chunk - 2
      /\ \A n \in DOMAIN links : links[n] = n + 1
  BY DEF Chained
<1>4. /\ DOMAIN both = 0 .. size + Chunk - 2
      /\ \A n \in 0 .. size - 1 : both[n] = next[n]
      /\ \A n \in size .. size + Chunk - 2 : both[n] = n + 1
  <2>1. DOMAIN next = 0 .. size - 1
    BY <1>1 DEF Types
  <2>2. (DOMAIN next) \cup DOMAIN links = 0 .. size + Chunk - 2
    BY <1>1, <1>3, <2>1
  <2>3. \A n \in 0 .. size - 1 : n \notin DOMAIN links
    BY <1>1, <1>3
  <2>4. both = [k \in 0 .. size + Chunk - 2 |->
                  IF k \in DOMAIN links THEN links[k] ELSE next[k]]
    BY <2>2 DEF Over
  <2>5. \A n \in 0 .. size - 1 : n \in 0 .. size + Chunk - 2
    BY <1>1
  <2>6. \A n \in size .. size + Chunk - 2 : n \in 0 .. size + Chunk - 2
    BY <1>1
  <2> HIDE DEF links, both
  <2> QED BY <1>3, <2>3, <2>4, <2>5, <2>6
<1> HIDE DEF both, links
<1>5. /\ DOMAIN next' = 0 .. size + Chunk - 1
      /\ \A n \in 0 .. size + Chunk - 2 : next'[n] = both[n]
      /\ next'[size + Chunk - 1] = next[itemWrite]
  <2>1. DOMAIN one = {size + Chunk - 1} /\ one[size + Chunk - 1] = next[itemWrite]
    OBVIOUS
  <2>2. (DOMAIN both) \cup DOMAIN one = 0 .. size + Chunk - 1
    BY <1>1, <1>4, <2>1
  <2>3. next' = [k \in 0 .. size + Chunk - 1 |->
                   IF k \in DOMAIN one THEN one[k] ELSE both[k]]
    BY <1>2, <2>2 DEF Over
  <2>4. \A n \in 0 .. size + Chunk - 2 :
          n \in 0 .. size + Chunk - 1 /\ n # size + Chunk - 1
    BY <1>1
  <2>5. size + Chunk - 1 \in 0 .. size + Chunk - 1
    BY <1>1
  <2> HIDE DEF one
  <2> QED BY <2>1, <2>3, <2>4, <2>5
<1>6. \A n \in Nodes : next'[n] = next[n] /\ n \in 0 .. size + Chunk - 2
  BY <1>1, <1>4, <1>5
<1>7. \A n \in size .. size + Chunk - 2 : next'[n] = n + 1
  <2>1. \A n \in size .. size + Chunk - 2 : n \in 0 .. size + Chunk - 2
    BY <1>1
  <2> QED BY <1>4, <1>5, <2>1
<1>8. next' \in [0 .. size + Chunk - 1 -> 0 .. size + Chunk - 1]
  <2>1. \A n \in 0 .. size + Chunk - 1 :
          \/ n \in Nodes \/ n \in size .. size + Chunk - 2
          \/ n = size + Chunk - 1
    BY <1>1
  <2>2. \A n \in Nodes : next[n] \in Nodes
    BY <1>1 DEF Types
  <2>3. \A n \in Nodes : n \in 0 .. size + Chunk - 1
    BY <1>1
  <2>4. \A n \in size .. size + Chunk - 2 : n + 1 \in 0 .. size + Chunk - 1
    BY <1>1
  <2>5. \A n \in 0 .. size + Chunk - 1 : next'[n] \in 0 .. size + Chunk - 1
    BY <1>5, <1>6, <1>7, <2>1, <2>2, <2>3, <2>4
  <2>6. next' = [n \in 0 .. size + Chunk - 1 |-> next'[n]]
    BY <1>2, <1>5 DEF Over
  <2> QED BY <2>5, <2>6
<1>9. /\ item' \in [0 .. size + Chunk - 1 -> Values \cup {Nothing}]
      /\ \A n \in Nodes : item'[n] = item[n]
  <2>1. DOMAIN item = 0 .. size - 1
    BY <1>1 DEF Types
  <2>2. /\ DOMAIN FreshItems(size) = size .. size + Chunk - 1
        /\ \A n \in size .. size + Chunk - 1 : FreshItems(size)[n] = Nothing
    BY DEF FreshItems
  <2>3. (DOMAIN item) \cup DOMAIN FreshItems(size) = 0 .. size + Chunk - 1
    BY <1>1, <2>1, <2>2
  <2>4. item' = [k \in 0 .. size + Chunk - 1 |->
                   IF k \in DOMAIN FreshItems(size) THEN FreshItems(size)[k]
                   ELSE item[k]]
    BY <1>2, <2>3 DEF Over
  <2>5. \A n \in 0 .. size + Chunk - 1 :
          n \notin size .. size + Chunk - 1 => n \in 0 .. size - 1
    BY <1>1
  <2>6. \A n \in 0 .. size - 1 :
          /\ n \notin size .. size + Chunk - 1
          /\ n \in 0 .. size + Chunk - 1
    BY <1>1
  <2>7. \A n \in 0 .. size - 1 : item[n] \in Values \cup {Nothing}
    BY <1>1 DEF Types
  <2> QED BY <1>1, <2>2, <2>4, <2>5, <2>6, <2>7
<1> QED BY <1>5, <1>6, <1>7, <1>8, <1>9

(* Types and counts, by the steps of the writer and of the reader.         *)
LEMMA WriterTypes ==
  ASSUME RingAssumption, Types, Counts, NewChunk, itemWrite \in Nodes, Push
  PROVE  Types' /\ Counts' /\ NewChunk'
<1>1. /\ Chunk \in Nat /\ Chunk > 1 /\ size \in Nat /\ size > 1
      /\ available \in Nat /\ Nodes = 0 .. size - 1
  BY HeldBounds DEF Nodes
<1>2. MaxPushes \in Nat /\ pushes \in 0 .. MaxPushes
  BY DEF RingAssumption, Types
<1>3. CASE PushBegin
  <2>1. pushes' \in 0 .. MaxPushes /\ pushes' >= 1
    BY <1>2, <1>3 DEF PushBegin
  <2>2. /\ writer = "idle" /\ writer' \in {"chain", "write"}
        /\ writer' = "write" => available # size - 1
        /\ UNCHANGED <<item, next, available, size, reader, out>>
    BY <1>3 DEF PushBegin, Full, nodes
  <2>3. Types'
    BY <2>1, <2>2 DEF Types, Linked
  <2>4. Counts'
    BY <1>1, <2>1, <2>2 DEF Counts
  <2> QED BY <2>2, <2>3, <2>4 DEF NewChunk
<1>4. CASE Chain
  <2>1. /\ writer = "chain" /\ writer' = "splice"
        /\ UNCHANGED <<available, size, itemWrite, reader, pushes, out>>
    BY <1>4 DEF Chain
  <2>2. Linked' = 0 .. size + Chunk - 1
    BY <1>1, <2>1 DEF Linked
  <2>3. Types'
    BY <1>4, <2>1, <2>2, ChainLinks DEF Types
  <2>4. NewChunk'
    BY <1>4, <2>1, ChainLinks DEF NewChunk
  <2>5. Counts'
    BY <2>1 DEF Counts
  <2> QED BY <2>3, <2>4, <2>5
<1>5. CASE Splice
  <2>1. /\ writer = "splice" /\ writer' = "write" /\ size' = size + Chunk
        /\ next' = [next EXCEPT ![itemWrite] = size]
        /\ UNCHANGED <<item, available, reader, pushes, out>>
    BY <1>5 DEF Splice
  <2>2. Linked = 0 .. size + Chunk - 1 /\ Linked' = Linked
    BY <1>1, <2>1 DEF Linked
  <2>3. size' \in Nat /\ size' >= Chunk /\ size \in Linked
    BY <1>1, <2>1, <2>2
  <2>4. Types'
    BY <2>1, <2>2, <2>3 DEF Types
  <2>5. Counts'
    BY <1>1, <2>1 DEF Counts
  <2> QED BY <2>1, <2>4, <2>5 DEF NewChunk
<1>6. CASE Write
  <2>1. /\ writer = "write" /\ writer' = "step"
        /\ item' = [item EXCEPT ![itemWrite] = pushes]
        /\ UNCHANGED <<next, available, size, reader, pushes, out>>
    BY <1>6 DEF Write
  <2>2. pushes \in Values
    BY <1>2, <2>1 DEF Counts, Values
  <2>3. Types'
    BY <2>1, <2>2 DEF Types, Linked
  <2> QED BY <2>1, <2>3 DEF Counts, NewChunk
<1>7. CASE WriteStep
  <2>1. /\ writer = "step" /\ writer' = "count"
        /\ UNCHANGED <<item, next, available, size, reader, pushes, out>>
    BY <1>7 DEF WriteStep, nodes
  <2> QED BY <2>1 DEF Types, Linked, Counts, NewChunk
<1>8. CASE Count
  <2>1. /\ writer = "count" /\ writer' = "idle" /\ available' = available + 1
        /\ UNCHANGED <<item, next, size, reader, pushes, out>>
    BY <1>8 DEF Count, nodes
  <2>2. Types'
    BY <1>1, <2>1 DEF Types, Linked
  <2>3. Counts'
    BY <1>1, <2>1 DEF Counts
  <2> QED BY <2>1, <2>2, <2>3 DEF NewChunk
<1> QED BY <1>3, <1>4, <1>5, <1>6, <1>7, <1>8 DEF Push

LEMMA ReaderTypes ==
  ASSUME RingAssumption, Types, Counts, NewChunk, itemRead \in Nodes, Pop
  PROVE  Types' /\ Counts' /\ NewChunk'
<1>1. size \in Nat /\ available \in Nat /\ itemRead \in Linked
  BY HeldBounds
<1>2. UNCHANGED <<next, size, itemWrite, writer, pushes>>
  BY DEF Pop, PopBegin, Take, ReadStep, Uncount, nodes
<1>3. NewChunk'
  BY <1>2 DEF NewChunk
<1>4. CASE PopBegin
  BY <1>1, <1>2, <1>3, <1>4 DEF PopBegin, nodes, Types, Linked, Counts
<1>5. CASE Take
  <2>1. /\ reader = "take" /\ reader' = "step" /\ out' = item[itemRead]
        /\ item' = [item EXCEPT ![itemRead] = Nothing] /\ available' = available
    BY <1>5 DEF Take
  <2> QED BY <1>1, <1>2, <1>3, <2>1 DEF Types, Linked, Counts
<1>6. CASE ReadStep
  BY <1>1, <1>2, <1>3, <1>6 DEF ReadStep, nodes, Types, Linked, Counts
<1>7. CASE Uncount
  <2>1. /\ reader = "uncount" /\ reader' = "idle" /\ available' = available - 1
        /\ UNCHANGED <<item, out>>
    BY <1>7 DEF Uncount, nodes
  <2>2. available' \in Nat
    BY <1>1, <2>1 DEF Counts
  <2> QED BY <1>1, <1>2, <1>3, <2>1, <2>2 DEF Types, Linked, Counts
<1> QED BY <1>4, <1>5, <1>6, <1>7 DEF Pop

-----------------------------------------------------------------------------
(* The order of the nodes after a step, and what the step is for the queue.*)

Stutters(g, h) == Listed(h)' = Listed(g) /\ out' = out
Puts(g, h) == \E v \in Values : Listed(h)' = Append(Listed(g), v) /\ out' = out
Gets(g, h) ==
  Listed(g) # <<>> /\ out' = Head(Listed(g)) /\ Listed(h)' = Tail(Listed(g))

QueueStep(g) ==
  \E h : /\ Ring(h)' /\ Written(h)'
         /\ Stutters(g, h) \/ Puts(g, h) \/ Gets(g, h)

(* A step that moves neither the nodes nor those who use them.             *)
LEMMA SameRing ==
  ASSUME RingAssumption, Types, Counts, NEW g, Ring(g),
         UNCHANGED <<size, itemRead, itemWrite>>, Held' = Held,
         \A n \in Nodes : next'[n] = next[n]
  PROVE  Ring(g)'
<1>1. Nodes' = Nodes /\ \A i : Succ(i)' = Succ(i)
  BY DEF Nodes, Succ
<1>2. \A i \in Nodes : g[i] \in Nodes
  BY DEF Ring
<1>3. \A i \in Nodes' : next'[g[i]] = g[Succ(i)']
  BY <1>1, <1>2 DEF Ring
<1> QED BY <1>1, <1>3 DEF Ring

LEMMA SameList ==
  ASSUME RingAssumption, Types, Counts, NEW g, Ring(g),
         UNCHANGED <<available, reader>>,
         \A i \in Nodes : i < Top => item'[g[i]] = item[g[i]]
  PROVE  Listed(g)' = Listed(g)
<1>1. available' - Taken' = available - Taken /\ Offset' = Offset
  BY DEF Taken, Offset
<1>2. \A i \in 1 .. available - Taken :
        item'[g[Offset + i - 1]] = item[g[Offset + i - 1]]
  BY Positions
<1> QED BY <1>1, <1>2 DEF Listed

(* The writer.                                                             *)
LEMMA StepPushBegin ==
  ASSUME RingAssumption, Types, Counts, NEW g, Ring(g), Written(g),
         PushBegin \/ Chain
  PROVE  QueueStep(g)
<1>1. /\ writer \in {"idle", "chain"} /\ writer' \in {"chain", "write", "splice"}
      /\ UNCHANGED <<available, size, itemRead, itemWrite, reader, out>>
  BY DEF PushBegin, Chain
<1>2. itemWrite \in Nodes
  BY HeldBounds DEF Ring
<1>3. \A n \in Nodes : next'[n] = next[n] /\ item'[n] = item[n]
  BY <1>2, ChainLinks DEF PushBegin, nodes
<1>4. Held' = Held
  BY <1>1 DEF Held
<1>5. Ring(g)'
  BY <1>1, <1>3, <1>4, SameRing
<1>6. Written(g)'
  BY <1>1 DEF Written
<1>7. Listed(g)' = Listed(g)
  BY <1>1, <1>3, SameList DEF Ring
<1> QED BY <1>1, <1>5, <1>6, <1>7 DEF QueueStep, Stutters

LEMMA StepWrite ==
  ASSUME RingAssumption, Types, Counts, NEW g, Ring(g), Written(g), Write
  PROVE  QueueStep(g)
<1>1. /\ writer = "write" /\ writer' = "step"
      /\ item' = [item EXCEPT ![itemWrite] = pushes]
      /\ UNCHANGED <<next, available, size, itemRead, itemWrite, reader, pushes,
                     out>>
  BY DEF Write
<1>2. itemWrite = g[Held] /\ itemWrite \in Linked /\ Held \in Nodes /\ Top = Held
  BY <1>1, HeldBounds DEF Ring, Top
<1>3. Held' = Held
  BY <1>1 DEF Held
<1>4. Ring(g)'
  BY <1>1, <1>3, SameRing
<1>5. item'[itemWrite'] = pushes' /\ writer' # "count"
  BY <1>1, <1>2 DEF Types
<1>6. Written(g)'
  BY <1>5 DEF Written
<1>7. \A i \in Nodes : i < Top => item'[g[i]] = item[g[i]]
  <2>1. TAKE i \in Nodes
  <2>2. HAVE i < Top
  <2>3. i # Held
    BY <1>2, <2>2 DEF Nodes, Types
  <2>4. g[i] # itemWrite /\ g[i] \in Linked
    BY <1>2, <2>3, HeldBounds DEF Ring
  <2> QED BY <1>1, <2>4 DEF Types
<1>8. Listed(g)' = Listed(g)
  BY <1>1, <1>7, SameList
<1> QED BY <1>1, <1>4, <1>6, <1>8 DEF QueueStep, Stutters

LEMMA StepWriteStep ==
  ASSUME RingAssumption, Types, Counts, NEW g, Ring(g), Written(g), WriteStep
  PROVE  QueueStep(g)
<1>1. /\ writer = "step" /\ writer' = "count" /\ itemWrite' = next[itemWrite]
      /\ UNCHANGED <<item, next, available, size, itemRead, reader, pushes, out>>
  BY DEF WriteStep, nodes
<1>2. /\ Held \in Nodes /\ Held <= size - 2 /\ itemWrite = g[Held] /\ size \in Nat
  BY <1>1, HeldBounds DEF Ring
<1>3. Held' = Held + 1 /\ Held' - 1 = Held /\ Succ(Held) = Held + 1
  <2>1. Held \in 0 .. size - 1
    BY <1>2 DEF Nodes
  <2>2. Succ(Held) = Held + 1
    BY <1>2, <2>1 DEF Succ
  <2>3. Held' = Held + 1
    <3>1. available \in Nat
      BY DEF Types
    <3> QED BY <1>1, <3>1 DEF Held
  <2> QED BY <2>1, <2>2, <2>3
<1>4. itemWrite' = g[Held']
  <2>1. next[g[Held]] = g[Succ(Held)]
    BY <1>2 DEF Ring
  <2> QED BY <1>1, <1>2, <1>3, <2>1
<1>5. Ring(g)'
  <2>1. Nodes' = Nodes /\ \A i : Succ(i)' = Succ(i)
    BY <1>1 DEF Nodes, Succ
  <2>2. \A i \in Nodes : next'[g[i]] = g[Succ(i)]
    BY <1>1 DEF Ring
  <2> QED BY <1>1, <1>4, <2>1, <2>2 DEF Ring
<1>6. Written(g)'
  BY <1>1, <1>2, <1>3 DEF Written
<1>7. Listed(g)' = Listed(g)
  BY <1>1, SameList
<1> QED BY <1>1, <1>5, <1>6, <1>7 DEF QueueStep, Stutters

(* A list that is one longer.                                              *)
LEMMA ListLonger ==
  ASSUME NEW S, NEW n \in Nat, NEW s \in [1 .. n -> S], NEW v \in S,
         NEW s2 \in [1 .. n + 1 -> S],
         \A i \in 1 .. n : s2[i] = s[i], s2[n + 1] = v
  PROVE  s2 = Append(s, v)
<1>1. s \in Seq(S) /\ Len(s) = n
  OBVIOUS
<1>2. s2 \in Seq(S) /\ Len(s2) = n + 1
  OBVIOUS
<1>3. /\ Append(s, v) \in Seq(S) /\ Len(Append(s, v)) = n + 1
      /\ \A i \in 1 .. n : Append(s, v)[i] = s[i]
      /\ Append(s, v)[n + 1] = v
  BY <1>1, AppendProperties
<1>4. \A i \in 1 .. n + 1 : i \in 1 .. n \/ i = n + 1
  OBVIOUS
<1>5. \A i \in 1 .. n + 1 : Append(s, v)[i] = s2[i]
  BY <1>3, <1>4
<1> QED BY <1>2, <1>3, <1>5, SeqEqual

(* One that is one shorter.                                                *)
LEMMA ListShorter ==
  ASSUME NEW S, NEW n \in Nat, n >= 1, NEW s \in [1 .. n -> S],
         NEW s2 \in [1 .. n - 1 -> S], \A i \in 1 .. n - 1 : s2[i] = s[i + 1]
  PROVE  s # <<>> /\ Head(s) = s[1] /\ s2 = Tail(s)
<1>1. s \in Seq(S) /\ Len(s) = n /\ s # <<>> /\ Head(s) = s[1]
  <2>1. s \in Seq(S) /\ Len(s) = n
    OBVIOUS
  <2>2. s # <<>>
    BY <2>1
  <2> QED BY <2>1, <2>2
<1>2. s2 \in Seq(S) /\ Len(s2) = n - 1
  <2>1. n - 1 \in Nat
    OBVIOUS
  <2> QED BY <2>1
<1>3. /\ Tail(s) \in Seq(S) /\ Len(Tail(s)) = n - 1
      /\ \A i \in 1 .. n - 1 : Tail(s)[i] = s[i + 1]
  BY <1>1, HeadTailProperties
<1> QED BY <1>1, <1>2, <1>3, SeqEqual

LEMMA StepCount ==
  ASSUME RingAssumption, Types, Counts, Types', Counts',
         NEW g, Ring(g), Written(g), Count
  PROVE  QueueStep(g)
<1>1. /\ writer = "count" /\ writer' = "idle" /\ available' = available + 1
      /\ UNCHANGED <<item, next, size, itemRead, itemWrite, reader, pushes, out>>
  BY DEF Count, nodes
<1>2. available \in Nat /\ size \in Nat
  BY DEF Types
<1>3. Held' = Held
  BY <1>1, <1>2 DEF Held
<1>4. Ring(g)'
  BY <1>1, <1>3, SameRing
<1>5. Written(g)'
  BY <1>1 DEF Written
<1> DEFINE n == available - Taken
<1>6. n \in Nat /\ available' - Taken' = n + 1 /\ Offset' = Offset
  BY <1>1, <1>2, Positions DEF Taken, Offset
<1>7. Offset + n = Held - 1
  BY <1>1, Positions DEF Top
<1>8. item[g[Held - 1]] = pushes /\ pushes \in Values
  BY <1>1 DEF Written, Counts, Types, Values
<1>9. /\ Listed(g) \in [1 .. n -> Values \cup {Nothing}]
      /\ Listed(g)' \in [1 .. n + 1 -> Values \cup {Nothing}]
  <2>1. Listed(g)' \in [1 .. available' - Taken' -> Values \cup {Nothing}]
    <3>1. \A i \in 1 .. n + 1 : Offset + i - 1 \in Nodes
      <4>1. TAKE i \in 1 .. n + 1
      <4>2. i \in 1 .. n \/ i = n + 1
        BY <1>6
      <4>3. i = n + 1 => Offset + i - 1 = Held - 1
        BY <1>6, <1>7, Positions
      <4>4. Held - 1 \in Nodes
        BY <1>1, <1>2, HeldBounds DEF Nodes
      <4> QED BY <4>2, <4>3, <4>4, Positions
    <3>2. \A i \in 1 .. n + 1 : g[Offset + i - 1] \in Linked
      BY <3>1, HeldBounds DEF Ring
    <3> QED BY <1>1, <1>6, <3>2 DEF Listed, Types
  <2> QED BY <1>6, <2>1, ListedType
<1>10. /\ \A i \in 1 .. n : Listed(g)'[i] = Listed(g)[i]
       /\ Listed(g)'[n + 1] = pushes
  <2>1. Listed(g)' = [i \in 1 .. n + 1 |-> item[g[Offset + i - 1]]]
    BY <1>1, <1>6 DEF Listed
  <2>2. Listed(g) = [i \in 1 .. n |-> item[g[Offset + i - 1]]]
    BY DEF Listed
  <2>3. \A i \in 1 .. n : i \in 1 .. n + 1
    BY <1>6
  <2>4. n + 1 \in 1 .. n + 1 /\ Offset + (n + 1) - 1 = Held - 1
    BY <1>6, <1>7, Positions
  <2> HIDE DEF n
  <2> QED BY <1>8, <2>1, <2>2, <2>3, <2>4
<1> HIDE DEF n
<1>11. Listed(g)' = Append(Listed(g), pushes)
  BY <1>6, <1>8, <1>9, <1>10, ListLonger
<1> QED BY <1>1, <1>4, <1>5, <1>8, <1>11 DEF QueueStep, Puts

(* A chunk between the writer's node and the one after it.                 *)
LEMMA StepSplice ==
  ASSUME RingAssumption, Types, Counts, NewChunk, NEW g, Ring(g), Written(g),
         Splice
  PROVE  QueueStep(g)
<1>1. /\ writer = "splice" /\ writer' = "write" /\ size' = size + Chunk
      /\ next' = [next EXCEPT ![itemWrite] = size]
      /\ UNCHANGED <<item, available, itemWrite, itemRead, reader, pushes, out>>
  BY DEF Splice
<1>2. PICK w \in Nodes : w = Held
  BY HeldBounds
<1>3. PICK s \in Nat : s = size
  BY DEF Types
<1>4. /\ Chunk \in Nat /\ Chunk > 1 /\ s > 1 /\ w \in 0 .. s - 1
      /\ Nodes = 0 .. s - 1 /\ Nodes' = 0 .. s + Chunk - 1
      /\ Linked = 0 .. s + Chunk - 1
  BY <1>1, <1>2, <1>3, HeldBounds DEF Nodes, Linked
<1>5. Held' = w
  BY <1>1, <1>2 DEF Held
<1>6. /\ g \in [0 .. s - 1 -> 0 .. s - 1] /\ itemWrite = g[w] /\ itemRead = g[0]
      /\ \A i, j \in 0 .. s - 1 : g[i] = g[j] => i = j
      /\ \A n \in 0 .. s - 1 : \E i \in 0 .. s - 1 : g[i] = n
      /\ \A i \in 0 .. s - 1 : next[g[i]] = g[IF i = s - 1 THEN 0 ELSE i + 1]
  BY <1>2, <1>3, <1>4 DEF Ring, Succ
<1>7. /\ \A n \in 0 .. s + Chunk - 1 : n # itemWrite => next'[n] = next[n]
      /\ next'[itemWrite] = s
  <2>1. next \in [0 .. s + Chunk - 1 -> Linked] /\ itemWrite \in 0 .. s - 1
    BY <1>4, <1>6 DEF Types
  <2>2. itemWrite \in 0 .. s + Chunk - 1
    BY <1>4, <2>1
  <2> QED BY <1>1, <1>3, <2>1, <2>2
<1>8. /\ \A n \in s .. s + Chunk - 2 : next[n] = n + 1
      /\ next[s + Chunk - 1] = next[itemWrite]
  BY <1>1, <1>3 DEF NewChunk
<1> DEFINE at(i) == IF i <= w THEN g[i]
                    ELSE IF i <= w + Chunk THEN s + i - w - 1 ELSE g[i - Chunk]
           h == [i \in 0 .. s + Chunk - 1 |-> at(i)]
           Early(i) == i \in 0 .. w
           Fresh(i) == i \in w + 1 .. w + Chunk
           Late(i) == i \in w + Chunk + 1 .. s + Chunk - 1
<1>9. \A i \in 0 .. s + Chunk - 1 : Early(i) \/ Fresh(i) \/ Late(i)
  BY <1>4
<1>10. \A i : Early(i) => h[i] = g[i] /\ i \in 0 .. s - 1 /\ i \in 0 .. s + Chunk - 1
  BY <1>4
<1>11. \A i : Fresh(i) => /\ h[i] = s + i - w - 1 /\ i \in 0 .. s + Chunk - 1
                          /\ h[i] \in s .. s + Chunk - 1
  BY <1>4
<1>12. \A i : Late(i) => /\ h[i] = g[i - Chunk] /\ i - Chunk \in 0 .. s - 1
                         /\ i - Chunk > w /\ i \in 0 .. s + Chunk - 1
  BY <1>4
<1>13. h \in [0 .. s + Chunk - 1 -> 0 .. s + Chunk - 1]
  <2>1. \A i \in 0 .. s - 1 : g[i] \in 0 .. s + Chunk - 1
    <3>1. 0 .. s - 1 \subseteq 0 .. s + Chunk - 1
      BY <1>4
    <3> QED BY <1>6, <3>1
  <2>2. s .. s + Chunk - 1 \subseteq 0 .. s + Chunk - 1
    BY <1>4
  <2>3. \A i \in 0 .. s + Chunk - 1 : h[i] \in 0 .. s + Chunk - 1
    <3> HIDE DEF h, Early, Fresh, Late
    <3> QED BY <1>9, <1>10, <1>11, <1>12, <2>1, <2>2
  <2> HIDE DEF at
  <2> QED BY <2>3
<1>14. \A i \in 0 .. s + Chunk - 1 : Fresh(i) \/ h[i] \in 0 .. s - 1
  <2> HIDE DEF h, Early, Fresh, Late
  <2> QED BY <1>6, <1>9, <1>10, <1>12
<1>15. \A i, j \in 0 .. s + Chunk - 1 : h[i] = h[j] => i = j
  <2>1. TAKE i, j \in 0 .. s + Chunk - 1
  <2>2. HAVE h[i] = h[j]
  <2>3. CASE Fresh(i) /\ Fresh(j)
    <3>1. s + i - w - 1 = s + j - w - 1
      BY <1>11, <2>2, <2>3
    <3> QED BY <1>4, <3>1
  <2>4. ~(Fresh(i) /\ ~Fresh(j)) /\ ~(~Fresh(i) /\ Fresh(j))
    <3>1. \A n \in s .. s + Chunk - 1 : n \notin 0 .. s - 1
      BY <1>4
    <3> HIDE DEF h, Fresh
    <3> QED BY <1>11, <1>14, <2>2, <3>1
  <2>5. CASE ~Fresh(i) /\ ~Fresh(j)
    <3>1. PICK p \in 0 .. s - 1 : /\ h[i] = g[p]
                                  /\ \/ i = p /\ p <= w
                                     \/ i = p + Chunk /\ p > w
      <4>1. CASE Early(i)
        BY <1>4, <1>10, <4>1
      <4>2. CASE Late(i)
        <5>1. i = (i - Chunk) + Chunk
          BY <1>4
        <5> QED BY <1>12, <4>2, <5>1
      <4> QED BY <1>9, <2>5, <4>1, <4>2
    <3>2. PICK q \in 0 .. s - 1 : /\ h[j] = g[q]
                                  /\ \/ j = q /\ q <= w
                                     \/ j = q + Chunk /\ q > w
      <4>1. CASE Early(j)
        BY <1>4, <1>10, <4>1
      <4>2. CASE Late(j)
        <5>1. j = (j - Chunk) + Chunk
          BY <1>4
        <5> QED BY <1>12, <4>2, <5>1
      <4> QED BY <1>9, <2>5, <4>1, <4>2
    <3> HIDE DEF h
    <3>3. g[p] = g[q]
      BY <2>2, <3>1, <3>2
    <3>4. p = q
      BY <1>6, <3>3
    <3>5. CASE p <= w
      BY <1>4, <3>1, <3>2, <3>4, <3>5
    <3>6. CASE ~(p <= w)
      BY <1>4, <3>1, <3>2, <3>4, <3>6
    <3> QED BY <3>5, <3>6
  <2> QED BY <2>3, <2>4, <2>5
<1>16. \A n \in 0 .. s + Chunk - 1 : \E i \in 0 .. s + Chunk - 1 : h[i] = n
  <2>1. TAKE n \in 0 .. s + Chunk - 1
  <2>2. CASE n \in 0 .. s - 1
    <3>1. PICK p \in 0 .. s - 1 : g[p] = n
      BY <1>6, <2>2
    <3>2. CASE p <= w
      <4>1. Early(p)
        BY <3>2
      <4> HIDE DEF h, Early
      <4> QED BY <1>10, <3>1, <4>1
    <3>3. CASE p > w
      <4>1. Late(p + Chunk) /\ (p + Chunk) - Chunk = p
        BY <1>4, <3>3
      <4> HIDE DEF h, Late
      <4> QED BY <1>12, <3>1, <4>1
    <3> QED BY <1>4, <3>2, <3>3
  <2>3. CASE n \notin 0 .. s - 1
    <3>1. Fresh(n - s + w + 1) /\ s + (n - s + w + 1) - w - 1 = n
      BY <1>4, <2>1, <2>3
    <3> HIDE DEF h, Fresh
    <3> QED BY <1>11, <3>1
  <2> QED BY <2>2, <2>3
<1>17. \A i \in 0 .. s + Chunk - 1 :
         next'[h[i]] = h[IF i = s + Chunk - 1 THEN 0 ELSE i + 1]
  <2>1. TAKE i \in 0 .. s + Chunk - 1
  <2> DEFINE k == IF i = s + Chunk - 1 THEN 0 ELSE i + 1
  <2>2. h[0] = g[0]
    BY <1>4
  <2>3. CASE i \in 0 .. w - 1
    <3>1. Early(i) /\ Early(i + 1) /\ k = i + 1 /\ i # w /\ i # s - 1
      BY <1>4, <2>3
    <3> HIDE DEF h, k, Early, Fresh, Late
    <3>2. h[i] = g[i] /\ h[i + 1] = g[i + 1] /\ i \in 0 .. s - 1
      BY <1>10, <3>1
    <3>3. g[i] # itemWrite /\ g[i] \in 0 .. s + Chunk - 1
      BY <1>4, <1>6, <1>13, <2>1, <3>1, <3>2
    <3>4. next[g[i]] = g[i + 1]
      BY <1>6, <3>1, <3>2
    <3> QED BY <1>7, <3>1, <3>2, <3>3, <3>4 DEF k
  <2>4. CASE i = w
    <3>1. Early(i) /\ Fresh(i + 1) /\ k = i + 1 /\ s + (i + 1) - w - 1 = s
      BY <1>4, <2>4
    <3> HIDE DEF h, k, Early, Fresh, Late
    <3>2. h[i] = itemWrite
      BY <1>6, <1>10, <2>4, <3>1
    <3>3. h[i + 1] = s
      BY <1>11, <3>1
    <3> QED BY <1>7, <3>1, <3>2, <3>3 DEF k
  <2>5. CASE i \in w + 1 .. w + Chunk - 1
    <3>1. /\ Fresh(i) /\ Fresh(i + 1) /\ k = i + 1
          /\ s + i - w - 1 \in s .. s + Chunk - 2
          /\ s + (i + 1) - w - 1 = (s + i - w - 1) + 1
      BY <1>4, <2>5
    <3>2. h[i] = s + i - w - 1 /\ h[i + 1] = (s + i - w - 1) + 1
      BY <1>11, <3>1
    <3>3. itemWrite # s + i - w - 1 /\ s + i - w - 1 \in 0 .. s + Chunk - 1
      <4>1. itemWrite \in 0 .. s - 1
        BY <1>4, <1>6
      <4> QED BY <1>4, <3>1, <4>1
    <3> HIDE DEF h, k, Early, Fresh, Late
    <3> QED BY <1>7, <1>8, <3>1, <3>2, <3>3 DEF k
  <2>6. CASE i = w + Chunk
    <3>1. Fresh(i) /\ s + i - w - 1 = s + Chunk - 1 /\ h[i] = s + Chunk - 1
      BY <1>4, <1>11, <2>6
    <3>2. next'[h[i]] = g[IF w = s - 1 THEN 0 ELSE w + 1]
      <4>1. s + Chunk - 1 # itemWrite /\ s + Chunk - 1 \in 0 .. s + Chunk - 1
        <5>1. itemWrite \in 0 .. s - 1
          BY <1>4, <1>6
        <5> QED BY <1>4, <5>1
      <4> HIDE DEF h
      <4>2. next'[s + Chunk - 1] = next[itemWrite]
        BY <1>7, <1>8, <4>1
      <4>3. next[g[w]] = g[IF w = s - 1 THEN 0 ELSE w + 1]
        BY <1>4, <1>6
      <4> QED BY <1>6, <3>1, <4>2, <4>3
    <3>3. CASE w = s - 1
      <4>1. k = 0
        BY <1>4, <2>6, <3>3
      <4> HIDE DEF h
      <4> QED BY <2>2, <3>2, <3>3, <4>1
    <3>4. CASE w # s - 1
      <4>1. k = i + 1 /\ Late(i + 1) /\ (i + 1) - Chunk = w + 1
        BY <1>4, <2>6, <3>4
      <4>2. h[i + 1] = g[w + 1]
        BY <1>12, <4>1
      <4> HIDE DEF h, k
      <4> QED BY <3>2, <3>4, <4>1, <4>2 DEF k
    <3> QED BY <3>3, <3>4
  <2>7. CASE Late(i)
    <3>1. /\ h[i] = g[i - Chunk] /\ i - Chunk \in 0 .. s - 1 /\ i - Chunk # w
      BY <1>4, <1>12, <2>7
    <3>2. g[i - Chunk] # itemWrite /\ g[i - Chunk] \in 0 .. s + Chunk - 1
      <4> HIDE DEF h
      <4> QED BY <1>4, <1>6, <1>13, <2>1, <3>1
    <3>3. next'[h[i]] = g[IF i - Chunk = s - 1 THEN 0 ELSE i - Chunk + 1]
      <4> HIDE DEF h
      <4>1. next'[g[i - Chunk]] = next[g[i - Chunk]]
        BY <1>7, <3>2
      <4>2. next[g[i - Chunk]]
              = g[IF i - Chunk = s - 1 THEN 0 ELSE i - Chunk + 1]
        BY <1>6, <3>1
      <4> QED BY <3>1, <4>1, <4>2
    <3>4. CASE i - Chunk = s - 1
      <4>1. k = 0
        BY <1>4, <2>7, <3>4
      <4> HIDE DEF h
      <4> QED BY <2>2, <3>3, <3>4, <4>1
    <3>5. CASE i - Chunk # s - 1
      <4>1. k = i + 1 /\ Late(i + 1) /\ (i + 1) - Chunk = i - Chunk + 1
        BY <1>4, <2>7, <3>5
      <4>2. h[i + 1] = g[i - Chunk + 1]
        BY <1>12, <4>1
      <4> HIDE DEF h, k
      <4> QED BY <3>3, <3>5, <4>1, <4>2 DEF k
    <3> QED BY <3>4, <3>5
  <2> QED BY <1>4, <1>9, <2>1, <2>3, <2>4, <2>5, <2>6, <2>7
<1>18. h[0] = g[0] /\ h[w] = g[w] /\ 0 \in 0 .. w /\ w \in 0 .. w
  BY <1>4
<1>19. \A i \in 0 .. s - 1 : i < w => h[i] = g[i]
  BY <1>4
<1> HIDE DEF h
<1>20. Ring(h)'
  <2>1. \A i : Succ(i)' = IF i = s + Chunk - 1 THEN 0 ELSE i + 1
    BY <1>1, <1>3 DEF Succ
  <2>2. itemRead' = h[0] /\ itemWrite' = h[Held']
    BY <1>1, <1>5, <1>6, <1>18
  <2> QED BY <1>4, <1>13, <1>15, <1>16, <1>17, <2>1, <2>2 DEF Ring
<1>21. Written(h)'
  BY <1>1 DEF Written
<1>22. Listed(h)' = Listed(g)
  <2>1. available' - Taken' = available - Taken /\ Offset' = Offset
    BY <1>1 DEF Taken, Offset
  <2>2. Top = w
    BY <1>1, <1>2 DEF Top
  <2>3. \A i \in 1 .. available - Taken : h[Offset + i - 1] = g[Offset + i - 1]
    BY <1>4, <1>19, <2>2, Positions
  <2> QED BY <1>1, <2>1, <2>3 DEF Listed
<1> QED BY <1>1, <1>20, <1>21, <1>22 DEF QueueStep, Stutters

(* The reader.                                                             *)
LEMMA StepPopBegin ==
  ASSUME RingAssumption, Types, Counts, NEW g, Ring(g), Written(g), PopBegin
  PROVE  QueueStep(g)
<1>1. /\ reader = "idle" /\ reader' = "take"
      /\ UNCHANGED <<item, next, available, size, itemRead, itemWrite, writer,
                     pushes, out>>
  BY DEF PopBegin, nodes
<1>2. Held' = Held
  BY <1>1 DEF Held
<1>3. Ring(g)'
  BY <1>1, <1>2, SameRing
<1>4. Written(g)'
  BY <1>1, <1>2 DEF Written
<1>5. Listed(g)' = Listed(g)
  BY <1>1 DEF Listed, Taken, Offset
<1> QED BY <1>1, <1>3, <1>4, <1>5 DEF QueueStep, Stutters

LEMMA StepTake ==
  ASSUME RingAssumption, Types, Counts, NEW g, Ring(g), Written(g), Take
  PROVE  QueueStep(g)
<1>1. /\ reader = "take" /\ reader' = "step" /\ out' = item[itemRead]
      /\ item' = [item EXCEPT ![itemRead] = Nothing]
      /\ UNCHANGED <<next, available, size, itemRead, itemWrite, writer, pushes>>
  BY DEF Take
<1>2. Held' = Held /\ Held >= 1 /\ Held \in Nodes /\ 0 \in Nodes
  BY <1>1, HeldBounds DEF Held
<1>3. Ring(g)'
  BY <1>1, <1>2, SameRing
<1>4. \A i \in Nodes : i # 0 => item'[g[i]] = item[g[i]]
  BY <1>1, <1>2, HeldBounds DEF Ring, Types
<1>5. Written(g)'
  <2>1. writer = "step" => item'[itemWrite] = item[itemWrite]
    <3>1. Held # 0 /\ itemWrite = g[Held]
      BY <1>2 DEF Ring, Nodes, Types
    <3> QED BY <1>2, <1>4, <3>1
  <2>2. writer = "count" => item'[g[Held - 1]] = item[g[Held - 1]]
    <3>1. CASE writer = "count"
      <4>1. Held - 1 \in Nodes /\ Held - 1 # 0
        BY <1>1, <3>1, HeldBounds DEF Nodes
      <4> QED BY <1>4, <4>1
    <3> QED BY <3>1
  <2> QED BY <1>1, <1>2, <2>1, <2>2 DEF Written
<1> DEFINE n == available - Taken
<1>6. /\ n \in Nat /\ n >= 1 /\ Offset = 0 /\ Taken = 0
      /\ available' - Taken' = n - 1 /\ Offset' = 1
  BY <1>1 DEF Taken, Offset, Types, Counts
<1>7. Listed(g) \in [1 .. n -> Values \cup {Nothing}]
  BY ListedType
<1>8. \A i \in 1 .. n : Listed(g)[i] = item[g[i - 1]]
  <2>1. \A i \in 1 .. n : Offset + i - 1 = i - 1
    BY <1>6
  <2> QED BY <2>1 DEF Listed
<1>9. Listed(g)' = [i \in 1 .. n - 1 |-> item'[g[1 + i - 1]]]
  BY <1>6 DEF Listed
<1>10. \A i \in 1 .. n - 1 :
         /\ Listed(g)'[i] = Listed(g)[i + 1]
         /\ i + 1 \in 1 .. n
  <2>1. TAKE i \in 1 .. n - 1
  <2>2. /\ 1 + i - 1 = i /\ i + 1 \in 1 .. n /\ (i + 1) - 1 = i /\ i # 0
        /\ Offset + (i + 1) - 1 = i
    BY <1>6
  <2>3. i \in Nodes
    BY <2>2, Positions
  <2>4. item'[g[i]] = item[g[i]]
    BY <1>4, <2>2, <2>3
  <2> HIDE DEF n
  <2> QED BY <1>8, <1>9, <2>2, <2>4
<1>11. Listed(g)' \in [1 .. n - 1 -> Values \cup {Nothing}]
  <2> HIDE DEF n
  <2>1. \A i \in 1 .. n - 1 : Listed(g)'[i] \in Values \cup {Nothing}
    BY <1>7, <1>10
  <2> QED BY <1>9, <2>1
<1>12. Listed(g)[1] = item[itemRead]
  <2>1. 1 \in 1 .. n /\ 1 - 1 = 0
    BY <1>6
  <2> QED BY <1>8, <2>1 DEF Ring
<1> HIDE DEF n
<1>13. /\ Listed(g) # <<>> /\ Head(Listed(g)) = Listed(g)[1]
       /\ Listed(g)' = Tail(Listed(g))
  BY <1>6, <1>7, <1>10, <1>11, ListShorter
<1> QED BY <1>1, <1>3, <1>5, <1>12, <1>13 DEF QueueStep, Gets

(* The order from the reader's next node on.                               *)
LEMMA StepReadStep ==
  ASSUME RingAssumption, Types, Counts, NEW g, Ring(g), Written(g), ReadStep
  PROVE  QueueStep(g)
<1>1. /\ reader = "step" /\ reader' = "uncount" /\ itemRead' = next[itemRead]
      /\ UNCHANGED <<item, next, available, size, itemWrite, writer, pushes, out>>
  BY DEF ReadStep, nodes
<1>2. PICK s \in Nat : s = size
  BY DEF Types
<1>3. s > 1 /\ Nodes = 0 .. s - 1 /\ Nodes' = Nodes /\ 0 \in Nodes
  BY <1>1, <1>2, HeldBounds DEF Nodes
<1>4. PICK w \in Nodes : w = Held
  BY HeldBounds
<1>5. w >= 1 /\ Held' = w - 1 /\ w \in Nat /\ w <= s - 1
  <2>1. w >= 1 /\ w \in Nat /\ w <= s - 1
    BY <1>1, <1>3, <1>4, HeldBounds
  <2>2. available \in Nat
    BY DEF Types
  <2>3. Held' = Held - 1
    BY <1>1, <2>2 DEF Held
  <2> QED BY <1>4, <2>1, <2>3
<1> DEFINE at(i) == IF i = s - 1 THEN 0 ELSE i + 1
<1>6. \A i \in Nodes : Succ(i) = at(i) /\ Succ(i)' = at(i) /\ at(i) \in Nodes
  BY <1>1, <1>2, <1>3 DEF Succ
<1>7. \A i, j \in Nodes : at(i) = at(j) => i = j
  BY <1>3
<1>8. \A j \in Nodes : \E i \in Nodes : at(i) = j
  <2>1. TAKE j \in Nodes
  <2>2. CASE j = 0
    <3>1. s - 1 \in Nodes /\ at(s - 1) = 0
      BY <1>3
    <3> QED BY <2>2, <3>1
  <2>3. CASE j # 0
    <3>1. j - 1 \in Nodes /\ at(j - 1) = j
      BY <1>3, <2>3
    <3> QED BY <3>1
  <2> QED BY <2>2, <2>3
<1>9. at(0) = 1 /\ at(w - 1) = w /\ w - 1 \in Nodes
  BY <1>3, <1>5
<1>10. \A i \in Nodes : i < w => at(i) = i + 1
  BY <1>3, <1>5
<1> HIDE DEF at
<1>21. PICK h : h = [i \in 0 .. s - 1 |-> g[at(i)]]
  OBVIOUS
<1>11. \A i \in Nodes : h[i] = g[at(i)]
  BY <1>3, <1>21
<1>12. h \in [Nodes -> Nodes]
  BY <1>3, <1>6, <1>21 DEF Ring
<1>13. \A i, j \in Nodes : h[i] = h[j] => i = j
  BY <1>6, <1>7, <1>11 DEF Ring
<1>14. \A n \in Nodes : \E i \in Nodes : h[i] = n
  <2>1. TAKE n \in Nodes
  <2>2. PICK j \in Nodes : g[j] = n
    BY DEF Ring
  <2>3. PICK i \in Nodes : at(i) = j
    BY <1>8
  <2> QED BY <1>11, <2>2, <2>3
<1>15. \A i \in Nodes : next'[h[i]] = h[Succ(i)']
  <2>1. TAKE i \in Nodes
  <2>2. next[g[at(i)]] = g[at(at(i))]
    BY <1>6 DEF Ring
  <2> QED BY <1>1, <1>6, <1>11, <2>2
<1>16. itemRead' = h[0]
  <2>1. next[g[0]] = g[at(0)]
    BY <1>3, <1>6 DEF Ring
  <2> QED BY <1>1, <1>3, <1>11, <2>1 DEF Ring
<1>17. itemWrite' = h[Held']
  <2>1. itemWrite = g[w]
    BY <1>4 DEF Ring
  <2> QED BY <1>1, <1>5, <1>9, <1>11, <2>1
<1>18. Ring(h)'
  <2>1. \A i \in Nodes' : next'[h[i]] = h[Succ(i)']
    BY <1>3, <1>15
  <2>2. h \in [Nodes' -> Nodes'] /\ \A i, j \in Nodes' : h[i] = h[j] => i = j
    BY <1>3, <1>12, <1>13
  <2>3. \A n \in Nodes' : \E i \in Nodes' : h[i] = n
    BY <1>3, <1>14
  <2> QED BY <1>16, <1>17, <2>1, <2>2, <2>3 DEF Ring
<1>19. Written(h)'
  <2>1. CASE writer = "step"
    BY <1>1, <2>1 DEF Written
  <2>2. CASE writer = "count"
    <3>1. w >= 2
      <4>1. available \in Nat /\ available >= 1
        BY <1>1 DEF Types, Counts
      <4> QED BY <1>1, <1>4, <2>2, <4>1 DEF Held
    <3>2. w - 2 \in Nodes /\ at(w - 2) = w - 1
      <4>1. w - 2 \in Nodes /\ w - 2 < w /\ w - 2 + 1 = w - 1
        BY <1>3, <1>5, <3>1
      <4> QED BY <1>10, <4>1
    <3>3. (w - 1) - 1 = w - 2
      BY <1>5
    <3>4. h[Held' - 1] = g[Held - 1]
      BY <1>4, <1>5, <1>11, <3>2, <3>3
    <3>5. item[g[Held - 1]] = pushes
      BY <2>2 DEF Written
    <3>6. item'[h[Held' - 1]] = pushes'
      BY <1>1, <3>4, <3>5
    <3> QED BY <1>1, <2>2, <3>6 DEF Written
  <2>3. CASE writer \notin {"step", "count"}
    BY <1>1, <2>3 DEF Written
  <2> QED BY <2>1, <2>2, <2>3
<1>20. Listed(h)' = Listed(g)
  <2>1. /\ available' - Taken' = available - Taken
        /\ Offset = 1 /\ Offset' = 0
    BY <1>1 DEF Taken, Offset
  <2>2. \A i \in 1 .. available - Taken : h[0 + i - 1] = g[1 + i - 1]
    <3>1. TAKE i \in 1 .. available - Taken
    <3>2. /\ 1 + i - 1 \in Nodes /\ 1 + i - 1 < Top
          /\ Top \in Nodes /\ available - Taken \in Nat
      BY <2>1, Positions
    <3>3. Top <= w
      BY <1>4, <1>5 DEF Top
    <3>4. 0 + i - 1 \in Nodes /\ 0 + i - 1 < w /\ (0 + i - 1) + 1 = 1 + i - 1
      BY <1>3, <1>5, <3>2, <3>3
    <3>5. at(0 + i - 1) = 1 + i - 1
      BY <1>10, <3>4
    <3> QED BY <1>11, <3>4, <3>5
  <2>3. Listed(h)' = [i \in 1 .. available - Taken |-> item[h[0 + i - 1]]]
    <3>1. item' = item /\ available' - Taken' = available - Taken /\ Offset' = 0
      BY <1>1, <2>1
    <3> QED BY <3>1 DEF Listed
  <2>4. Listed(g) = [i \in 1 .. available - Taken |-> item[g[1 + i - 1]]]
    BY <2>1 DEF Listed
  <2> QED BY <2>2, <2>3, <2>4
<1> QED BY <1>1, <1>18, <1>19, <1>20 DEF QueueStep, Stutters

LEMMA StepUncount ==
  ASSUME RingAssumption, Types, Counts, NEW g, Ring(g), Written(g), Uncount
  PROVE  QueueStep(g)
<1>1. /\ reader = "uncount" /\ reader' = "idle" /\ available' = available - 1
      /\ UNCHANGED <<item, next, size, itemRead, itemWrite, writer, pushes, out>>
  BY DEF Uncount, nodes
<1>2. available \in Nat
  BY DEF Types
<1>3. Held' = Held
  BY <1>1, <1>2 DEF Held
<1>4. Ring(g)'
  BY <1>1, <1>3, SameRing
<1>5. Written(g)'
  BY <1>1, <1>3 DEF Written
<1>6. available' - Taken' = available - Taken /\ Offset' = Offset
  BY <1>1, <1>2 DEF Taken, Offset
<1>7. Listed(g)' = Listed(g)
  BY <1>1, <1>6 DEF Listed
<1> QED BY <1>1, <1>4, <1>5, <1>7 DEF QueueStep, Stutters

-----------------------------------------------------------------------------
(* All steps.                                                              *)

LEMMA RingStep ==
  ASSUME RingAssumption, RingInv, Next
  PROVE  RingInv' /\ \E g : Ring(g) /\ QueueStep(g)
<1>1. PICK g : Ring(g) /\ Written(g)
  BY DEF RingInv
<1>2. Types /\ Counts /\ NewChunk
  BY DEF RingInv
<1>3. itemRead \in Nodes /\ itemWrite \in Nodes
  BY <1>1, <1>2, HeldBounds DEF Ring
<1>4. Types' /\ Counts' /\ NewChunk'
  BY <1>2, <1>3, WriterTypes, ReaderTypes DEF Next
<1>5. Push => QueueStep(g)
  BY <1>1, <1>2, <1>4, StepPushBegin, StepSplice, StepWrite, StepWriteStep,
     StepCount, RingAssumption DEF Push
<1>6. Pop => QueueStep(g)
  BY <1>1, <1>2, StepPopBegin, StepTake, StepReadStep, StepUncount,
     RingAssumption DEF Pop
<1>7. QueueStep(g)
  BY <1>5, <1>6 DEF Next
<1>8. RingInv'
  BY <1>4, <1>7 DEF RingInv, QueueStep
<1> QED BY <1>1, <1>7, <1>8

LEMMA RingStutter ==
  ASSUME RingInv, UNCHANGED vars
  PROVE  RingInv'
<1>1. UNCHANGED <<item, next, available, size, itemWrite, itemRead, writer,
                  reader, pushes, out>>
  BY DEF vars, nodes
<1>2. PICK g : Ring(g) /\ Written(g)
  BY DEF RingInv
<1>3. Nodes' = Nodes /\ Held' = Held /\ \A i : Succ(i)' = Succ(i)
  BY <1>1 DEF Nodes, Held, Succ
<1>4. Ring(g)' /\ Written(g)'
  BY <1>1, <1>2, <1>3 DEF Ring, Written
<1>5. Types' /\ Counts' /\ NewChunk'
  BY <1>1 DEF RingInv, Types, Linked, Counts, NewChunk
<1> QED BY <1>4, <1>5 DEF RingInv

LEMMA RingInvariant == Spec => []RingInv
<1>1. Init => RingInv
  BY RingAssumption, RingInit
<1>2. RingInv /\ [Next]_vars => RingInv'
  BY RingAssumption, RingStep, RingStutter
<1> QED BY <1>1, <1>2, PTL DEF Spec

(* Every variable of the ring has its type in every state: in particular   *)
(* m_itemWrite and m_itemRead are nodes that are linked in, however the    *)
(* steps of the writer and of the reader interleave.                       *)
THEOREM RingTypeCorrect == Spec => []TypeOK
<1>1. RingInv => TypeOK
  BY RingAssumption, RingGives
<1> QED BY <1>1, RingInvariant, PTL

(* The writer and the reader never touch one field of a node at the same   *)
(* time, although pop takes no lock: what keeps them apart is m_available  *)
(* alone, and the node that is always free.                                *)
THEOREM RingRaceFree == Spec => []RaceFree
<1>1. RingInv => RaceFree
  BY RingAssumption, RingGives
<1> QED BY <1>1, RingInvariant, PTL

(* The nodes of ring_list are one ring, wherever its writer was when it    *)
(* grew: following the links, every node meets all nodes.                  *)
THEOREM RingStaysOne == Spec => []OneRing
<1>1. RingInv => OneRing
  <2>1. HAVE RingInv
  <2>2. PICK g : Ring(g)
    BY <2>1 DEF RingInv
  <2>3. Types /\ Counts
    BY <2>1 DEF RingInv
  <2> QED BY <2>2, <2>3, RingAssumption, WalkAll DEF OneRing
<1> QED BY <1>1, RingInvariant, PTL

(* What the queue holds is what the order of the nodes lists.              *)
ListsContents == \A g : Ring(g) => Contents = Listed(g)

(* ring_list implements the FIFO queue the event loop takes it for: Count, *)
(* the store to m_available that ends push, appends the value, Take takes  *)
(* the oldest one, and no other step of the two threads changes what the   *)
(* queue holds, growing by a chunk included.                               *)
THEOREM RingIsFifo == Spec => ImplementsFifo
<1>1. RingInv => ListsContents
  BY RingAssumption, ContentsListed DEF RingInv, ListsContents
<1>2. Init => Queue!Init
  <2>1. HAVE Init
  <2>2. RingInv
    BY <2>1, RingAssumption, RingInit
  <2>3. PICK g : Ring(g)
    BY <2>2 DEF RingInv
  <2>4. Contents = Listed(g)
    BY <1>1, <2>2, <2>3 DEF ListsContents
  <2>5. available - Taken = 0 /\ out = Nothing
    <3>1. available = 0 /\ Taken = 0 /\ out = Nothing
      BY <2>1 DEF Init, Taken
    <3> QED BY <3>1
  <2>6. Listed(g) = <<>>
    <3>1. 1 .. available - Taken = {}
      BY <2>5
    <3> QED BY <3>1 DEF Listed
  <2> QED BY <2>4, <2>5, <2>6 DEF Queue!Init
<1>3. RingInv /\ ListsContents' /\ [Next]_vars
        => [Queue!Next]_<<Contents, out>>
  <2>1. HAVE RingInv /\ ListsContents' /\ [Next]_vars
  <2>2. CASE Next
    <3>1. PICK g : Ring(g) /\ QueueStep(g)
      BY <2>1, <2>2, RingAssumption, RingStep
    <3>2. PICK h : Ring(h)' /\ (Stutters(g, h) \/ Puts(g, h) \/ Gets(g, h))
      BY <3>1 DEF QueueStep
    <3>3. Contents = Listed(g)
      BY <1>1, <2>1, <3>1 DEF ListsContents
    <3>4. Contents' = Listed(h)'
      BY <2>1, <3>2 DEF ListsContents
    <3>5. CASE Stutters(g, h)
      BY <3>3, <3>4, <3>5 DEF Stutters
    <3>6. CASE Puts(g, h)
      BY <3>3, <3>4, <3>6 DEF Puts, Queue!Next, Queue!Put
    <3>7. CASE Gets(g, h)
      BY <3>3, <3>4, <3>7 DEF Gets, Queue!Next, Queue!Get
    <3> QED BY <3>2, <3>5, <3>6, <3>7
  <2>3. CASE UNCHANGED vars
    <3>1. PICK g : Ring(g) /\ Written(g)
      BY <2>1 DEF RingInv
    <3>2. UNCHANGED <<item, next, available, size, itemWrite, itemRead, writer,
                      reader, out>>
      BY <2>3 DEF vars, nodes
    <3>3. Ring(g)' /\ Listed(g)' = Listed(g)
      <4>1. Nodes' = Nodes /\ Held' = Held /\ \A i : Succ(i)' = Succ(i)
        BY <3>2 DEF Nodes, Held, Succ
      <4> QED BY <3>1, <3>2, <4>1 DEF Ring, Listed, Taken, Offset
    <3>4. Contents = Listed(g) /\ Contents' = Listed(g)'
      BY <1>1, <2>1, <3>1, <3>3 DEF ListsContents
    <3> QED BY <3>2, <3>3, <3>4
  <2> QED BY <2>1, <2>2, <2>3
<1> QED BY <1>1, <1>2, <1>3, RingInvariant, PTL DEF Spec, ImplementsFifo, Queue!Spec
=============================================================================
